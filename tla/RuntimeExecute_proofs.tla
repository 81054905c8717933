------------------------ MODULE RuntimeExecute_proofs ------------------------
(***************************************************************************)
(* For any number of calls, executables and bytes, and whatever the calls' *)
(* arguments are: the kernels of one Executable exclude each other, what a *)
(* call read of a ragged prefix stays true, and the calls are atomic.      *)
(* LockInv says who holds which mutex; ExecInv says what a call has        *)
(* established so far, which bytes of memory may differ from the start,    *)
(* and what the kernels have put there.                                    *)
(***************************************************************************)
EXTENDS RuntimeExecute, SequenceTheorems, TLAPS

(* A call past its first check has an Executable, and the call inside a    *)
(* kernel is the one recorded as the owner of that Executable's mutex.     *)
ExecutableKnown ==
  \A c \in Calls : pc[c] \notin {"enter", "returned"} =>
                    Target(c) \in DOMAIN owner

OwnerInKernel ==
  \A c \in Calls : pc[c] = "kernel" => owner[Target(c)] = c

LockInv ==
  /\ DOMAIN pc = Calls
  /\ DOMAIN owner = DOMAIN scenario.executables
  /\ ExecutableKnown
  /\ OwnerInKernel

(* A step that leaves the mutexes alone and takes a call to a place        *)
(* outside the kernel keeps the invariant.                                 *)
LEMMA QuietStep ==
  ASSUME LockInv, NEW c \in Calls, NEW label,
         UNCHANGED <<scenario, owner>>,
         pc' = [pc EXCEPT ![c] = label],
         label # "kernel",
         label \in {"enter", "returned"} \/ Target(c) \in DOMAIN owner
  PROVE  LockInv'
<1>1. \A d \in Calls : Target(d)' = Target(d)
  BY DEF Target
<1>2. \A d \in Calls : pc'[d] = IF d = c THEN label ELSE pc[d]
  BY DEF LockInv
<1>3. DOMAIN pc' = Calls /\ DOMAIN owner' = DOMAIN scenario'.executables
  BY DEF LockInv
<1>4. ExecutableKnown'
  BY <1>1, <1>2 DEF LockInv, ExecutableKnown
<1>5. OwnerInKernel'
  BY <1>1, <1>2 DEF LockInv, OwnerInKernel
<1> QED
  BY <1>3, <1>4, <1>5 DEF LockInv

LEMMA AnswerQuiet ==
  ASSUME LockInv, NEW c \in Calls, NEW code, Answer(c, code)
  PROVE  LockInv'
BY QuietStep DEF Answer

(* Leaving the kernel frees the mutex: nobody else of that Executable is   *)
(* in a kernel, since the mutex had one owner.                             *)
LEMMA LeaveKernel ==
  ASSUME LockInv, NEW c \in Calls, pc[c] = "kernel",
         UNCHANGED scenario,
         owner' = [owner EXCEPT ![Target(c)] = 0],
         pc' = [pc EXCEPT ![c] = "returned"]
  PROVE  LockInv'
<1>1. \A d \in Calls : Target(d)' = Target(d)
  BY DEF Target
<1>2. \A d \in Calls : pc'[d] = IF d = c THEN "returned" ELSE pc[d]
  BY DEF LockInv
<1>3. /\ DOMAIN pc' = Calls
      /\ DOMAIN owner' = DOMAIN owner
      /\ DOMAIN owner' = DOMAIN scenario'.executables
  BY DEF LockInv
<1>4. ExecutableKnown'
  BY <1>1, <1>2, <1>3 DEF LockInv, ExecutableKnown
<1>5. OwnerInKernel'
  <2> SUFFICES ASSUME NEW d \in Calls, pc'[d] = "kernel"
               PROVE  owner'[Target(d)] = d
    BY <1>1 DEF OwnerInKernel
  <2>1. d # c /\ pc[d] = "kernel" /\ owner[Target(d)] = d
    BY <1>2 DEF LockInv, OwnerInKernel
  <2>2. owner[Target(c)] = c
    BY DEF LockInv, OwnerInKernel
  <2>3. Target(d) # Target(c)
    BY <2>1, <2>2
  <2> QED
    BY <2>1, <2>3
<1> QED
  BY <1>3, <1>4, <1>5 DEF LockInv

(* Entering needs a free mutex: no call of that Executable is in a kernel. *)
LEMMA EnterKeeps ==
  ASSUME LockInv, NEW c \in Calls, EnterKernel(c)
  PROVE  LockInv'
<1>1. \A d \in Calls : Target(d)' = Target(d)
  BY DEF Target, EnterKernel
<1>2. /\ \A d \in Calls : pc'[d] = IF d = c THEN "kernel" ELSE pc[d]
      /\ Target(c) \in DOMAIN owner
  BY DEF LockInv, EnterKernel, ExecutableKnown
<1>3. /\ DOMAIN pc' = Calls
      /\ DOMAIN owner' = DOMAIN owner
      /\ DOMAIN owner' = DOMAIN scenario'.executables
  BY DEF LockInv, EnterKernel
<1>4. ExecutableKnown'
  BY <1>1, <1>2, <1>3 DEF LockInv, ExecutableKnown
<1>5. OwnerInKernel'
  <2> SUFFICES ASSUME NEW d \in Calls, pc'[d] = "kernel"
               PROVE  owner'[Target(d)] = d
    BY <1>1 DEF OwnerInKernel
  <2>1. CASE d = c
    BY <2>1, <1>2 DEF EnterKernel
  <2>2. CASE d # c
    <3>1. owner[Target(d)] = d /\ d # 0
      BY <2>2, <1>2, CallsAssumption DEF LockInv, OwnerInKernel
    <3>2. Target(d) # Target(c)
      BY <3>1 DEF EnterKernel
    <3> QED
      BY <3>1, <3>2 DEF EnterKernel
  <2> QED
    BY <2>1, <2>2
<1> QED
  BY <1>3, <1>4, <1>5 DEF LockInv

LEMMA LockInit == Init => LockInv
BY DEF Init, LockInv, ExecutableKnown, OwnerInKernel

LEMMA LockStep ==
  ASSUME LockInv, NEW c \in Calls, Step(c)
  PROVE  LockInv'
<1>1. CASE CheckVariant(c)
  <2>1. CASE VariantStatus(c) = "ok"
    <3>1. Target(c) \in DOMAIN scenario.executables
      BY <2>1 DEF VariantStatus
    <3> QED
      BY <1>1, <2>1, <3>1, QuietStep DEF CheckVariant, Goto, LockInv
  <2>2. CASE VariantStatus(c) # "ok"
    BY <1>1, <2>2, AnswerQuiet DEF CheckVariant
  <2> QED
    BY <2>1, <2>2
<1>2. CASE CheckPointers(c)
  <2>1. Target(c) \in DOMAIN owner
    BY <1>2 DEF CheckPointers, LockInv, ExecutableKnown
  <2> QED
    BY <1>2, <2>1, QuietStep, AnswerQuiet DEF CheckPointers, Goto
<1>3. CASE ResolveRange(c)
  <2>1. Target(c) \in DOMAIN owner
    BY <1>3 DEF ResolveRange, LockInv, ExecutableKnown
  <2>2. \/ \E code : Answer(c, code)
        \/ Goto(c, "ranges")
    BY <1>3 DEF ResolveRange
  <2> QED
    BY <2>1, <2>2, QuietStep, AnswerQuiet DEF Goto
<1>4. CASE CheckAliases(c)
  <2>1. Target(c) \in DOMAIN owner
    BY <1>4 DEF CheckAliases, LockInv, ExecutableKnown
  <2> QED
    BY <1>4, <2>1, QuietStep, AnswerQuiet DEF CheckAliases, Goto
<1>5. CASE CheckWorkspace(c)
  <2>1. Target(c) \in DOMAIN owner
    BY <1>5 DEF CheckWorkspace, LockInv, ExecutableKnown
  <2> QED
    BY <1>5, <2>1, QuietStep, AnswerQuiet DEF CheckWorkspace, Goto
<1>6. CASE EnterKernel(c)
  BY <1>6, EnterKeeps
<1>7. CASE KernelWrite(c)
  BY <1>7 DEF KernelWrite, LockInv, ExecutableKnown, OwnerInKernel, Target
<1>8. CASE KernelReturns(c)
  BY <1>8, LeaveKernel DEF KernelReturns
<1>9. CASE EngineFails(c)
  BY <1>9, LeaveKernel DEF EngineFails
<1> QED
  BY <1>1, <1>2, <1>3, <1>4, <1>5, <1>6, <1>7, <1>8, <1>9 DEF Step

LEMMA LockNext == LockInv /\ [Next]_vars => LockInv'
<1> SUFFICES ASSUME LockInv, [Next]_vars PROVE LockInv'
  OBVIOUS
<1>1. CASE Next
  BY <1>1, LockStep DEF Next
<1>2. CASE UNCHANGED vars
  BY <1>2 DEF vars, LockInv, ExecutableKnown, OwnerInKernel, Target
<1> QED
  BY <1>1, <1>2

LEMMA LockExcludes == LockInv => KernelExclusion
BY DEF LockInv, OwnerInKernel, KernelExclusion

(* invoke_mutex keeps the kernels of one Executable apart: no two calls    *)
(* into the same Executable are ever inside its compiled code together.    *)
THEOREM KernelsExclude == Spec => []KernelExclusion
<1>1. Init => LockInv
  BY LockInit
<1>2. LockInv /\ [Next]_vars => LockInv'
  BY LockNext
<1>3. LockInv => KernelExclusion
  BY LockExcludes
<1> QED
  BY <1>1, <1>2, <1>3, PTL DEF Spec
-----------------------------------------------------------------------------
(* How far a call has come.  What it has checked before it entered its     *)
(* kernel stays true of it once it has succeeded.                          *)
Labels == {"enter", "pointers", "ranges", "workspace", "lock", "kernel",
           "returned"}
Reached(c, labels) == pc[c] \in labels \/ status[c] = "ok"
Placed == {"ranges", "workspace", "lock", "kernel"}

(* A size was resolved from the prefix the caller handed over.             *)
Resolved(c, i) ==
  /\ Arguments(c)[i].ragged => Atomic!PrefixGood(c, Arguments(c)[i])
  /\ sizes[c][i] = Extent(scenario, c, Arguments(c)[i])
  /\ Pointer(c, i) + sizes[c][i] <= UIntPtrMax

AllResolved(c) ==
  /\ Len(sizes[c]) <= Len(Arguments(c))
  /\ \A i \in DOMAIN sizes[c] : Resolved(c, i)

Unaliased(c) == Len(sizes[c]) = Len(Arguments(c)) /\ ~ ArgumentsAlias(c)

CallInv(c) ==
  /\ pc[c] \in Labels
  /\ status[c] = "ok" => pc[c] = "returned"
  /\ sizes[c] \in Seq(Nat)
  /\ Reached(c, {"enter", "pointers"}) /\ status[c] # "ok" => sizes[c] = <<>>
  /\ Reached(c, {"pointers"} \cup Placed) => VariantStatus(c) = "ok"
  /\ Reached(c, Placed) => PointersValid(c) /\ AllResolved(c)
  /\ Reached(c, Placed \ {"ranges"}) => Unaliased(c)
  /\ Reached(c, {"lock", "kernel"}) => WorkspaceStatus(c) = "ok"
  /\ written[c] # {} =>
       /\ Reached(c, {"kernel"})
       /\ written[c] \subseteq OutputBytes(c) \cup ScratchBytes(c)

(* Only kernels write, and what the kernel of a call has written is made   *)
(* of its Executable's inputs as they were at the start.                   *)
OnlyWritten ==
  \A x \in DOMAIN memory :
    memory[x] = scenario.memory[x] \/ \E c \in Calls : x \in written[c]

Inputs(c) == Cells(ReadBytes(c), scenario.memory)
Partial(c) == <<Target(c)>> \o Inputs(c)
Final(c, x) ==
  <<Target(c), x>> \o Joined([y \in ScratchBytes(c) |-> Partial(c)]) \o Inputs(c)

Computed(c) ==
  pc[c] = "kernel" =>
    \A x \in written[c] :
      memory[x] = IF x \in OutputBytes(c) THEN Final(c, x) ELSE Partial(c)

ExecInv ==
  /\ scenario \in Scenarios
  /\ DOMAIN memory = 0..UIntPtrMax
  /\ DOMAIN sizes = Calls
  /\ DOMAIN written = Calls
  /\ DOMAIN status = Calls
  /\ \A c \in Calls : CallInv(c) /\ Computed(c)
  /\ OnlyWritten
-----------------------------------------------------------------------------
(* The storage of one call.                                                *)
LEMMA Ranges ==
  ASSUME NEW a, NEW b, a.begin \in Int, a.end \in Int, b.begin \in Int,
         b.end \in Int
  PROVE  /\ ~ Overlaps(a, b) => Bytes(a) \cap Bytes(b) = {}
         /\ Overlaps(a, b) /\ a.begin < a.end /\ b.begin < b.end =>
              \E x \in Bytes(a) : x \in Bytes(b)
         /\ Overlaps(a, b) => a.begin < a.end \/ b.begin < b.end
         /\ Overlaps(a, b) /\ a.begin = a.end => a.begin \in Bytes(b)
         /\ Overlaps(a, b) /\ b.begin = b.end => b.begin \in Bytes(a)
<1>1. ~ Overlaps(a, b) => Bytes(a) \cap Bytes(b) = {}
  BY DEF Overlaps, Bytes
<1>2. ASSUME Overlaps(a, b), a.begin < a.end, b.begin < b.end
      PROVE  \E x \in Bytes(a) : x \in Bytes(b)
  <2>1. CASE a.begin <= b.begin
    <3>1. b.begin \in Bytes(a) /\ b.begin \in Bytes(b)
      BY <1>2, <2>1 DEF Overlaps, Bytes
    <3> QED
      BY <3>1
  <2>2. CASE a.begin > b.begin
    <3>1. a.begin \in Bytes(a) /\ a.begin \in Bytes(b)
      BY <1>2, <2>2 DEF Overlaps, Bytes
    <3> QED
      BY <3>1
  <2> QED
    BY <2>1, <2>2
<1> QED
  BY <1>1, <1>2 DEF Overlaps, Bytes

(* What is known of the arguments of a call with an Executable.            *)
LEMMA ArgumentFacts ==
  ASSUME scenario \in Scenarios, NEW c \in Calls, Target(c) \in DOMAIN scenario.executables
  PROVE  /\ Arguments(c) \in Seq(ToSet(Arguments(c)))
         /\ ArgumentsValid(Executable(c))
         /\ \A i \in DOMAIN Arguments(c) : Arguments(c)[i].size \in 1..UIntPtrMax
         /\ Executable(c).workspace \in Nat
         /\ Executable(c).compiled \subseteq Variants
         /\ Workspace(c) \in 0..UIntPtrMax
<1>1. ScenarioValid(scenario)
  BY ScenariosAssumption
<1>2. ArgumentsValid(Executable(c))
  BY <1>1 DEF ScenarioValid, Executable, Target
<1> QED
  BY <1>1, <1>2 DEF ScenarioValid, Executable, Target, Arguments, Workspace, ArgumentsValid

LEMMA ExtentIsNat ==
  ASSUME NEW s, NEW c, NEW a, a.size \in 1..UIntPtrMax, a.ragged \in BOOLEAN
  PROVE  Extent(s, c, a) \in 0..a.size
BY AddressAssumption, SMTT(30) DEF Extent

(* A call whose pointers have been checked names all of its arguments.     *)
LEMMA PointersComplete ==
  ASSUME scenario \in Scenarios, NEW c \in Calls, Target(c) \in DOMAIN scenario.executables,
         PointersValid(c)
  PROVE  /\ c \in Complete(scenario)
         /\ \A i \in DOMAIN Arguments(c) : Pointer(c, i) \in 0..UIntPtrMax
<1>1. ScenarioValid(scenario)
  BY ScenariosAssumption
<1>2. \A i \in DOMAIN Arguments(c) : Arguments(c)[i].uid \in DOMAIN scenario.pack[c]
  BY DEF PointersValid
<1>3. c \in Complete(scenario)
  BY <1>2 DEF Complete, Target, Arguments, Executable, ToSet
<1> QED
  BY <1>1, <1>2, <1>3 DEF ScenarioValid, Pointer

(* The intervals a call has resolved cover the storage of the scenario.    *)
Settled(c) ==
  /\ Target(c) \in DOMAIN scenario.executables
  /\ PointersValid(c)
  /\ sizes[c] \in Seq(Nat)
  /\ AllResolved(c)
  /\ Len(sizes[c]) = Len(Arguments(c))

LEMMA Footprint ==
  ASSUME scenario \in Scenarios, NEW c \in Calls, Settled(c)
  PROVE  /\ DOMAIN sizes[c] = DOMAIN Arguments(c)
         /\ OutputBytes(c) = Storage(scenario, c, TRUE)
         /\ ReadBytes(c) = Storage(scenario, c, FALSE)
         /\ ScratchBytes(c) = Scratch(scenario, c)
         /\ OutputBytes(c) \cup ReadBytes(c) \subseteq 0..UIntPtrMax
<1>1. /\ DOMAIN sizes[c] = DOMAIN Arguments(c)
      /\ \A i \in DOMAIN Arguments(c) : Resolved(c, i)
  BY ArgumentFacts DEF Settled, AllResolved
<1>2. \A i \in DOMAIN Arguments(c) :
        Bytes(ArgumentInterval(c, i))
          = Pointer(c, i)..(Pointer(c, i) + Extent(scenario, c, Arguments(c)[i]) - 1)
  <2> SUFFICES ASSUME NEW i \in DOMAIN Arguments(c)
               PROVE  Bytes(ArgumentInterval(c, i))
                        = Pointer(c, i)..(Pointer(c, i) + sizes[c][i] - 1)
    BY <1>1 DEF Resolved
  <2>1. Pointer(c, i) \in Int /\ sizes[c][i] \in Int
    BY <1>1, PointersComplete DEF Settled
  <2> QED
    BY <2>1 DEF Bytes, ArgumentInterval
<1> DEFINE span(a) == scenario.pack[c][a.uid]
                        ..(scenario.pack[c][a.uid] + Extent(scenario, c, a) - 1)
<1>a. \A i \in DOMAIN Arguments(c) : Bytes(ArgumentInterval(c, i)) = span(Arguments(c)[i])
  BY <1>2 DEF Pointer
<1>b. \A writable, x :
        x \in Storage(scenario, c, writable)
          <=> \E i \in DOMAIN Arguments(c) :
                Writes(Arguments(c)[i].access) = writable /\ x \in span(Arguments(c)[i])
  BY DEF Storage, Arguments, Executable, Target, ToSet
<1> HIDE DEF span
<1>3. OutputBytes(c) = Storage(scenario, c, TRUE)
  <2>1. \A x : x \in OutputBytes(c)
                <=> \E i \in DOMAIN Arguments(c) :
                      Writes(Arguments(c)[i].access) /\ x \in span(Arguments(c)[i])
    BY <1>1, <1>a DEF OutputBytes
  <2> QED
    BY <2>1, <1>b, Zenon DEF Writes
<1>4. ReadBytes(c) = Storage(scenario, c, FALSE)
  <2>1. \A x : x \in ReadBytes(c)
                <=> \E i \in DOMAIN Arguments(c) :
                      ~ Writes(Arguments(c)[i].access) /\ x \in span(Arguments(c)[i])
    BY <1>1, <1>a DEF ReadBytes
  <2> QED
    BY <2>1, <1>b DEF Writes
<1>5. ScratchBytes(c) = Scratch(scenario, c)
  <2>1. ScratchBytes(c) = Workspace(c)..(Workspace(c) + Executable(c).workspace - 1)
    BY ArgumentFacts DEF ScratchBytes, WorkspaceInterval, Bytes, Settled
  <2> QED
    BY <2>1 DEF Scratch, Workspace, Executable, Target
<1>6. \A i \in DOMAIN Arguments(c) : Bytes(ArgumentInterval(c, i)) \subseteq 0..UIntPtrMax
  <2> SUFFICES ASSUME NEW i \in DOMAIN Arguments(c)
               PROVE  Bytes(ArgumentInterval(c, i)) \subseteq 0..UIntPtrMax
    OBVIOUS
  <2>1. Pointer(c, i) \in 0..UIntPtrMax /\ sizes[c][i] \in Nat
    BY <1>1, PointersComplete DEF Settled
  <2>2. Pointer(c, i) + sizes[c][i] <= UIntPtrMax
    BY <1>1 DEF Resolved
  <2> QED
    BY <2>1, <2>2, AddressAssumption DEF Bytes, ArgumentInterval
<1>7. OutputBytes(c) \cup ReadBytes(c) \subseteq 0..UIntPtrMax
  BY <1>1, <1>6 DEF OutputBytes, ReadBytes
<1> QED
  BY <1>1, <1>3, <1>4, <1>5, <1>7

(* A call that has checked everything: its writes stay off its reads.      *)
Accepted(c) == Settled(c) /\ ~ ArgumentsAlias(c) /\ WorkspaceStatus(c) = "ok"

LEMMA OwnStorageApart ==
  ASSUME scenario \in Scenarios, NEW c \in Calls, Accepted(c)
  PROVE  /\ OutputBytes(c) \cap ReadBytes(c) = {}
         /\ ScratchBytes(c) \cap (OutputBytes(c) \cup ReadBytes(c)) = {}
         /\ ScratchBytes(c) \subseteq 0..UIntPtrMax
<1>1. /\ DOMAIN sizes[c] = DOMAIN Arguments(c)
      /\ \A i \in DOMAIN Arguments(c) :
           /\ ArgumentInterval(c, i).begin \in Int
           /\ ArgumentInterval(c, i).end \in Int
  BY Footprint, PointersComplete DEF Accepted, Settled, ArgumentInterval
<1>2. \A i, j \in DOMAIN Arguments(c) :
        Writes(Arguments(c)[i].access) /\ ~ Writes(Arguments(c)[j].access) =>
          Bytes(ArgumentInterval(c, i)) \cap Bytes(ArgumentInterval(c, j)) = {}
  <2> SUFFICES ASSUME NEW i \in DOMAIN Arguments(c), NEW j \in DOMAIN Arguments(c),
                      Writes(Arguments(c)[i].access), ~ Writes(Arguments(c)[j].access)
               PROVE  ~ Overlaps(ArgumentInterval(c, i), ArgumentInterval(c, j))
    BY <1>1, Ranges
  <2>1. i \in Int /\ j \in Int /\ i # j
    BY ArgumentFacts DEF Accepted, Settled
  <2>2. CASE i < j
    BY <2>2 DEF Accepted, ArgumentsAlias
  <2>3. CASE j < i
    BY <2>3 DEF Accepted, ArgumentsAlias, Overlaps
  <2> QED
    BY <2>1, <2>2, <2>3
<1>3. OutputBytes(c) \cap ReadBytes(c) = {}
  BY <1>1, <1>2 DEF OutputBytes, ReadBytes
<1>4. /\ WorkspaceInterval(c).begin \in Int
      /\ WorkspaceInterval(c).end \in Int
      /\ Executable(c).workspace \in Nat
      /\ Workspace(c) \in 0..UIntPtrMax
      /\ ScratchBytes(c) = Workspace(c)..(Workspace(c) + Executable(c).workspace - 1)
  BY ArgumentFacts DEF Accepted, Settled, WorkspaceInterval, ScratchBytes, Bytes
<1>5. CASE Executable(c).workspace = 0
  BY <1>4, <1>5, <1>3
<1>6. CASE Executable(c).workspace # 0
  <2>1. /\ WorkspaceInterval(c).end <= UIntPtrMax
        /\ \A i \in DOMAIN Arguments(c) :
             ~ Overlaps(ArgumentInterval(c, i), WorkspaceInterval(c))
    BY <1>6, <1>4, AddressAssumption DEF Accepted, WorkspaceStatus
  <2>2. \A i \in DOMAIN Arguments(c) :
          Bytes(ArgumentInterval(c, i)) \cap ScratchBytes(c) = {}
    BY <2>1, <1>1, <1>4, Ranges DEF ScratchBytes
  <2>3. ScratchBytes(c) \subseteq 0..UIntPtrMax
    BY <2>1, <1>4, AddressAssumption DEF WorkspaceInterval
  <2> QED
    BY <2>2, <2>3, <1>1, <1>3 DEF OutputBytes, ReadBytes
<1> QED
  BY <1>4, <1>5, <1>6

(* Two calls that have checked everything write nothing the other uses.    *)
LEMMA CallsStorageApart ==
  ASSUME scenario \in Scenarios, NEW c \in Calls, NEW d \in Calls, c # d,
         Accepted(c), Accepted(d)
  PROVE  /\ OutputBytes(c) \cap OutputBytes(d) = {}
         /\ (OutputBytes(c) \cup ScratchBytes(c)) \cap ReadBytes(d) = {}
         /\ OutputBytes(c) \cap ScratchBytes(d) = {}
         /\ Target(c) # Target(d) => ScratchBytes(c) \cap ScratchBytes(d) = {}
<1>1. CallersApart(scenario)
  BY ScenariosAssumption
<1>2. c \in Complete(scenario) /\ d \in Complete(scenario)
  BY PointersComplete DEF Accepted, Settled
<1>3. /\ OutputBytes(c) = Storage(scenario, c, TRUE)
      /\ ReadBytes(c) = Storage(scenario, c, FALSE)
      /\ ScratchBytes(c) = Scratch(scenario, c)
      /\ OutputBytes(d) = Storage(scenario, d, TRUE)
      /\ ReadBytes(d) = Storage(scenario, d, FALSE)
      /\ ScratchBytes(d) = Scratch(scenario, d)
  BY Footprint DEF Accepted
<1>4. /\ Storage(scenario, c, TRUE) \cap Storage(scenario, d, TRUE) = {}
      /\ Storage(scenario, c, TRUE) \cup Scratch(scenario, c)
            \subseteq Int \ Storage(scenario, d, FALSE)
      /\ Storage(scenario, c, TRUE) \cap Scratch(scenario, d) = {}
      /\ scenario.target[c] # scenario.target[d] =>
           Scratch(scenario, c) \cap Scratch(scenario, d) = {}
  BY <1>1, <1>2 DEF CallersApart
<1>5. (Storage(scenario, c, TRUE) \cup Scratch(scenario, c))
         \cap Storage(scenario, d, FALSE) = {}
  BY <1>4
<1> QED
  BY <1>3, <1>4, <1>5 DEF Target

LEMMA WriterAccepted ==
  ASSUME NEW c \in Calls, CallInv(c), Reached(c, {"lock", "kernel"})
  PROVE  Accepted(c)
<1>1. Reached(c, Placed) /\ Reached(c, Placed \ {"ranges"}) /\ Reached(c, {"pointers"} \cup Placed)
  BY DEF Reached, Placed
<1>2. VariantStatus(c) = "ok" => Target(c) \in DOMAIN scenario.executables
  BY DEF VariantStatus
<1> QED
  BY <1>1, <1>2 DEF CallInv, Accepted, Settled, Unaliased

(* Nobody has written what a complete call reads, itself included.         *)
LEMMA Protected ==
  ASSUME ExecInv, NEW c \in Complete(scenario), NEW x \in Storage(scenario, c, FALSE),
         x \in 0..UIntPtrMax
  PROVE  memory[x] = scenario.memory[x]
<1> SUFFICES ASSUME NEW d \in Calls, x \in written[d] PROVE FALSE
  BY DEF ExecInv, OnlyWritten
<1>1. /\ Accepted(d)
      /\ x \in OutputBytes(d) \cup ScratchBytes(d)
  <2>1. Reached(d, {"kernel"}) /\ x \in OutputBytes(d) \cup ScratchBytes(d) /\ CallInv(d)
    BY DEF ExecInv, CallInv
  <2>2. Reached(d, {"lock", "kernel"})
    BY <2>1 DEF Reached
  <2> QED
    BY <2>1, <2>2, WriterAccepted
<1>2. /\ d \in Complete(scenario)
      /\ OutputBytes(d) = Storage(scenario, d, TRUE)
      /\ ReadBytes(d) = Storage(scenario, d, FALSE)
      /\ ScratchBytes(d) = Scratch(scenario, d)
  BY <1>1, Footprint, PointersComplete DEF ExecInv, Accepted, Settled
<1>3. CASE d = c
  BY <1>1, <1>2, <1>3, OwnStorageApart, ZenonT(30) DEF ExecInv
<1>4. CASE d # c
  <2>1. CallersApart(scenario)
    BY ScenariosAssumption DEF ExecInv
  <2> QED
    BY <2>1, <1>1, <1>2, <1>4 DEF CallersApart
<1> QED
  BY <1>3, <1>4
-----------------------------------------------------------------------------
(* Ragged prefixes.                                                        *)
LEMMA Wrapless ==
  ASSUME NEW p \in Int, NEW q \in Int, 0 <= p, p <= q, q <= UIntPtrMax
  PROVE  Unsigned(q - p) = q - p
<1>1. q - p \in 0..UIntPtrMax
  BY AddressAssumption
<1>2. \A n \in Nat, m \in Nat : n <= m => n % (m + 1) = n
  OBVIOUS
<1> QED
  BY <1>1, <1>2, AddressAssumption DEF Unsigned

LEMMA IntegerRead ==
  ASSUME NEW cell \in Seq(Int)
  PROVE  IntegerIn(cell) \in Int
BY DEF IntegerIn

(* What a call reads of a prefix now is what was there at the start.       *)
LEMMA PrefixUnwritten ==
  ASSUME ExecInv, NEW c \in Complete(scenario), NEW i \in DOMAIN Arguments(c),
         Arguments(c)[i].ragged
  PROVE  LET a == Arguments(c)[i]
         IN /\ a.batches \in Nat \ {0}
            /\ a.size \in 1..UIntPtrMax
            /\ \A b \in 0..a.batches :
                 Offset(c, a, b) = Atomic!Prefix(c, a)[b] /\ Offset(c, a, b) \in Int
            /\ \A b \in 0..(a.batches - 1) :
                 /\ SequenceLength(c, a, b) = Atomic!Lengths(c, a)[b]
                 /\ SequenceLength(c, a, b) \in Int
<1> DEFINE a == Arguments(c)[i]
<1>1. /\ ScenarioValid(scenario)
      /\ c \in Calls
      /\ Target(c) \in DOMAIN scenario.executables
  BY ScenariosAssumption DEF ExecInv, Complete, Target
<1>2. ArgumentsValid(Executable(c))
  BY <1>1, ArgumentFacts DEF ExecInv
<1>a. \A j \in DOMAIN Arguments(c) :
        Arguments(c)[j] \in ToSet(scenario.executables[scenario.target[c]].arguments)
  BY DEF Arguments, Executable, Target, ToSet
<1>b. \A j \in DOMAIN Arguments(c) :
        /\ scenario.pack[c][Arguments(c)[j].uid] \in 0..UIntPtrMax
        /\ Arguments(c)[j].size \in 1..UIntPtrMax
  <2>1. \A j \in DOMAIN Arguments(c) : Arguments(c)[j].uid \in DOMAIN scenario.pack[c]
    BY <1>a DEF Complete
  <2>2. \A j \in DOMAIN Arguments(c) : Arguments(c)[j].size \in 1..UIntPtrMax
    BY <1>2 DEF ArgumentsValid, Arguments
  <2> QED
    BY <2>1, <2>2, <1>1 DEF ScenarioValid
<1>3. /\ a.batches \in Nat \ {0}
      /\ a.size \in 1..UIntPtrMax
      /\ scenario.pack[c][a.offset] + a.batches <= UIntPtrMax
      /\ scenario.pack[c][a.sequence] + a.batches <= UIntPtrMax + 1
  <2>1. a.batches \in Nat \ {0} /\ a.size \in 1..UIntPtrMax
    BY <1>2 DEF ArgumentsValid, Arguments
  <2>2. /\ scenario.pack[c][a.offset] + a.batches <= UIntPtrMax
        /\ scenario.pack[c][a.sequence] + a.batches <= UIntPtrMax + 1
    BY <1>1, <1>a DEF ScenarioValid
  <2> QED
    BY <2>1, <2>2
<1>4. ASSUME NEW uid, NEW n \in Nat \ {0}, NEW j \in DOMAIN Arguments(c),
             Arguments(c)[j].uid = uid, Arguments(c)[j].access = "read",
             ~ Arguments(c)[j].ragged, n <= Arguments(c)[j].size,
             scenario.pack[c][uid] + n <= UIntPtrMax + 1,
             NEW b \in 0..(n - 1)
      PROVE  /\ memory[scenario.pack[c][uid] + b]
                  = scenario.memory[scenario.pack[c][uid] + b]
             /\ scenario.memory[scenario.pack[c][uid] + b] \in Seq(Int)
  <2> DEFINE x == scenario.pack[c][uid] + b
  <2>1. /\ scenario.pack[c][uid] \in 0..UIntPtrMax
        /\ Arguments(c)[j].size \in 1..UIntPtrMax
    BY <1>b, <1>4
  <2>2. /\ x \in 0..UIntPtrMax
        /\ x \in scenario.pack[c][uid]..(scenario.pack[c][uid] + Arguments(c)[j].size - 1)
    BY <2>1, <1>4, AddressAssumption
  <2>3. Extent(scenario, c, Arguments(c)[j]) = Arguments(c)[j].size
    BY <1>4 DEF Extent
  <2>4. x \in Storage(scenario, c, FALSE)
    BY <2>2, <2>3, <1>4 DEF Storage, ToSet, Arguments, Executable, Target, Writes
  <2>5. memory[x] = scenario.memory[x]
    BY <2>2, <2>4, Protected
  <2> QED
    BY <2>2, <2>5, <1>1 DEF ScenarioValid
<1>5. PICK j \in DOMAIN Arguments(c) :
        /\ Arguments(c)[j].uid = a.offset
        /\ Arguments(c)[j].access = "read"
        /\ ~ Arguments(c)[j].ragged
        /\ a.batches + 1 <= Arguments(c)[j].size
  BY <1>2 DEF ArgumentsValid, Arguments
<1>6. PICK k \in DOMAIN Arguments(c) :
        /\ Arguments(c)[k].uid = a.sequence
        /\ Arguments(c)[k].access = "read"
        /\ ~ Arguments(c)[k].ragged
        /\ a.batches <= Arguments(c)[k].size
  BY <1>2 DEF ArgumentsValid, Arguments
<1>7. ASSUME NEW b \in 0..a.batches
      PROVE  Offset(c, a, b) = Atomic!Prefix(c, a)[b] /\ Offset(c, a, b) \in Int
  <2> DEFINE x == scenario.pack[c][a.offset] + b
  <2>1. /\ a.batches + 1 \in Nat \ {0}
        /\ b \in 0..((a.batches + 1) - 1)
        /\ scenario.pack[c][a.offset] + (a.batches + 1) <= UIntPtrMax + 1
    <3>1. scenario.pack[c][a.offset] \in 0..UIntPtrMax
      BY <1>b, <1>5
    <3> QED
      BY <3>1, <1>3, <1>7, AddressAssumption
  <2>2. memory[x] = scenario.memory[x] /\ scenario.memory[x] \in Seq(Int)
    BY <1>4, <1>5, <2>1
  <2> QED
    BY <2>2, IntegerRead DEF Offset, Atomic!Prefix, Atomic!Number, Atomic!At, IntegerIn
<1>8. ASSUME NEW b \in 0..(a.batches - 1)
      PROVE  /\ SequenceLength(c, a, b) = Atomic!Lengths(c, a)[b]
             /\ SequenceLength(c, a, b) \in Int
  <2> DEFINE x == scenario.pack[c][a.sequence] + b
  <2>2. memory[x] = scenario.memory[x] /\ scenario.memory[x] \in Seq(Int)
    BY <1>4, <1>6, <1>3, <1>8
  <2> QED
    BY <2>2, IntegerRead DEF SequenceLength, Atomic!Lengths, Atomic!Number, Atomic!At, IntegerIn
<1> QED
  BY <1>3, <1>7, <1>8

(* The check of a prefix decides what the promise calls a good prefix, and *)
(* the size it gives is the one the scenario tells.                        *)
LEMMA PrefixDecided ==
  ASSUME ExecInv, NEW c \in Complete(scenario), NEW i \in DOMAIN Arguments(c),
         Arguments(c)[i].ragged
  PROVE  LET a == Arguments(c)[i]
         IN /\ RaggedValid(c, a) <=> Atomic!PrefixGood(c, a)
            /\ Atomic!PrefixGood(c, a) =>
                 /\ Offset(c, a, a.batches) = Extent(scenario, c, a)
                 /\ Atomic!Prefix(c, a)[a.batches] = Extent(scenario, c, a)
<1> DEFINE a == Arguments(c)[i]
<1> DEFINE p == Atomic!Prefix(c, a)
<1> DEFINE l == Atomic!Lengths(c, a)
<1>1. /\ a.batches \in Nat \ {0}
      /\ a.size \in 1..UIntPtrMax
      /\ \A b \in 0..a.batches : Offset(c, a, b) = p[b] /\ p[b] \in Int
      /\ \A b \in 0..(a.batches - 1) : SequenceLength(c, a, b) = l[b] /\ l[b] \in Int
      /\ \A b \in 0..(a.batches - 1) : b \in 0..a.batches /\ b + 1 \in 0..a.batches
      /\ DOMAIN l = 0..(a.batches - 1)
  <2>1. a.batches \in Nat \ {0} /\ a.size \in 1..UIntPtrMax
    BY PrefixUnwritten
  <2>2. \A b \in 0..a.batches : Offset(c, a, b) = p[b] /\ Offset(c, a, b) \in Int
    BY PrefixUnwritten
  <2>3. \A b \in 0..(a.batches - 1) :
          SequenceLength(c, a, b) = l[b] /\ SequenceLength(c, a, b) \in Int
    BY PrefixUnwritten
  <2>4. \A b \in 0..(a.batches - 1) : b \in 0..a.batches /\ b + 1 \in 0..a.batches
    BY <2>1
  <2>5. DOMAIN l = 0..(a.batches - 1)
    BY DEF Atomic!Lengths
  <2> HIDE DEF a, p, l
  <2> QED
    BY <2>1, <2>2, <2>3, <2>4, <2>5
<1> HIDE DEF a, p, l
<1>2. Atomic!PrefixGood(c, a)
        <=> /\ p[0] = 0
            /\ \A b \in 0..(a.batches - 1) :
                 /\ 0 <= p[b]
                 /\ l[b] \in 0..a.bound
                 /\ p[b] + l[b] <= p[b + 1]
                 /\ p[b + 1] <= a.size
  BY <1>1 DEF Atomic!PrefixGood, p, l
<1>3. RaggedValid(c, a)
        <=> /\ p[0] = 0
            /\ \A b \in 0..(a.batches - 1) :
                 /\ 0 <= p[b]
                 /\ p[b] <= p[b + 1]
                 /\ p[b + 1] <= a.size
                 /\ l[b] \in 0..a.bound
                 /\ l[b] <= Unsigned(p[b + 1] - p[b])
  <2>1. Offset(c, a, 0) = p[0]
    BY <1>1
  <2>2. \A b \in 0..(a.batches - 1) :
          /\ Offset(c, a, b) = p[b]
          /\ Offset(c, a, b + 1) = p[b + 1]
          /\ SequenceLength(c, a, b) = l[b]
    BY <1>1
  <2> QED
    BY <2>1, <2>2, Zenon DEF RaggedValid
<1>4. ASSUME NEW b \in 0..(a.batches - 1)
      PROVE  (/\ 0 <= p[b]
              /\ l[b] \in 0..a.bound
              /\ p[b] + l[b] <= p[b + 1]
              /\ p[b + 1] <= a.size)
               <=> (/\ 0 <= p[b]
                    /\ p[b] <= p[b + 1]
                    /\ p[b + 1] <= a.size
                    /\ l[b] \in 0..a.bound
                    /\ l[b] <= Unsigned(p[b + 1] - p[b]))
  <2>1. p[b] \in Int /\ p[b + 1] \in Int /\ l[b] \in Int
    BY <1>1, <1>4
  <2>2. 0 <= p[b] /\ p[b] <= p[b + 1] /\ p[b + 1] <= a.size
          => Unsigned(p[b + 1] - p[b]) = p[b + 1] - p[b]
    <3>1. a.size \in Int /\ a.size <= UIntPtrMax /\ UIntPtrMax \in Int
      BY <1>1, AddressAssumption
    <3> SUFFICES ASSUME 0 <= p[b], p[b] <= p[b + 1], p[b + 1] <= a.size
                 PROVE  Unsigned(p[b + 1] - p[b]) = p[b + 1] - p[b]
      OBVIOUS
    <3>2. p[b + 1] <= UIntPtrMax
      BY <2>1, <3>1
    <3> QED
      BY <2>1, <3>2, Wrapless
  <2>3. l[b] \in 0..a.bound => 0 <= l[b]
    OBVIOUS
  <2> QED
    BY <2>1, <2>2, <2>3, <1>1, AddressAssumption
<1>5. RaggedValid(c, a) <=> Atomic!PrefixGood(c, a)
  BY <1>2, <1>3, <1>4
<1>6. ASSUME Atomic!PrefixGood(c, a)
      PROVE  /\ Offset(c, a, a.batches) = Extent(scenario, c, a)
             /\ p[a.batches] = Extent(scenario, c, a)
  <2>1. a.batches - 1 \in 0..(a.batches - 1) /\ (a.batches - 1) + 1 = a.batches
    BY <1>1
  <2>2. /\ 0 <= p[a.batches - 1]
        /\ l[a.batches - 1] \in 0..a.bound
        /\ p[a.batches - 1] + l[a.batches - 1] <= p[a.batches]
        /\ p[a.batches] <= a.size
    BY <2>1, <1>2, <1>6
  <2>3. p[a.batches] \in 0..a.size /\ Offset(c, a, a.batches) = p[a.batches]
    <3>1. /\ p[a.batches - 1] \in Int
          /\ p[a.batches] \in Int
          /\ l[a.batches - 1] \in Int
          /\ Offset(c, a, a.batches) = p[a.batches]
      BY <1>1, <2>1
    <3> QED
      BY <3>1, <2>2, <1>1, AddressAssumption
  <2>4. p[a.batches] = IntegerIn(scenario.memory[scenario.pack[c][a.offset] + a.batches])
    <3>1. a.batches \in 0..a.batches
      BY <1>1
    <3>2. p[a.batches] = Atomic!Number(scenario.memory,
                                       scenario.pack[c][a.offset] + a.batches)
      BY <3>1 DEF p, Atomic!Prefix, Atomic!At
    <3> QED
      BY <3>2, Zenon DEF Atomic!Number, IntegerIn
  <2>5. a.ragged
    BY DEF a
  <2> QED
    BY <2>3, <2>4, <2>5 DEF Extent
<1> QED
  BY <1>5, <1>6 DEF a, p

LEMMA InvKeepsPrefix == ExecInv => PrefixStillValid
<1> SUFFICES ASSUME ExecInv, NEW c \in Calls, pc[c] \in {"workspace", "lock", "kernel"},
                    NEW i \in DOMAIN Arguments(c), Arguments(c)[i].ragged
             PROVE  /\ RaggedValid(c, Arguments(c)[i])
                    /\ Offset(c, Arguments(c)[i], Arguments(c)[i].batches) = sizes[c][i]
  BY DEF PrefixStillValid
<1>1. /\ VariantStatus(c) = "ok"
      /\ PointersValid(c)
      /\ AllResolved(c)
      /\ Len(sizes[c]) = Len(Arguments(c))
      /\ sizes[c] \in Seq(Nat)
      /\ scenario \in Scenarios
  BY DEF ExecInv, CallInv, Reached, Placed, Unaliased
<1>2. Target(c) \in DOMAIN scenario.executables
  BY <1>1 DEF VariantStatus
<1>3. c \in Complete(scenario)
  BY <1>1, <1>2, PointersComplete
<1>4. i \in DOMAIN sizes[c]
  BY <1>1, <1>2, ArgumentFacts
<1>5. /\ Atomic!PrefixGood(c, Arguments(c)[i])
      /\ sizes[c][i] = Extent(scenario, c, Arguments(c)[i])
  BY <1>1, <1>4 DEF AllResolved, Resolved
<1> QED
  BY <1>3, <1>5, PrefixDecided
-----------------------------------------------------------------------------
(* What a step may change of the invariant.                                *)
LEMMA SameStorage ==
  ASSUME scenario' = scenario, NEW c \in Calls, sizes'[c] = sizes[c]
  PROVE  /\ OutputBytes(c)' = OutputBytes(c)
         /\ ReadBytes(c)' = ReadBytes(c)
         /\ ScratchBytes(c)' = ScratchBytes(c)
         /\ Inputs(c)' = Inputs(c)
         /\ Partial(c)' = Partial(c)
         /\ \A x : Final(c, x)' = Final(c, x)
<1>1. /\ Target(c)' = Target(c)
      /\ Executable(c)' = Executable(c)
      /\ Arguments(c)' = Arguments(c)
      /\ Workspace(c)' = Workspace(c)
      /\ \A i : Pointer(c, i)' = Pointer(c, i)
  BY DEF Target, Executable, Arguments, Workspace, Pointer
<1>2. \A i : ArgumentInterval(c, i)' = ArgumentInterval(c, i)
  BY <1>1 DEF ArgumentInterval
<1>3. OutputBytes(c)' = OutputBytes(c)
  BY <1>1, <1>2 DEF OutputBytes
<1>4. ReadBytes(c)' = ReadBytes(c)
  BY <1>1, <1>2 DEF ReadBytes
<1>5. ScratchBytes(c)' = ScratchBytes(c)
  BY <1>1 DEF ScratchBytes, WorkspaceInterval
<1>6. Inputs(c)' = Inputs(c)
  BY <1>4 DEF Inputs, Cells
<1>7. Partial(c)' = Partial(c)
  BY <1>1, <1>6 DEF Partial
<1>8. \A x : Final(c, x)' = Final(c, x)
  BY <1>1, <1>5, <1>6, <1>7 DEF Final
<1> QED
  BY <1>3, <1>4, <1>5, <1>6, <1>7, <1>8

LEMMA SameChecks ==
  ASSUME scenario' = scenario, NEW c \in Calls
  PROVE  /\ VariantStatus(c)' = VariantStatus(c)
         /\ PointersValid(c)' = PointersValid(c)
         /\ Arguments(c)' = Arguments(c)
         /\ \A i : Pointer(c, i)' = Pointer(c, i)
         /\ \A a : Atomic!PrefixGood(c, a)' = Atomic!PrefixGood(c, a)
         /\ \A i, n : (n = Extent(scenario, c, Arguments(c)[i]))'
                         <=> n = Extent(scenario, c, Arguments(c)[i])
         /\ sizes'[c] = sizes[c] => /\ AllResolved(c)' = AllResolved(c)
                                    /\ ArgumentsAlias(c)' = ArgumentsAlias(c)
                                    /\ Unaliased(c)' = Unaliased(c)
                                    /\ WorkspaceStatus(c)' = WorkspaceStatus(c)
<1>1. /\ Target(c)' = Target(c)
      /\ Executable(c)' = Executable(c)
      /\ Arguments(c)' = Arguments(c)
      /\ Workspace(c)' = Workspace(c)
      /\ Variant(c)' = Variant(c)
      /\ \A i : Pointer(c, i)' = Pointer(c, i)
      /\ \A v : CpuSupports(v)' = CpuSupports(v)
  BY DEF Target, Executable, Arguments, Workspace, Pointer, Variant, SelectVariant, CpuSupports
<1>2. VariantStatus(c)' = VariantStatus(c)
  BY <1>1 DEF VariantStatus
<1>3. PointersValid(c)' = PointersValid(c)
  BY <1>1 DEF PointersValid
<1>4. \A a : Atomic!PrefixGood(c, a)' = Atomic!PrefixGood(c, a)
  BY DEF Atomic!PrefixGood, Atomic!Prefix, Atomic!Lengths, Atomic!At
<1>5. \A i, n : (n = Extent(scenario, c, Arguments(c)[i]))'
                   <=> n = Extent(scenario, c, Arguments(c)[i])
  BY <1>1 DEF Extent
<1>6. ASSUME sizes'[c] = sizes[c]
      PROVE  /\ AllResolved(c)' = AllResolved(c)
             /\ ArgumentsAlias(c)' = ArgumentsAlias(c)
             /\ Unaliased(c)' = Unaliased(c)
             /\ WorkspaceStatus(c)' = WorkspaceStatus(c)
  <2>1. \A i : ArgumentInterval(c, i)' = ArgumentInterval(c, i)
    BY <1>1, <1>6 DEF ArgumentInterval
  <2>2. ArgumentsAlias(c)' = ArgumentsAlias(c)
    BY <1>1, <2>1 DEF ArgumentsAlias
  <2>3. WorkspaceStatus(c)' = WorkspaceStatus(c)
    BY <1>1, <2>1 DEF WorkspaceStatus, WorkspaceInterval
  <2>4. AllResolved(c)' = AllResolved(c)
    BY <1>1, <1>4, <1>5, <1>6 DEF AllResolved, Resolved
  <2> QED
    BY <1>1, <1>6, <2>2, <2>3, <2>4 DEF Unaliased
<1> QED
  BY <1>1, <1>2, <1>3, <1>4, <1>5, <1>6

LEMMA CallUntouched ==
  ASSUME NEW c \in Calls, CallInv(c), scenario' = scenario, sizes'[c] = sizes[c],
         pc'[c] = pc[c], status'[c] = status[c], written'[c] = written[c]
  PROVE  CallInv(c)'
BY SameStorage, SameChecks DEF CallInv, Reached

(* A step that writes no memory keeps what is known of it, if the written  *)
(* sets stay and no call comes into a kernel.                              *)
LEMMA MemoryUntouched ==
  ASSUME ExecInv, UNCHANGED <<scenario, memory, written>>,
         \A c \in Calls : pc'[c] = "kernel" => pc[c] = "kernel" \/ written[c] = {},
         \A c \in Calls : pc[c] = "kernel" => sizes'[c] = sizes[c]
  PROVE  OnlyWritten' /\ \A c \in Calls : Computed(c)'
<1>1. OnlyWritten'
  BY DEF ExecInv, OnlyWritten
<1>2. ASSUME NEW c \in Calls PROVE Computed(c)'
  <2>1. CASE pc'[c] = "kernel" /\ pc[c] = "kernel"
    BY <2>1, SameStorage DEF ExecInv, Computed
  <2>2. CASE pc'[c] = "kernel" /\ written[c] = {}
    BY <2>2 DEF Computed
  <2>3. CASE pc'[c] # "kernel"
    BY <2>3 DEF Computed
  <2> QED
    BY <2>1, <2>2, <2>3
<1> QED
  BY <1>1, <1>2
-----------------------------------------------------------------------------
(* Every step keeps the invariant.                                         *)
LEMMA OneCallMoves ==
  ASSUME ExecInv, NEW c \in Calls, UNCHANGED <<scenario, memory, written>>,
         \A d \in Calls \ {c} : /\ pc'[d] = pc[d]
                                /\ sizes'[d] = sizes[d]
                                /\ status'[d] = status[d],
         DOMAIN sizes' = Calls, DOMAIN status' = Calls,
         pc'[c] = "kernel" => written[c] = {},
         pc[c] = "kernel" => sizes'[c] = sizes[c],
         CallInv(c)'
  PROVE  ExecInv'
<1>1. \A d \in Calls : CallInv(d)'
  <2> SUFFICES ASSUME NEW d \in Calls, d # c PROVE CallInv(d)'
    OBVIOUS
  <2> QED
    BY CallUntouched DEF ExecInv
<1>2. OnlyWritten' /\ \A d \in Calls : Computed(d)'
  <2>1. \A d \in Calls : pc'[d] = "kernel" => pc[d] = "kernel" \/ written[d] = {}
    OBVIOUS
  <2>2. \A d \in Calls : pc[d] = "kernel" => sizes'[d] = sizes[d]
    OBVIOUS
  <2> QED
    BY <2>1, <2>2, MemoryUntouched
<1> QED
  BY <1>1, <1>2 DEF ExecInv

LEMMA AnswerKeepsCall ==
  ASSUME ExecInv, LockInv, NEW c \in Calls, NEW code, code # "ok",
         pc[c] \in Labels \ {"kernel", "returned"}, Answer(c, code)
  PROVE  ExecInv'
<1>1. CallInv(c)
  BY DEF ExecInv
<1>2. written[c] = {}
  BY <1>1 DEF CallInv, Reached
<1>3. pc'[c] = "returned" /\ status'[c] = code /\ sizes' = sizes /\ written' = written
  BY DEF Answer, ExecInv, LockInv
<1>4. CallInv(c)'
  BY <1>1, <1>2, <1>3 DEF CallInv, Reached, Placed, Labels
<1> QED
  BY <1>3, <1>4, OneCallMoves DEF Answer, ExecInv, LockInv

LEMMA CheckVariantKeeps ==
  ASSUME ExecInv, LockInv, NEW c \in Calls, CheckVariant(c)
  PROVE  ExecInv'
<1>1. CallInv(c) /\ pc[c] = "enter" /\ status[c] # "ok" /\ written[c] = {} /\ sizes[c] = <<>>
  BY DEF ExecInv, CallInv, CheckVariant, Reached
<1>2. CASE VariantStatus(c) = "ok"
  <2>1. /\ pc'[c] = "pointers"
        /\ sizes' = sizes
        /\ UNCHANGED <<scenario, memory, written, status>>
    BY <1>2 DEF CheckVariant, Goto, LockInv
  <2>2. CallInv(c)'
    BY <1>1, <1>2, <2>1, SameChecks DEF CallInv, Reached, Placed, Labels
  <2> QED
    BY <1>1, <1>2, <2>1, <2>2, OneCallMoves DEF CheckVariant, Goto, ExecInv, LockInv
<1>3. CASE VariantStatus(c) # "ok"
  BY <1>1, <1>3, AnswerKeepsCall DEF CheckVariant, Labels
<1> QED
  BY <1>2, <1>3

LEMMA CheckPointersKeeps ==
  ASSUME ExecInv, LockInv, NEW c \in Calls, CheckPointers(c)
  PROVE  ExecInv'
<1>1. /\ CallInv(c)
      /\ pc[c] = "pointers"
      /\ status[c] # "ok"
      /\ written[c] = {}
      /\ sizes[c] = <<>>
      /\ VariantStatus(c) = "ok"
  BY DEF ExecInv, CallInv, CheckPointers, Reached
<1>2. CASE PointersValid(c)
  <2>1. /\ pc'[c] = "ranges"
        /\ sizes' = sizes
        /\ UNCHANGED <<scenario, memory, written, status>>
    BY <1>2 DEF CheckPointers, Goto, LockInv
  <2>2. AllResolved(c)
    <3>1. Arguments(c) \in Seq(ToSet(Arguments(c)))
      BY <1>1, ArgumentFacts DEF VariantStatus, ExecInv
    <3> QED
      BY <1>1, <3>1 DEF AllResolved
  <2>3. CallInv(c)'
    BY <1>1, <1>2, <2>1, <2>2, SameChecks DEF CallInv, Reached, Placed, Labels
  <2> QED
    BY <1>1, <1>2, <2>1, <2>3, OneCallMoves DEF CheckPointers, Goto, ExecInv, LockInv
<1>3. CASE ~ PointersValid(c)
  BY <1>1, <1>3, AnswerKeepsCall DEF CheckPointers, Labels
<1> QED
  BY <1>2, <1>3

LEMMA ResolveRangeKeeps ==
  ASSUME ExecInv, LockInv, NEW c \in Calls, ResolveRange(c)
  PROVE  ExecInv'
<1> DEFINE i == Len(sizes[c]) + 1
<1> DEFINE a == Arguments(c)[i]
<1>1. /\ CallInv(c)
      /\ pc[c] = "ranges"
      /\ status[c] # "ok"
      /\ written[c] = {}
      /\ sizes[c] \in Seq(Nat)
      /\ VariantStatus(c) = "ok"
      /\ PointersValid(c)
      /\ AllResolved(c)
      /\ Len(sizes[c]) < Len(Arguments(c))
  BY DEF ExecInv, CallInv, ResolveRange, Reached, Placed
<1>2. CASE \E code : code # "ok" /\ Answer(c, code)
  BY <1>1, <1>2, AnswerKeepsCall DEF Labels
<1>3. CASE /\ a.ragged => RaggedValid(c, a)
           /\ ~ (Pointer(c, i) + ResolvedSize(c, a) > UIntPtrMax)
           /\ sizes' = [sizes EXCEPT ![c] = Append(sizes[c], ResolvedSize(c, a))]
           /\ Goto(c, "ranges")
  <2>1. /\ scenario \in Scenarios
        /\ Target(c) \in DOMAIN scenario.executables
    BY <1>1 DEF VariantStatus, ExecInv
  <2>2. c \in Complete(scenario) /\ i \in DOMAIN Arguments(c)
    BY <1>1, <2>1, PointersComplete, ArgumentFacts
  <2>3. a.size \in 1..UIntPtrMax /\ a.ragged \in BOOLEAN
    BY <2>1, <2>2, ArgumentFacts DEF ArgumentsValid, Arguments
  <2>4. /\ a.ragged => Atomic!PrefixGood(c, a)
        /\ ResolvedSize(c, a) = Extent(scenario, c, a)
    <3>1. CASE a.ragged
      BY <3>1, <1>3, <2>2, PrefixDecided DEF ResolvedSize
    <3>2. CASE ~ a.ragged
      BY <3>2 DEF ResolvedSize, Extent
    <3> QED
      BY <3>1, <3>2
  <2>5. ResolvedSize(c, a) \in Nat
    BY <2>3, <2>4, ExtentIsNat, AddressAssumption
  <2>a. Pointer(c, i) + ResolvedSize(c, a) <= UIntPtrMax
    <3>1. Pointer(c, i) \in 0..UIntPtrMax
      BY <1>1, <2>1, <2>2, PointersComplete
    <3> QED
      BY <3>1, <2>5, <1>3, AddressAssumption
  <2>6. /\ sizes'[c] \in Seq(Nat)
        /\ Len(sizes'[c]) = i
        /\ \A j \in 1..Len(sizes[c]) : sizes'[c][j] = sizes[c][j]
        /\ sizes'[c][i] = ResolvedSize(c, a)
        /\ DOMAIN sizes' = Calls
        /\ \A d \in Calls \ {c} : sizes'[d] = sizes[d]
    BY <1>1, <1>3, <2>5 DEF ExecInv
  <2>7. /\ UNCHANGED <<scenario, memory, written, status>>
        /\ \A d \in Calls : pc'[d] = pc[d]
    BY <1>1, <1>3 DEF Goto, LockInv
  <2>8. AllResolved(c)'
    <3>1. Len(sizes'[c]) <= Len(Arguments(c))
      <4>1. Len(sizes[c]) \in Nat /\ Len(Arguments(c)) \in Nat
        BY <1>1, <2>1, ArgumentFacts
      <4> QED
        BY <4>1, <1>1, <2>6
    <3>2. ASSUME NEW j \in DOMAIN sizes'[c] PROVE Resolved(c, j)'
      <4>1. CASE j \in 1..Len(sizes[c])
        <5>1. j \in DOMAIN sizes[c]
          BY <4>1, <1>1
        <5>2. Resolved(c, j) /\ sizes'[c][j] = sizes[c][j]
          BY <5>1, <4>1, <1>1, <2>6 DEF AllResolved
        <5> QED
          BY <5>2, <2>7, SameChecks DEF Resolved
      <4>2. CASE j = i
        BY <4>2, <2>4, <2>a, <2>6, <2>7, SameChecks DEF Resolved
      <4> QED
        BY <4>1, <4>2, <2>6, <1>1
    <3> QED
      BY <3>1, <3>2, <2>7, SameChecks DEF AllResolved
  <2>9. CallInv(c)'
    BY <1>1, <2>6, <2>7, <2>8, SameChecks DEF CallInv, Reached, Placed, Labels
  <2> QED
    BY <1>1, <2>6, <2>7, <2>9, OneCallMoves DEF ExecInv
<1>4. \/ \E code : code # "ok" /\ Answer(c, code)
      \/ /\ a.ragged => RaggedValid(c, a)
         /\ ~ (Pointer(c, i) + ResolvedSize(c, a) > UIntPtrMax)
         /\ sizes' = [sizes EXCEPT ![c] = Append(sizes[c], ResolvedSize(c, a))]
         /\ Goto(c, "ranges")
  BY DEF ResolveRange
<1> QED
  BY <1>2, <1>3, <1>4

LEMMA CheckAliasesKeeps ==
  ASSUME ExecInv, LockInv, NEW c \in Calls, CheckAliases(c)
  PROVE  ExecInv'
<1>1. /\ CallInv(c)
      /\ pc[c] = "ranges"
      /\ status[c] # "ok"
      /\ written[c] = {}
  BY DEF ExecInv, CallInv, CheckAliases, Reached
<1>2. CASE ~ ArgumentsAlias(c)
  <2>1. /\ pc'[c] = "workspace"
        /\ sizes' = sizes
        /\ UNCHANGED <<scenario, memory, written, status>>
    BY <1>2 DEF CheckAliases, Goto, LockInv
  <2>2. Unaliased(c)
    BY <1>2 DEF Unaliased, CheckAliases
  <2>3. CallInv(c)'
    BY <1>1, <2>1, <2>2, SameChecks DEF CallInv, Reached, Placed, Labels
  <2> QED
    BY <1>1, <1>2, <2>1, <2>3, OneCallMoves DEF CheckAliases, Goto, ExecInv, LockInv
<1>3. CASE ArgumentsAlias(c)
  BY <1>1, <1>3, AnswerKeepsCall DEF CheckAliases, Labels
<1> QED
  BY <1>2, <1>3

LEMMA CheckWorkspaceKeeps ==
  ASSUME ExecInv, LockInv, NEW c \in Calls, CheckWorkspace(c)
  PROVE  ExecInv'
<1>1. /\ CallInv(c)
      /\ pc[c] = "workspace"
      /\ status[c] # "ok"
      /\ written[c] = {}
  BY DEF ExecInv, CallInv, CheckWorkspace, Reached
<1>2. CASE WorkspaceStatus(c) = "ok"
  <2>1. /\ pc'[c] = "lock"
        /\ sizes' = sizes
        /\ UNCHANGED <<scenario, memory, written, status>>
    BY <1>2 DEF CheckWorkspace, Goto, LockInv
  <2>2. CallInv(c)'
    BY <1>1, <1>2, <2>1, SameChecks DEF CallInv, Reached, Placed, Labels
  <2> QED
    BY <1>1, <1>2, <2>1, <2>2, OneCallMoves DEF CheckWorkspace, Goto, ExecInv, LockInv
<1>3. CASE WorkspaceStatus(c) # "ok"
  BY <1>1, <1>3, AnswerKeepsCall DEF CheckWorkspace, Labels
<1> QED
  BY <1>2, <1>3

LEMMA EnterKernelKeeps ==
  ASSUME ExecInv, LockInv, NEW c \in Calls, EnterKernel(c)
  PROVE  ExecInv'
<1>1. /\ CallInv(c)
      /\ pc[c] = "lock"
      /\ status[c] # "ok"
      /\ written[c] = {}
  BY DEF ExecInv, CallInv, EnterKernel, Reached
<1>2. /\ pc'[c] = "kernel"
      /\ UNCHANGED <<scenario, memory, sizes, written, status>>
      /\ \A d \in Calls \ {c} : pc'[d] = pc[d]
  BY DEF EnterKernel, LockInv
<1>3. CallInv(c)'
  BY <1>1, <1>2, SameChecks DEF CallInv, Reached, Placed, Labels
<1> QED
  BY <1>1, <1>2, <1>3, OneCallMoves DEF ExecInv

LEMMA LeavingKeeps ==
  ASSUME ExecInv, LockInv, NEW c \in Calls, KernelReturns(c) \/ EngineFails(c)
  PROVE  ExecInv'
<1>1. /\ CallInv(c)
      /\ pc[c] = "kernel"
      /\ status[c] # "ok"
  BY DEF ExecInv, CallInv, KernelReturns, EngineFails
<1>2. /\ pc'[c] = "returned"
      /\ UNCHANGED <<scenario, memory, sizes, written>>
      /\ status'[c] = "ok" \/ (status'[c] # "ok" /\ written[c] = {})
      /\ DOMAIN status' = Calls
      /\ \A d \in Calls \ {c} : pc'[d] = pc[d] /\ status'[d] = status[d]
  BY DEF KernelReturns, EngineFails, LockInv, ExecInv
<1>3. CallInv(c)'
  BY <1>1, <1>2, SameChecks, SameStorage DEF CallInv, Reached, Placed, Labels
<1> QED
  BY <1>1, <1>2, <1>3, OneCallMoves DEF ExecInv

(* A kernel finds its inputs, and once it has filled its workspace its     *)
(* intermediate values, as it left them.                                   *)
LEMMA InputsUnwritten ==
  ASSUME ExecInv, NEW c \in Calls, Accepted(c)
  PROVE  Cells(ReadBytes(c), memory) = Inputs(c)
<1>1. /\ c \in Complete(scenario)
      /\ ReadBytes(c) = Storage(scenario, c, FALSE)
      /\ ReadBytes(c) \subseteq 0..UIntPtrMax
  BY Footprint, PointersComplete DEF ExecInv, Accepted, Settled
<1>2. \A r \in ReadBytes(c) : memory[r] = scenario.memory[r]
  BY <1>1, Protected
<1> QED
  BY <1>2 DEF Inputs, Cells

LEMMA KernelWriteKeeps ==
  ASSUME ExecInv, LockInv, NEW c \in Calls, KernelWrite(c)
  PROVE  ExecInv'
<1>1. /\ CallInv(c)
      /\ Computed(c)
      /\ pc[c] = "kernel"
  BY DEF ExecInv, KernelWrite
<1>2. Accepted(c)
  BY <1>1, WriterAccepted DEF Reached
<1>3. PICK x \in (ScratchBytes(c) \cup OutputBytes(c)) \ written[c] :
        /\ x \in OutputBytes(c) => ScratchBytes(c) \subseteq written[c]
        /\ memory' = [memory EXCEPT ![x] =
                        IF x \in OutputBytes(c) THEN OutputValue(c, x, memory)
                        ELSE ScratchValue(c, memory)]
        /\ written' = [written EXCEPT ![c] = @ \cup {x}]
  BY DEF KernelWrite
<1>4. /\ UNCHANGED <<scenario, pc, sizes, owner, status>>
      /\ DOMAIN written' = Calls
      /\ written'[c] = written[c] \cup {x}
      /\ \A d \in Calls \ {c} : written'[d] = written[d]
      /\ DOMAIN memory' = 0..UIntPtrMax
      /\ \A y \in 0..UIntPtrMax : y # x => memory'[y] = memory[y]
  BY <1>3 DEF KernelWrite, ExecInv
<1>5. x \in 0..UIntPtrMax
  BY <1>2, <1>3, Footprint, OwnStorageApart DEF Accepted, ExecInv
<1>6. memory'[x] = IF x \in OutputBytes(c) THEN Final(c, x) ELSE Partial(c)
  <2>1. memory'[x] = IF x \in OutputBytes(c) THEN OutputValue(c, x, memory)
                     ELSE ScratchValue(c, memory)
    BY <1>3, <1>5 DEF ExecInv
  <2>2. ScratchValue(c, memory) = Partial(c)
    BY <1>2, InputsUnwritten DEF ScratchValue, Partial
  <2>3. ASSUME x \in OutputBytes(c)
        PROVE  OutputValue(c, x, memory) = Final(c, x)
    <3>1. \A y \in ScratchBytes(c) : memory[y] = Partial(c)
      <4>1. \A y \in ScratchBytes(c) : y \in written[c] /\ y \notin OutputBytes(c)
        BY <1>2, <1>3, <2>3, OwnStorageApart DEF ExecInv
      <4> QED
        BY <4>1, <1>1 DEF Computed
    <3>2. Cells(ScratchBytes(c), memory) = Joined([y \in ScratchBytes(c) |-> Partial(c)])
      BY <3>1 DEF Cells
    <3> QED
      BY <3>2, <1>2, InputsUnwritten DEF OutputValue, Final
  <2> QED
    BY <2>1, <2>2, <2>3
<1>7. \A d \in Calls : CallInv(d)'
  <2> SUFFICES ASSUME NEW d \in Calls PROVE CallInv(d)'
    OBVIOUS
  <2>1. CASE d # c
    BY <2>1, <1>4, CallUntouched DEF ExecInv
  <2>2. CASE d = c
    <3>1. CallInv(c)'
      BY <1>1, <1>3, <1>4, SameChecks, SameStorage DEF CallInv, Reached
    <3> QED
      BY <3>1, <2>2
  <2> QED
    BY <2>1, <2>2
<1>8. \A d \in Calls : Computed(d)'
  <2> SUFFICES ASSUME NEW d \in Calls, pc'[d] = "kernel", NEW y \in written'[d]
               PROVE  memory'[y] = IF y \in OutputBytes(d)' THEN Final(d, y)' ELSE Partial(d)'
    BY DEF Computed
  <2>1. /\ OutputBytes(d)' = OutputBytes(d)
        /\ Final(d, y)' = Final(d, y)
        /\ Partial(d)' = Partial(d)
    BY <1>4, SameStorage
  <2>2. CASE d = c /\ y = x
    BY <2>1, <2>2, <1>6
  <2>3. CASE ~ (d = c /\ y = x)
    <3>1. pc[d] = "kernel" /\ y \in written[d]
      BY <1>4, <2>3
    <3>2. Accepted(d) /\ y \in OutputBytes(d) \cup ScratchBytes(d)
      BY <3>1, WriterAccepted DEF ExecInv, CallInv, Reached
    <3>3. y # x
      <4>1. CASE d = c
        BY <4>1, <2>3
      <4>2. CASE d # c
        <5>1. Target(c) # Target(d)
          BY <4>2, <3>1, <1>1, LockExcludes DEF KernelExclusion
        <5>2. /\ OutputBytes(c) \cap OutputBytes(d) = {}
              /\ OutputBytes(c) \cap ScratchBytes(d) = {}
              /\ OutputBytes(d) \cap ScratchBytes(c) = {}
              /\ ScratchBytes(c) \cap ScratchBytes(d) = {}
          BY <5>1, <4>2, <1>2, <3>2, CallsStorageApart DEF ExecInv
        <5> QED
          BY <5>2, <3>2, <1>3
      <4> QED
        BY <4>1, <4>2
    <3>4. y \in 0..UIntPtrMax
      BY <3>2, Footprint, OwnStorageApart DEF Accepted, ExecInv
    <3> QED
      BY <3>1, <3>3, <3>4, <2>1, <1>4 DEF ExecInv, Computed
  <2> QED
    BY <2>2, <2>3
<1>9. OnlyWritten'
  <2> SUFFICES ASSUME NEW y \in 0..UIntPtrMax
               PROVE  memory'[y] = scenario.memory[y] \/ \E d \in Calls : y \in written'[d]
    BY <1>4 DEF OnlyWritten
  <2>1. CASE y = x
    BY <2>1, <1>4
  <2>2. CASE y # x
    BY <2>2, <1>4 DEF ExecInv, OnlyWritten
  <2> QED
    BY <2>1, <2>2
<1> QED
  BY <1>4, <1>7, <1>8, <1>9 DEF ExecInv

LEMMA ExecInit == Init => ExecInv
<1> SUFFICES ASSUME Init PROVE ExecInv
  OBVIOUS
<1>1. ScenarioValid(scenario) /\ memory = scenario.memory
  BY ScenariosAssumption DEF Init
<1>2. DOMAIN memory = 0..UIntPtrMax
  BY <1>1 DEF ScenarioValid
<1>3. \A c \in Calls : CallInv(c) /\ Computed(c)
  BY DEF Init, CallInv, Computed, Reached, Placed, Labels
<1> QED
  BY <1>1, <1>2, <1>3 DEF ExecInv, Init, OnlyWritten

LEMMA ExecNext == ExecInv /\ LockInv /\ [Next]_vars => ExecInv'
<1> SUFFICES ASSUME ExecInv, LockInv, [Next]_vars PROVE ExecInv'
  OBVIOUS
<1>1. CASE Next
  BY <1>1, CheckVariantKeeps, CheckPointersKeeps, ResolveRangeKeeps, CheckAliasesKeeps,
     CheckWorkspaceKeeps, EnterKernelKeeps, KernelWriteKeeps, LeavingKeeps
     DEF Next, Step
<1>2. CASE UNCHANGED vars
  <2>1. \A c \in Calls : CallInv(c)'
    BY <1>2, CallUntouched DEF vars, ExecInv
  <2>2. OnlyWritten' /\ \A c \in Calls : Computed(c)'
    BY <1>2, MemoryUntouched DEF vars
  <2> QED
    BY <1>2, <2>1, <2>2 DEF vars, ExecInv
<1> QED
  BY <1>1, <1>2

(* What the prefix of a ragged argument said when a call resolved its      *)
(* ranges is still there when its kernel runs, although nothing is locked  *)
(* in between.                                                             *)
THEOREM PrefixesStayValid == Spec => []PrefixStillValid
<1>1. Init => LockInv /\ ExecInv
  BY LockInit, ExecInit
<1>2. LockInv /\ ExecInv /\ [Next]_vars => (LockInv /\ ExecInv)'
  BY LockNext, ExecNext
<1>3. ExecInv => PrefixStillValid
  BY InvKeepsPrefix
<1> QED
  BY <1>1, <1>2, <1>3, PTL DEF Spec
-----------------------------------------------------------------------------
(* The checks of a call decide what the promise calls acceptable.          *)
LEMMA VariantDecided ==
  ASSUME scenario \in Scenarios, NEW c \in Calls, Target(c) \in DOMAIN scenario.executables
  PROVE  VariantStatus(c) = "ok"
           <=> IF scenario.variant[c] = "auto" THEN Atomic!Runnable(c) # {}
               ELSE scenario.variant[c] \in Atomic!Runnable(c)
<1>1. /\ Executable(c).compiled \subseteq Variants
      /\ scenario.variant[c] \in Variants \cup {"auto"}
  BY ArgumentFacts, ScenariosAssumption DEF ScenarioValid
<1>2. \A v \in Variants : CpuSupports(v) <=> Atomic!Needed[v] \subseteq scenario.features
  <2>1. /\ Atomic!Needed["scalar"] = {}
        /\ Atomic!Needed["avx2"] = {"avx", "fma", "avx2", "os_ymm_state"}
        /\ Atomic!Needed["avx512"]
             = {"avx", "fma", "avx512f", "os_ymm_state", "os_zmm_state"}
    BY DEF Atomic!Needed
  <2>2. /\ CpuSupports("scalar")
        /\ CpuSupports("avx2") <=> Atomic!Needed["avx2"] \subseteq scenario.features
        /\ CpuSupports("avx512") <=> Atomic!Needed["avx512"] \subseteq scenario.features
    <3> HIDE DEF Atomic!Needed
    <3> QED
      BY <2>1 DEF CpuSupports
  <2> QED
    BY <2>1, <2>2 DEF Variants
<1>3. \A v : v \in Atomic!Runnable(c) <=> v \in Executable(c).compiled /\ CpuSupports(v)
  BY <1>1, <1>2 DEF Atomic!Runnable, Atomic!Called, Executable, Target
<1>4. VariantStatus(c) = "ok" <=> Variant(c) \in Atomic!Runnable(c)
  BY <1>3 DEF VariantStatus
<1>5. CASE scenario.variant[c] # "auto"
  BY <1>4, <1>5 DEF Variant
<1>6. CASE scenario.variant[c] = "auto"
  <2>1. Variant(c) = SelectVariant(Executable(c).compiled)
    BY <1>6 DEF Variant
  <2>2. ASSUME NEW v \in Atomic!Runnable(c) PROVE Variant(c) \in Atomic!Runnable(c)
    <3>1. v \in Variants /\ v \in Executable(c).compiled /\ CpuSupports(v)
      BY <1>1, <1>3
    <3>2. CASE "avx512" \in Atomic!Runnable(c)
      BY <2>1, <3>2, <1>3 DEF SelectVariant
    <3>3. CASE "avx512" \notin Atomic!Runnable(c) /\ "avx2" \in Atomic!Runnable(c)
      BY <2>1, <3>3, <1>3 DEF SelectVariant
    <3>4. CASE "avx512" \notin Atomic!Runnable(c) /\ "avx2" \notin Atomic!Runnable(c)
      <4>1. v = "scalar"
        BY <3>1, <3>4 DEF Variants
      <4> QED
        BY <2>1, <2>2, <3>4, <4>1, <1>3 DEF SelectVariant
    <3> QED
      BY <3>2, <3>3, <3>4
  <2> QED
    BY <1>4, <1>6, <2>2
<1> QED
  BY <1>5, <1>6

LEMMA SpanOfArgument ==
  ASSUME ExecInv, NEW c \in Complete(scenario), NEW i \in DOMAIN Arguments(c),
         Arguments(c)[i].ragged => Atomic!PrefixGood(c, Arguments(c)[i])
  PROVE  Atomic!Span(c, Arguments(c)[i])
           = Pointer(c, i)..(Pointer(c, i) + Extent(scenario, c, Arguments(c)[i]) - 1)
<1>1. Atomic!At(c, Arguments(c)[i].uid) = Pointer(c, i)
  BY DEF Atomic!At, Pointer
<1>2. CASE Arguments(c)[i].ragged
  BY <1>1, <1>2, PrefixDecided DEF Atomic!Span
<1>3. CASE ~ Arguments(c)[i].ragged
  BY <1>1, <1>3 DEF Atomic!Span, Extent
<1> QED
  BY <1>2, <1>3

LEMMA SameArguments ==
  ASSUME NEW c \in Calls
  PROVE  /\ Atomic!Called(c) = Executable(c)
         /\ \A a : a \in Atomic!ArgumentSet(c)
                     <=> \E i \in DOMAIN Arguments(c) : a = Arguments(c)[i]
BY DEF Atomic!Called, Atomic!ArgumentSet, Atomic!ToSet, Executable, Target, Arguments

LEMMA SameFootprint ==
  ASSUME ExecInv, NEW c \in Calls, Settled(c)
  PROVE  /\ DOMAIN sizes[c] = DOMAIN Arguments(c)
         /\ \A i \in DOMAIN Arguments(c) :
              /\ Atomic!Span(c, Arguments(c)[i]) = Bytes(ArgumentInterval(c, i))
              /\ Arguments(c)[i].ragged => Atomic!PrefixGood(c, Arguments(c)[i])
              /\ ~ Arguments(c)[i].ragged => sizes[c][i] \in Nat \ {0}
              /\ ArgumentInterval(c, i).begin \in 0..UIntPtrMax
              /\ ArgumentInterval(c, i).end \in 0..UIntPtrMax
              /\ ArgumentInterval(c, i).begin <= ArgumentInterval(c, i).end
              /\ ArgumentInterval(c, i).begin = Pointer(c, i)
              /\ ArgumentInterval(c, i).end = Pointer(c, i) + sizes[c][i]
         /\ Atomic!Written(c) = OutputBytes(c)
         /\ Atomic!Read(c) = ReadBytes(c)
         /\ Atomic!Scratch(c) = ScratchBytes(c)
<1>1. /\ c \in Complete(scenario)
      /\ DOMAIN sizes[c] = DOMAIN Arguments(c)
      /\ \A i \in DOMAIN Arguments(c) : Resolved(c, i)
      /\ \A i \in DOMAIN Arguments(c) : Pointer(c, i) \in 0..UIntPtrMax /\ sizes[c][i] \in Nat
  BY Footprint, PointersComplete DEF ExecInv, Settled, AllResolved
<1>2. ASSUME NEW i \in DOMAIN Arguments(c)
      PROVE  /\ Atomic!Span(c, Arguments(c)[i]) = Bytes(ArgumentInterval(c, i))
             /\ Arguments(c)[i].ragged => Atomic!PrefixGood(c, Arguments(c)[i])
             /\ ~ Arguments(c)[i].ragged => sizes[c][i] \in Nat \ {0}
             /\ ArgumentInterval(c, i).begin \in 0..UIntPtrMax
             /\ ArgumentInterval(c, i).end \in 0..UIntPtrMax
             /\ ArgumentInterval(c, i).begin <= ArgumentInterval(c, i).end
             /\ ArgumentInterval(c, i).begin = Pointer(c, i)
             /\ ArgumentInterval(c, i).end = Pointer(c, i) + sizes[c][i]
  <2>1. /\ Arguments(c)[i].ragged => Atomic!PrefixGood(c, Arguments(c)[i])
        /\ sizes[c][i] = Extent(scenario, c, Arguments(c)[i])
        /\ Pointer(c, i) + sizes[c][i] <= UIntPtrMax
        /\ Pointer(c, i) \in 0..UIntPtrMax
        /\ sizes[c][i] \in Nat
    BY <1>1 DEF Resolved
  <2>2. Atomic!Span(c, Arguments(c)[i]) = Pointer(c, i)..(Pointer(c, i) + sizes[c][i] - 1)
    BY <1>1, <2>1, SpanOfArgument
  <2>3. ~ Arguments(c)[i].ragged => sizes[c][i] \in Nat \ {0}
    BY <2>1, ArgumentFacts DEF Extent, Settled, ExecInv
  <2> QED
    BY <2>1, <2>2, <2>3, AddressAssumption DEF Bytes, ArgumentInterval
<1>3. Atomic!Written(c) = OutputBytes(c)
  <2>1. \A x : x \in Atomic!Written(c)
          <=> \E i \in DOMAIN Arguments(c) :
                Writes(Arguments(c)[i].access) /\ x \in Bytes(ArgumentInterval(c, i))
    BY <1>2, SameArguments DEF Atomic!Written, Writes
  <2>2. \A x : x \in OutputBytes(c)
          <=> \E i \in DOMAIN Arguments(c) :
                Writes(Arguments(c)[i].access) /\ x \in Bytes(ArgumentInterval(c, i))
    BY <1>1 DEF OutputBytes
  <2> QED
    BY <2>1, <2>2
<1>4. Atomic!Read(c) = ReadBytes(c)
  <2>1. \A x : x \in Atomic!Read(c)
          <=> \E i \in DOMAIN Arguments(c) :
                ~ Writes(Arguments(c)[i].access) /\ x \in Bytes(ArgumentInterval(c, i))
    BY <1>2, SameArguments DEF Atomic!Read, Writes
  <2>2. \A x : x \in ReadBytes(c)
          <=> \E i \in DOMAIN Arguments(c) :
                ~ Writes(Arguments(c)[i].access) /\ x \in Bytes(ArgumentInterval(c, i))
    BY <1>1 DEF ReadBytes
  <2> QED
    BY <2>1, <2>2
<1>5. Atomic!Scratch(c) = ScratchBytes(c)
  <2>1. ScratchBytes(c) = Scratch(scenario, c)
    BY Footprint DEF ExecInv
  <2>2. Atomic!Scratch(c) = Scratch(scenario, c)
    BY Zenon DEF Scratch, Atomic!Scratch, Atomic!Called
  <2> QED
    BY <2>1, <2>2
<1> QED
  BY <1>1, <1>2, <1>3, <1>4, <1>5

LEMMA AcceptedIsAcceptable ==
  ASSUME ExecInv, NEW c \in Calls, Accepted(c), VariantStatus(c) = "ok"
  PROVE  Atomic!Acceptable(c)
<1>1. /\ scenario \in Scenarios
      /\ Settled(c)
      /\ Target(c) \in DOMAIN scenario.executables
      /\ PointersValid(c)
  BY DEF ExecInv, Accepted, Settled
<1>2. \A a \in Atomic!ArgumentSet(c) : Atomic!Placed(c, a)
  BY <1>1, SameArguments DEF PointersValid, Atomic!Placed, Atomic!At, Pointer
<1>3. \A a \in Atomic!ArgumentSet(c) : a.ragged => Atomic!PrefixGood(c, a)
  BY <1>1, SameArguments, SameFootprint
<1>4. \A x \in Atomic!Written(c) \cup Atomic!Read(c) : x < UIntPtrMax
  <2>1. \A i \in DOMAIN Arguments(c) : \A x \in Bytes(ArgumentInterval(c, i)) : x < UIntPtrMax
    BY <1>1, SameFootprint, AddressAssumption DEF Bytes
  <2>2. \A x \in OutputBytes(c) \cup ReadBytes(c) :
          \E i \in DOMAIN Arguments(c) : x \in Bytes(ArgumentInterval(c, i))
    BY <1>1, SameFootprint DEF OutputBytes, ReadBytes
  <2> QED
    BY <2>1, <2>2, <1>1, SameFootprint
<1>5. Atomic!Called(c).workspace # 0 =>
        /\ scenario.workspace[c] # 0
        /\ scenario.workspace[c] % Atomic!Called(c).alignment = 0
        /\ \A x \in Atomic!Scratch(c) : x < UIntPtrMax
  <2> SUFFICES ASSUME Executable(c).workspace # 0
               PROVE  /\ Workspace(c) # 0
                      /\ Workspace(c) % Executable(c).alignment = 0
                      /\ \A x \in ScratchBytes(c) : x < UIntPtrMax
    BY <1>1, SameFootprint, SameArguments DEF Workspace
  <2>1. /\ Workspace(c) # 0
        /\ Workspace(c) % Executable(c).alignment = 0
        /\ ~ (WorkspaceInterval(c).end > UIntPtrMax)
    BY DEF Accepted, WorkspaceStatus
  <2>2. Workspace(c) \in 0..UIntPtrMax /\ Executable(c).workspace \in Nat
    BY <1>1, ArgumentFacts
  <2>3. \A x \in ScratchBytes(c) : x < UIntPtrMax
    BY <2>1, <2>2, AddressAssumption DEF ScratchBytes, Bytes, WorkspaceInterval
  <2> QED
    BY <2>1, <2>3
<1>6. \A a, b \in Atomic!ArgumentSet(c) :
        a # b /\ a.access # "read" => Atomic!Span(c, a) \cap Atomic!Span(c, b) = {}
  <2> SUFFICES ASSUME NEW i \in DOMAIN Arguments(c), NEW j \in DOMAIN Arguments(c), i # j,
                      Writes(Arguments(c)[i].access)
               PROVE  Bytes(ArgumentInterval(c, i)) \cap Bytes(ArgumentInterval(c, j)) = {}
    BY <1>1, SameArguments, SameFootprint DEF Writes
  <2>1. i \in Int /\ j \in Int
    BY <1>1, ArgumentFacts
  <2>2. ~ Overlaps(ArgumentInterval(c, i), ArgumentInterval(c, j))
    <3>1. CASE i < j
      BY <3>1 DEF Accepted, ArgumentsAlias
    <3>2. CASE j < i
      BY <3>2 DEF Accepted, ArgumentsAlias, Overlaps
    <3> QED
      BY <2>1, <3>1, <3>2
  <2>3. /\ ArgumentInterval(c, i).begin \in Int /\ ArgumentInterval(c, i).end \in Int
        /\ ArgumentInterval(c, j).begin \in Int /\ ArgumentInterval(c, j).end \in Int
    BY <1>1, SameFootprint
  <2> QED
    BY <2>2, <2>3, Ranges
<1>7. Atomic!Called(c).workspace # 0 =>
        Atomic!Scratch(c) \cap (Atomic!Written(c) \cup Atomic!Read(c)) = {}
  BY <1>1, SameFootprint, OwnStorageApart
<1>8. IF scenario.variant[c] = "auto" THEN Atomic!Runnable(c) # {}
      ELSE scenario.variant[c] \in Atomic!Runnable(c)
  BY <1>1, VariantDecided
<1> QED
  BY <1>1, <1>2, <1>3, <1>4, <1>5, <1>6, <1>7, <1>8
     DEF Atomic!Acceptable, Atomic!Separate, Target

(* A call is refused for a reason the promise knows.                       *)
Refusable(c) == ~ Atomic!Acceptable(c) \/ Atomic!EmptyInside(c)

LEMMA UnplacedRefusable ==
  ASSUME NEW c \in Calls, ~ PointersValid(c)
  PROVE  ~ Atomic!Acceptable(c)
<1>1. PICK i \in DOMAIN Arguments(c) :
        ~ (/\ Arguments(c)[i].uid \in DOMAIN scenario.pack[c]
           /\ Pointer(c, i) # 0
           /\ Pointer(c, i) % Arguments(c)[i].alignment = 0)
  BY DEF PointersValid
<1>2. ~ Atomic!Placed(c, Arguments(c)[i])
  BY <1>1 DEF Atomic!Placed, Atomic!At, Pointer
<1>3. Arguments(c)[i] \in Atomic!ArgumentSet(c)
  BY SameArguments
<1> QED
  BY <1>2, <1>3 DEF Atomic!Acceptable

LEMMA WrongVariantRefusable ==
  ASSUME scenario \in Scenarios, NEW c \in Calls, VariantStatus(c) # "ok"
  PROVE  ~ Atomic!Acceptable(c)
<1>1. CASE Target(c) \notin DOMAIN scenario.executables
  BY <1>1 DEF Atomic!Acceptable, Target
<1>2. CASE Target(c) \in DOMAIN scenario.executables
  BY <1>2, VariantDecided DEF Atomic!Acceptable
<1> QED
  BY <1>1, <1>2

LEMMA AliasRefusable ==
  ASSUME ExecInv, NEW c \in Calls, Settled(c), ArgumentsAlias(c)
  PROVE  Refusable(c)
<1>1. PICK i \in DOMAIN Arguments(c) : \E j \in DOMAIN Arguments(c) :
        /\ i # j
        /\ Overlaps(ArgumentInterval(c, i), ArgumentInterval(c, j))
        /\ Writes(Arguments(c)[i].access)
  <2>1. PICK i \in DOMAIN Arguments(c) : \E j \in DOMAIN Arguments(c) :
          /\ i < j
          /\ Overlaps(ArgumentInterval(c, i), ArgumentInterval(c, j))
          /\ Writes(Arguments(c)[i].access) \/ Writes(Arguments(c)[j].access)
    BY DEF ArgumentsAlias
  <2>2. PICK j \in DOMAIN Arguments(c) :
          /\ i < j
          /\ Overlaps(ArgumentInterval(c, i), ArgumentInterval(c, j))
          /\ Writes(Arguments(c)[i].access) \/ Writes(Arguments(c)[j].access)
    BY <2>1
  <2>3. i \in Int /\ j \in Int
    BY ArgumentFacts DEF Settled, ExecInv
  <2>4. i # j
    BY <2>2, <2>3
  <2>5. Overlaps(ArgumentInterval(c, j), ArgumentInterval(c, i))
    BY <2>2 DEF Overlaps
  <2> QED
    BY <2>2, <2>4, <2>5
<1>2. PICK j \in DOMAIN Arguments(c) :
        /\ i # j
        /\ Overlaps(ArgumentInterval(c, i), ArgumentInterval(c, j))
        /\ Writes(Arguments(c)[i].access)
  BY <1>1
<1> DEFINE I == ArgumentInterval(c, i)
<1> DEFINE J == ArgumentInterval(c, j)
<1>3. /\ I.begin \in Int /\ I.end \in Int /\ J.begin \in Int /\ J.end \in Int
      /\ I.begin <= I.end /\ J.begin <= J.end
  BY SameFootprint
<1>4. Arguments(c)[i] # Arguments(c)[j]
  BY <1>2, ArgumentFacts DEF ArgumentsValid, Arguments, Settled, ExecInv
<1>5. /\ Arguments(c)[i] \in Atomic!ArgumentSet(c)
      /\ Arguments(c)[j] \in Atomic!ArgumentSet(c)
      /\ Atomic!Span(c, Arguments(c)[i]) = Bytes(I)
      /\ Atomic!Span(c, Arguments(c)[j]) = Bytes(J)
  BY SameArguments, SameFootprint
<1>6. \A k \in DOMAIN Arguments(c) :
        /\ Bytes(ArgumentInterval(c, k)) \subseteq Atomic!Written(c) \cup Atomic!Read(c)
        /\ Atomic!At(c, Arguments(c)[k].uid) = ArgumentInterval(c, k).begin
  BY SameFootprint DEF OutputBytes, ReadBytes, Atomic!At, Pointer
<1>7. \A k \in DOMAIN Arguments(c) :
        ArgumentInterval(c, k).begin = ArgumentInterval(c, k).end =>
          Arguments(c)[k].ragged /\ Bytes(ArgumentInterval(c, k)) = {}
  <2> SUFFICES ASSUME NEW k \in DOMAIN Arguments(c),
                      ArgumentInterval(c, k).begin = ArgumentInterval(c, k).end
               PROVE  Arguments(c)[k].ragged /\ Bytes(ArgumentInterval(c, k)) = {}
    OBVIOUS
  <2>1. /\ Pointer(c, k) = Pointer(c, k) + sizes[c][k]
        /\ Pointer(c, k) \in Int
        /\ ~ Arguments(c)[k].ragged => sizes[c][k] \in Nat \ {0}
    BY SameFootprint
  <2>2. Arguments(c)[k].ragged
    BY <2>1
  <2>3. ArgumentInterval(c, k).begin \in Int /\ ArgumentInterval(c, k).end \in Int
    BY SameFootprint
  <2> QED
    BY <2>2, <2>3 DEF Bytes
<1> HIDE DEF I, J
<1>8. CASE I.begin < I.end /\ J.begin < J.end
  <2>1. \E x \in Bytes(I) : x \in Bytes(J)
    BY <1>2, <1>3, <1>8, Ranges DEF I, J
  <2> QED
    BY <2>1, <1>2, <1>4, <1>5
       DEF Refusable, Atomic!Acceptable, Atomic!Separate, Writes
<1>9. CASE I.begin = I.end
  <2>1. I.begin \in Bytes(J)
    BY <1>2, <1>3, <1>9, Ranges DEF I, J
  <2> QED
    BY <2>1, <1>5, <1>6, <1>7, <1>9 DEF Refusable, Atomic!EmptyInside, I, J
<1>10. CASE J.begin = J.end
  <2>1. J.begin \in Bytes(I)
    BY <1>2, <1>3, <1>10, Ranges DEF I, J
  <2> QED
    BY <2>1, <1>5, <1>6, <1>7, <1>10 DEF Refusable, Atomic!EmptyInside, I, J
<1> QED
  BY <1>3, <1>8, <1>9, <1>10

LEMMA WorkspaceRefusable ==
  ASSUME ExecInv, NEW c \in Calls, Settled(c), WorkspaceStatus(c) # "ok"
  PROVE  Refusable(c)
<1>1. /\ Executable(c).workspace \in Nat \ {0}
      /\ Workspace(c) \in 0..UIntPtrMax
      /\ Atomic!Called(c) = Executable(c)
      /\ Atomic!Scratch(c) = ScratchBytes(c)
  BY ArgumentFacts, SameArguments, SameFootprint DEF Settled, ExecInv, WorkspaceStatus
<1>2. CASE Workspace(c) = 0 \/ Workspace(c) % Executable(c).alignment # 0
  BY <1>1, <1>2 DEF Refusable, Atomic!Acceptable, Workspace
<1>3. CASE WorkspaceInterval(c).end > UIntPtrMax
  <2>1. /\ WorkspaceInterval(c).end - 1 \in ScratchBytes(c)
        /\ ~ (WorkspaceInterval(c).end - 1 < UIntPtrMax)
    BY <1>1, <1>3, AddressAssumption DEF ScratchBytes, Bytes, WorkspaceInterval
  <2> QED
    BY <1>1, <2>1 DEF Refusable, Atomic!Acceptable
<1>4. CASE \E i \in DOMAIN Arguments(c) :
             Overlaps(ArgumentInterval(c, i), WorkspaceInterval(c))
  <2>1. PICK i \in DOMAIN Arguments(c) :
          Overlaps(ArgumentInterval(c, i), WorkspaceInterval(c))
    BY <1>4
  <2> DEFINE I == ArgumentInterval(c, i)
  <2> DEFINE W == WorkspaceInterval(c)
  <2>2. /\ I.begin \in Int /\ I.end \in Int /\ I.begin <= I.end
        /\ W.begin \in Int /\ W.end \in Int /\ W.begin < W.end
        /\ ScratchBytes(c) = Bytes(W)
    BY <1>1, SameFootprint DEF WorkspaceInterval, ScratchBytes
  <2>3. /\ Bytes(I) \subseteq Atomic!Written(c) \cup Atomic!Read(c)
        /\ Atomic!At(c, Arguments(c)[i].uid) = I.begin
        /\ Atomic!Span(c, Arguments(c)[i]) = Bytes(I)
        /\ Arguments(c)[i] \in Atomic!ArgumentSet(c)
        /\ I.begin = I.end => Arguments(c)[i].ragged
    <3>1. /\ I.begin = Pointer(c, i)
          /\ I.end = Pointer(c, i) + sizes[c][i]
          /\ ~ Arguments(c)[i].ragged => sizes[c][i] \in Nat \ {0}
      BY SameFootprint
    <3>2. I.begin = I.end => Arguments(c)[i].ragged
      BY <3>1, <2>2
    <3>3. Bytes(I) \subseteq Atomic!Written(c) \cup Atomic!Read(c)
      BY SameFootprint DEF OutputBytes, ReadBytes
    <3> QED
      BY <3>1, <3>2, <3>3, SameFootprint, SameArguments DEF Atomic!At, Pointer
  <2> HIDE DEF I, W
  <2>4. CASE I.begin < I.end
    <3>1. \E x \in Bytes(I) : x \in Bytes(W)
      BY <2>1, <2>2, <2>4, Ranges DEF I, W
    <3>2. Atomic!Scratch(c) \cap (Atomic!Written(c) \cup Atomic!Read(c)) # {}
      BY <3>1, <2>2, <2>3, <1>1
    <3> QED
      BY <3>2, <1>1 DEF Refusable, Atomic!Acceptable, Atomic!Separate
  <2>5. CASE I.begin = I.end
    <3>1. I.begin \in Bytes(W) /\ Bytes(I) = {}
      <4>1. I.begin \in Bytes(W)
        BY <2>1, <2>2, <2>5, Ranges DEF I, W
      <4>2. Bytes(I) = {}
        BY <2>2, <2>5 DEF Bytes
      <4> QED
        BY <4>1, <4>2
    <3> QED
      BY <3>1, <2>2, <2>3, <2>5, <1>1 DEF Refusable, Atomic!EmptyInside
  <2> QED
    BY <2>2, <2>4, <2>5
<1> QED
  BY <1>1, <1>2, <1>3, <1>4 DEF WorkspaceStatus
-----------------------------------------------------------------------------
(* What callers see of memory.                                             *)
Touching(c) == pc[c] = "kernel" \/ status[c] = "ok"

LEMMA HiddenIs ==
  ASSUME NEW x
  PROVE  Hidden(x) <=> \E c \in Calls : \/ pc[c] = "kernel" /\ x \in OutputBytes(c)
                                        \/ Touching(c) /\ x \in ScratchBytes(c)
BY DEF Hidden, Touching

LEMMA TouchingAccepted ==
  ASSUME ExecInv, NEW c \in Calls, Touching(c)
  PROVE  /\ Accepted(c)
         /\ VariantStatus(c) = "ok"
         /\ OutputBytes(c) \cup ScratchBytes(c) \subseteq 0..UIntPtrMax
<1>1. Accepted(c) /\ VariantStatus(c) = "ok"
  BY WriterAccepted DEF ExecInv, CallInv, Reached, Placed, Touching
<1> QED
  BY <1>1, Footprint, OwnStorageApart DEF Accepted, ExecInv

(* While the same calls run and have run, what is hidden stays hidden.     *)
LEMMA VisibleStays ==
  ASSUME scenario' = scenario, memory' = memory,
         \A c \in Calls : /\ pc'[c] = "kernel" <=> pc[c] = "kernel"
                          /\ status'[c] = "ok" <=> status[c] = "ok"
                          /\ Touching(c) => sizes'[c] = sizes[c]
  PROVE  VisibleMemory' = VisibleMemory
<1>1. \A x : Hidden(x)' <=> Hidden(x)
  <2>1. \A c \in Calls : /\ Touching(c)' <=> Touching(c)
                         /\ Touching(c) => /\ OutputBytes(c)' = OutputBytes(c)
                                           /\ ScratchBytes(c)' = ScratchBytes(c)
    BY SameStorage DEF Touching
  <2> QED
    BY <2>1 DEF Hidden, Touching
<1> QED
  BY <1>1 DEF VisibleMemory

(* Storage of a call that no other call hides and that it has not written  *)
(* itself still holds what the scenario put there.                         *)
LEMMA Fresh ==
  ASSUME ExecInv, NEW c \in Calls, Accepted(c), written[c] = {},
         NEW x \in OutputBytes(c) \cup ScratchBytes(c), x \in 0..UIntPtrMax,
         ~ \E d \in Calls \ {c} : \/ pc[d] = "kernel" /\ x \in OutputBytes(d)
                                  \/ Touching(d) /\ x \in ScratchBytes(d)
  PROVE  memory[x] = scenario.memory[x]
<1> SUFFICES ASSUME NEW d \in Calls, x \in written[d] PROVE FALSE
  BY DEF ExecInv, OnlyWritten
<1>1. d # c
  OBVIOUS
<1>2. Touching(d) /\ x \in OutputBytes(d) \cup ScratchBytes(d)
  BY DEF ExecInv, CallInv, Reached, Touching
<1>3. x \in OutputBytes(d)
  BY <1>1, <1>2
<1>4. OutputBytes(d) \cap (OutputBytes(c) \cup ScratchBytes(c)) = {}
  BY <1>1, <1>2, TouchingAccepted, CallsStorageApart DEF ExecInv
<1> QED
  BY <1>3, <1>4

LEMMA EnterInvisible ==
  ASSUME ExecInv, LockInv, NEW c \in Calls, EnterKernel(c)
  PROVE  VisibleMemory' = VisibleMemory
<1>1. /\ UNCHANGED <<scenario, memory, sizes, written, status>>
      /\ pc[c] = "lock" /\ pc'[c] = "kernel"
      /\ \A d \in Calls \ {c} : pc'[d] = pc[d]
  BY DEF EnterKernel, LockInv
<1>2. Accepted(c) /\ written[c] = {} /\ ~ Touching(c)
  BY <1>1, WriterAccepted DEF ExecInv, CallInv, Reached, Touching
<1>3. \A d \in Calls : /\ OutputBytes(d)' = OutputBytes(d)
                       /\ ScratchBytes(d)' = ScratchBytes(d)
                       /\ d # c => (Touching(d)' <=> Touching(d))
  BY <1>1, SameStorage DEF Touching
<1>4. ASSUME NEW x \in DOMAIN memory
      PROVE  (IF Hidden(x)' THEN scenario.memory[x] ELSE memory[x])
               = (IF Hidden(x) THEN scenario.memory[x] ELSE memory[x])
  <2>1. Hidden(x) => Hidden(x)'
    BY <1>1, <1>2, <1>3 DEF Hidden, Touching
  <2>2. Hidden(x)' /\ ~ Hidden(x) => memory[x] = scenario.memory[x]
    <3> SUFFICES ASSUME Hidden(x)', ~ Hidden(x) PROVE memory[x] = scenario.memory[x]
      OBVIOUS
    <3>1. x \in OutputBytes(c) \cup ScratchBytes(c)
      BY <1>1, <1>3 DEF Hidden, Touching
    <3>2. ~ \E d \in Calls \ {c} : \/ pc[d] = "kernel" /\ x \in OutputBytes(d)
                                   \/ Touching(d) /\ x \in ScratchBytes(d)
      BY HiddenIs
    <3> QED
      BY <3>1, <3>2, <1>2, Fresh DEF ExecInv
  <2> QED
    BY <2>1, <2>2
<1> QED
  BY <1>1, <1>4 DEF VisibleMemory

LEMMA FailureInvisible ==
  ASSUME ExecInv, LockInv, NEW c \in Calls, EngineFails(c)
  PROVE  VisibleMemory' = VisibleMemory
<1>1. /\ UNCHANGED <<scenario, memory, sizes, written>>
      /\ pc[c] = "kernel" /\ pc'[c] = "returned"
      /\ status'[c] # "ok"
      /\ \A d \in Calls \ {c} : pc'[d] = pc[d] /\ status'[d] = status[d]
      /\ written[c] = {}
  BY DEF EngineFails, LockInv, ExecInv
<1>2. Accepted(c)
  BY <1>1, TouchingAccepted DEF Touching
<1>3. \A d \in Calls : /\ OutputBytes(d)' = OutputBytes(d)
                       /\ ScratchBytes(d)' = ScratchBytes(d)
                       /\ d # c => (Touching(d)' <=> Touching(d))
  BY <1>1, SameStorage DEF Touching
<1>4. ASSUME NEW x \in DOMAIN memory
      PROVE  (IF Hidden(x)' THEN scenario.memory[x] ELSE memory[x])
               = (IF Hidden(x) THEN scenario.memory[x] ELSE memory[x])
  <2>1. Hidden(x)' => Hidden(x)
    BY <1>1, <1>3 DEF Hidden, Touching
  <2>2. Hidden(x) /\ ~ Hidden(x)' => memory[x] = scenario.memory[x]
    <3> SUFFICES ASSUME Hidden(x), ~ Hidden(x)' PROVE memory[x] = scenario.memory[x]
      OBVIOUS
    <3>1. ~ \E d \in Calls \ {c} : \/ pc[d] = "kernel" /\ x \in OutputBytes(d)
                                   \/ Touching(d) /\ x \in ScratchBytes(d)
      BY <1>1, <1>3 DEF Hidden, Touching
    <3>2. x \in OutputBytes(c) \cup ScratchBytes(c)
      BY <3>1, HiddenIs
    <3> QED
      BY <3>1, <3>2, <1>1, <1>2, Fresh DEF ExecInv
  <2> QED
    BY <2>1, <2>2
<1> QED
  BY <1>1, <1>4 DEF VisibleMemory

LEMMA WriteInvisible ==
  ASSUME ExecInv, LockInv, NEW c \in Calls, KernelWrite(c)
  PROVE  VisibleMemory' = VisibleMemory
<1>1. PICK x \in ScratchBytes(c) \cup OutputBytes(c) : \E v :
        memory' = [memory EXCEPT ![x] = v]
  BY DEF KernelWrite
<1>2. /\ DOMAIN memory' = DOMAIN memory
      /\ \A y \in DOMAIN memory : y # x => memory'[y] = memory[y]
  BY <1>1
<1>3. UNCHANGED <<scenario, pc, sizes, status>> /\ pc[c] = "kernel"
  BY DEF KernelWrite
<1>4. \A y : Hidden(y)' <=> Hidden(y)
  <2>1. \A d \in Calls : OutputBytes(d)' = OutputBytes(d) /\ ScratchBytes(d)' = ScratchBytes(d)
    BY <1>3, SameStorage
  <2> QED
    BY <1>3, <2>1 DEF Hidden
<1>5. Hidden(x)
  BY <1>1, <1>3 DEF Hidden
<1> QED
  BY <1>2, <1>3, <1>4, <1>5 DEF VisibleMemory

(* A call that is done shows its results, all of them at once.             *)
LEMMA ReturnPerforms ==
  ASSUME ExecInv, LockInv, NEW c \in Calls, KernelReturns(c)
  PROVE  Atomic!Perform(c)
<1>1. /\ UNCHANGED <<scenario, memory, sizes, written>>
      /\ pc[c] = "kernel" /\ pc'[c] = "returned"
      /\ status[c] # "ok" /\ status'[c] = "ok"
      /\ \A d \in Calls \ {c} : pc'[d] = pc[d] /\ status'[d] = status[d]
      /\ ScratchBytes(c) \cup OutputBytes(c) = written[c]
  BY DEF KernelReturns, LockInv, ExecInv, CallInv
<1>2. Accepted(c) /\ VariantStatus(c) = "ok" /\ Settled(c)
  BY <1>1, TouchingAccepted DEF Touching, Accepted
<1>3. /\ Atomic!Written(c) = OutputBytes(c)
      /\ Atomic!Read(c) = ReadBytes(c)
      /\ Atomic!Scratch(c) = ScratchBytes(c)
  BY <1>2, SameFootprint
<1>4. \A d \in Calls : /\ OutputBytes(d)' = OutputBytes(d)
                       /\ ScratchBytes(d)' = ScratchBytes(d)
                       /\ Touching(d)' <=> Touching(d)
  BY <1>1, SameStorage DEF Touching
<1>5. \A x \in ReadBytes(c) : x \in DOMAIN memory /\ VisibleMemory[x] = scenario.memory[x]
  <2>1. ReadBytes(c) \subseteq 0..UIntPtrMax /\ ReadBytes(c) = Storage(scenario, c, FALSE)
    BY <1>2, Footprint DEF ExecInv
  <2>2. c \in Complete(scenario)
    BY <1>2, PointersComplete DEF ExecInv, Settled
  <2>3. \A x \in ReadBytes(c) : x \in DOMAIN memory /\ memory[x] = scenario.memory[x]
    BY <2>1, <2>2, Protected DEF ExecInv
  <2> QED
    BY <2>3 DEF VisibleMemory
<1>6. Atomic!Cells(ReadBytes(c), VisibleMemory) = Inputs(c)
  BY <1>5 DEF Atomic!Cells, Inputs, Cells
<1>7. \A x \in OutputBytes(c) : Atomic!Result(c, x) = Final(c, x)
  BY <1>3, <1>6 DEF Atomic!Result, Final, Partial, Target
<1>8. ASSUME NEW x \in DOMAIN memory
      PROVE  VisibleMemory'[x] = IF x \in OutputBytes(c) THEN Final(c, x) ELSE VisibleMemory[x]
  <2>1. CASE x \in OutputBytes(c)
    <3>1. ~ Hidden(x)'
      <4> SUFFICES ASSUME Hidden(x)' PROVE FALSE
        OBVIOUS
      <4>1. PICK d \in Calls : \/ pc'[d] = "kernel" /\ x \in OutputBytes(d)
                               \/ Touching(d) /\ x \in ScratchBytes(d)
        BY <1>1, <1>4 DEF Hidden, Touching
      <4>2. CASE d = c
        BY <4>1, <4>2, <1>1, <1>2, <2>1, OwnStorageApart DEF ExecInv
      <4>3. CASE d # c
        <5>1. Touching(d) /\ x \in OutputBytes(d) \cup ScratchBytes(d)
          BY <4>1, <4>3, <1>1 DEF Touching
        <5>2. Accepted(d)
          BY <5>1, TouchingAccepted
        <5>3. /\ OutputBytes(c) \cap OutputBytes(d) = {}
              /\ OutputBytes(c) \cap ScratchBytes(d) = {}
          BY <5>2, <4>3, <1>2, CallsStorageApart DEF ExecInv
        <5> QED
          BY <5>1, <5>3, <2>1
      <4> QED
        BY <4>2, <4>3
    <3>2. memory[x] = Final(c, x)
      BY <1>1, <2>1 DEF ExecInv, Computed
    <3> QED
      BY <3>1, <3>2, <2>1, <1>1 DEF VisibleMemory
  <2>2. CASE x \notin OutputBytes(c)
    <3>1. Hidden(x)' <=> Hidden(x)
      BY <2>2, <1>1, <1>4 DEF Hidden, Touching
    <3> QED
      BY <3>1, <2>2, <1>1 DEF VisibleMemory
  <2> QED
    BY <2>1, <2>2
<1>9. VisibleMemory' = [x \in DOMAIN VisibleMemory |->
                          IF x \in Atomic!Written(c) THEN Atomic!Result(c, x)
                          ELSE VisibleMemory[x]]
  <2>1. DOMAIN VisibleMemory = DOMAIN memory /\ DOMAIN VisibleMemory' = DOMAIN memory
    BY <1>1 DEF VisibleMemory
  <2>2. VisibleMemory' = [x \in DOMAIN memory |-> VisibleMemory'[x]]
    BY <1>1 DEF VisibleMemory
  <2> QED
    BY <2>1, <2>2, <1>3, <1>7, <1>8
<1>10. /\ c \notin Answered
       /\ Answered' = Answered \cup {c}
       /\ Succeeded' = Succeeded \cup {c}
  BY <1>1 DEF Answered, Succeeded
<1>11. Atomic!Acceptable(c)
  BY <1>2, AcceptedIsAcceptable
<1> QED
  BY <1>1, <1>9, <1>10, <1>11 DEF Atomic!Perform

LEMMA AnswerRefuses ==
  ASSUME ExecInv, LockInv, NEW c \in Calls, NEW code, code # "ok",
         pc[c] \notin {"kernel", "returned"}, Answer(c, code), Refusable(c)
  PROVE  Atomic!Refuse(c)
<1>1. /\ UNCHANGED <<scenario, memory, sizes, written>>
      /\ pc'[c] = "returned" /\ status'[c] # "ok" /\ status[c] # "ok"
      /\ \A d \in Calls \ {c} : pc'[d] = pc[d] /\ status'[d] = status[d]
  BY DEF Answer, LockInv, ExecInv, CallInv
<1>2. VisibleMemory' = VisibleMemory
  BY <1>1, VisibleStays
<1>3. /\ c \notin Answered
      /\ Answered' = Answered \cup {c}
      /\ Succeeded' = Succeeded
  BY <1>1 DEF Answered, Succeeded
<1> QED
  BY <1>1, <1>2, <1>3 DEF Atomic!Refuse, Refusable

LEMMA FailureRefuses ==
  ASSUME ExecInv, LockInv, NEW c \in Calls, EngineFails(c)
  PROVE  Atomic!Refuse(c)
<1>1. /\ scenario' = scenario
      /\ pc[c] = "kernel" /\ pc'[c] = "returned"
      /\ status'[c] # "ok" /\ status[c] # "ok"
      /\ Executable(c).engine
      /\ \A d \in Calls \ {c} : pc'[d] = pc[d] /\ status'[d] = status[d]
  BY DEF EngineFails, LockInv, ExecInv, CallInv
<1>2. VisibleMemory' = VisibleMemory
  BY FailureInvisible
<1>3. /\ c \notin Answered
      /\ Answered' = Answered \cup {c}
      /\ Succeeded' = Succeeded
  BY <1>1 DEF Answered, Succeeded
<1> QED
  BY <1>1, <1>2, <1>3, SameArguments DEF Atomic!Refuse

(* A step that does not end a call is no step of the promise.              *)
LEMMA QuietStutters ==
  ASSUME NEW c \in Calls, scenario' = scenario, VisibleMemory' = VisibleMemory,
         pc[c] # "returned", pc'[c] # "returned", status' = status,
         \A d \in Calls \ {c} : pc'[d] = pc[d]
  PROVE  UNCHANGED Atomic!atomicVars
BY DEF Answered, Succeeded, Atomic!atomicVars

LEMMA GotoStutters ==
  ASSUME ExecInv, LockInv, NEW c \in Calls, NEW label,
         label \notin {"kernel", "returned"}, pc[c] \notin {"kernel", "returned"},
         Goto(c, label), \A d \in Calls \ {c} : sizes'[d] = sizes[d]
  PROVE  UNCHANGED Atomic!atomicVars
<1>1. /\ scenario' = scenario /\ memory' = memory /\ status' = status
      /\ pc'[c] = label
      /\ \A d \in Calls \ {c} : pc'[d] = pc[d]
      /\ status[c] # "ok"
  BY DEF Goto, LockInv, ExecInv, CallInv
<1>2. VisibleMemory' = VisibleMemory
  BY <1>1, VisibleStays DEF Touching
<1> QED
  BY <1>1, <1>2, QuietStutters

LEMMA ResolvingRefines ==
  ASSUME ExecInv, LockInv, NEW c \in Calls, ResolveRange(c)
  PROVE  Atomic!Refuse(c) \/ UNCHANGED Atomic!atomicVars
<1> DEFINE i == Len(sizes[c]) + 1
<1> DEFINE a == Arguments(c)[i]
<1>1. /\ pc[c] = "ranges"
      /\ Len(sizes[c]) < Len(Arguments(c))
      /\ sizes[c] \in Seq(Nat)
      /\ VariantStatus(c) = "ok"
      /\ PointersValid(c)
  BY DEF ResolveRange, ExecInv, CallInv, Reached, Placed
<1>2. /\ scenario \in Scenarios
      /\ Target(c) \in DOMAIN scenario.executables
  BY <1>1 DEF VariantStatus, ExecInv
<1>3. c \in Complete(scenario) /\ i \in DOMAIN Arguments(c)
  BY <1>1, <1>2, PointersComplete, ArgumentFacts
<1>4. a \in Atomic!ArgumentSet(c)
  BY <1>3, SameArguments
<1>5. CASE a.ragged /\ ~ RaggedValid(c, a)
  <2>1. ~ Atomic!PrefixGood(c, a)
    BY <1>3, <1>5, PrefixDecided
  <2>2. Refusable(c)
    BY <2>1, <1>4, <1>5 DEF Refusable, Atomic!Acceptable
  <2>3. Answer(c, "kInvalidVariantPack")
    BY <1>5 DEF ResolveRange
  <2> QED
    BY <2>2, <2>3, <1>1, AnswerRefuses
<1>6. CASE /\ a.ragged => RaggedValid(c, a)
           /\ Pointer(c, i) + ResolvedSize(c, a) > UIntPtrMax
  <2>1. a.size \in 1..UIntPtrMax /\ a.ragged \in BOOLEAN
    BY <1>2, <1>3, ArgumentFacts DEF ArgumentsValid, Arguments
  <2>2. /\ a.ragged => Atomic!PrefixGood(c, a)
        /\ ResolvedSize(c, a) = Extent(scenario, c, a)
    <3>1. CASE a.ragged
      BY <3>1, <1>6, <1>3, PrefixDecided DEF ResolvedSize
    <3>2. CASE ~ a.ragged
      BY <3>2 DEF ResolvedSize, Extent
    <3> QED
      BY <3>1, <3>2
  <2>3. Extent(scenario, c, a) \in Nat /\ Pointer(c, i) \in 0..UIntPtrMax
    BY <1>1, <1>2, <1>3, <2>1, ExtentIsNat, PointersComplete, AddressAssumption
  <2> DEFINE x == Pointer(c, i) + Extent(scenario, c, a) - 1
  <2>4. /\ x \in Pointer(c, i)..(Pointer(c, i) + Extent(scenario, c, a) - 1)
        /\ ~ (x < UIntPtrMax)
    <3> HIDE DEF a, i
    <3> QED
      BY <2>2, <2>3, <1>6, AddressAssumption
  <2>5. x \in Atomic!Span(c, a)
    BY <2>2, <2>4, <1>3, SpanOfArgument
  <2>6. x \in Atomic!Written(c) \cup Atomic!Read(c)
    BY <2>5, <1>4 DEF Atomic!Written, Atomic!Read
  <2>7. Refusable(c)
    BY <2>4, <2>6 DEF Refusable, Atomic!Acceptable
  <2>8. Answer(c, "kDimensionOverflow")
    BY <1>6 DEF ResolveRange
  <2> QED
    BY <2>7, <2>8, <1>1, AnswerRefuses
<1>7. CASE Goto(c, "ranges") /\ \A d \in Calls \ {c} : sizes'[d] = sizes[d]
  BY <1>1, <1>7, GotoStutters
<1>8. \/ a.ragged /\ ~ RaggedValid(c, a)
      \/ /\ a.ragged => RaggedValid(c, a)
         /\ Pointer(c, i) + ResolvedSize(c, a) > UIntPtrMax
      \/ /\ Goto(c, "ranges")
         /\ sizes' = [sizes EXCEPT ![c] = Append(sizes[c], ResolvedSize(c, a))]
  BY DEF ResolveRange
<1> QED
  BY <1>5, <1>6, <1>7, <1>8 DEF ExecInv

LEMMA CallRefines ==
  ASSUME ExecInv, LockInv, NEW c \in Calls, Step(c)
  PROVE  [Atomic!AtomicNext]_Atomic!atomicVars
<1> SUFFICES Atomic!Perform(c) \/ Atomic!Refuse(c) \/ UNCHANGED Atomic!atomicVars
  BY DEF Atomic!AtomicNext
<1>1. CASE CheckVariant(c)
  <2>1. CASE VariantStatus(c) = "ok"
    BY <1>1, <2>1, GotoStutters DEF CheckVariant
  <2>2. CASE VariantStatus(c) # "ok"
    BY <1>1, <2>2, WrongVariantRefusable, AnswerRefuses
       DEF CheckVariant, Refusable, ExecInv
  <2> QED
    BY <2>1, <2>2
<1>2. CASE CheckPointers(c)
  <2>1. CASE PointersValid(c)
    BY <1>2, <2>1, GotoStutters DEF CheckPointers
  <2>2. CASE ~ PointersValid(c)
    BY <1>2, <2>2, UnplacedRefusable, AnswerRefuses DEF CheckPointers, Refusable
  <2> QED
    BY <2>1, <2>2
<1>3. CASE ResolveRange(c)
  BY <1>3, ResolvingRefines
<1>4. CASE CheckAliases(c)
  <2>1. Settled(c) /\ pc[c] = "ranges"
    BY <1>4 DEF CheckAliases, ExecInv, CallInv, Reached, Placed, Settled, VariantStatus
  <2>2. CASE ArgumentsAlias(c)
    BY <1>4, <2>1, <2>2, AliasRefusable, AnswerRefuses DEF CheckAliases
  <2>3. CASE ~ ArgumentsAlias(c)
    BY <1>4, <2>3, GotoStutters DEF CheckAliases
  <2> QED
    BY <2>2, <2>3
<1>5. CASE CheckWorkspace(c)
  <2>1. Settled(c) /\ pc[c] = "workspace"
    BY <1>5 DEF CheckWorkspace, ExecInv, CallInv, Reached, Placed, Settled, VariantStatus,
                Unaliased
  <2>2. CASE WorkspaceStatus(c) = "ok"
    BY <1>5, <2>2, GotoStutters DEF CheckWorkspace
  <2>3. CASE WorkspaceStatus(c) # "ok"
    BY <1>5, <2>1, <2>3, WorkspaceRefusable, AnswerRefuses DEF CheckWorkspace
  <2> QED
    BY <2>2, <2>3
<1>6. CASE EnterKernel(c)
  <2>1. /\ UNCHANGED <<scenario, status>>
        /\ pc[c] = "lock" /\ pc'[c] = "kernel"
        /\ \A d \in Calls \ {c} : pc'[d] = pc[d]
    BY <1>6 DEF EnterKernel, LockInv
  <2> QED
    BY <2>1, <1>6, EnterInvisible, QuietStutters
<1>7. CASE KernelWrite(c)
  <2>1. UNCHANGED <<scenario, status, pc>> /\ pc[c] = "kernel"
    BY <1>7 DEF KernelWrite
  <2> QED
    BY <2>1, <1>7, WriteInvisible, QuietStutters
<1>8. CASE KernelReturns(c)
  BY <1>8, ReturnPerforms
<1>9. CASE EngineFails(c)
  BY <1>9, FailureRefuses
<1> QED
  BY <1>1, <1>2, <1>3, <1>4, <1>5, <1>6, <1>7, <1>8, <1>9 DEF Step

LEMMA StartIsAtomic == Init => Atomic!AtomicInit
<1> SUFFICES ASSUME Init PROVE Atomic!AtomicInit
  OBVIOUS
<1>1. /\ memory = scenario.memory
      /\ \A c \in Calls : pc[c] = "enter" /\ status[c] = "none"
  BY DEF Init
<1>2. scenario.memory \in [0..UIntPtrMax -> Seq(Int)]
  BY ScenariosAssumption DEF Init, ScenarioValid
<1>3. VisibleMemory = scenario.memory
  BY <1>1, <1>2 DEF VisibleMemory, Hidden
<1>4. Answered = {} /\ Succeeded = {}
  BY <1>1 DEF Answered, Succeeded
<1> QED
  BY <1>3, <1>4 DEF Atomic!AtomicInit

(* Calls of several threads look atomic: the kernel of a call writes byte  *)
(* by byte, between checks made without a lock, and yet what callers see   *)
(* is one write of all its outputs or none.                                *)
THEOREM CallsAreAtomic == Spec => ImplementsAtomicCalls
<1>1. Init => LockInv /\ ExecInv
  BY LockInit, ExecInit
<1>2. LockInv /\ ExecInv /\ [Next]_vars => (LockInv /\ ExecInv)'
  BY LockNext, ExecNext
<1>3. LockInv /\ ExecInv /\ [Next]_vars => [Atomic!AtomicNext]_Atomic!atomicVars
  <2> SUFFICES ASSUME LockInv, ExecInv, [Next]_vars
               PROVE  [Atomic!AtomicNext]_Atomic!atomicVars
    OBVIOUS
  <2>1. CASE Next
    BY <2>1, CallRefines DEF Next
  <2>2. CASE UNCHANGED vars
    <3>1. VisibleMemory' = VisibleMemory
      BY <2>2, VisibleStays DEF vars
    <3> QED
      BY <2>2, <3>1 DEF vars, Atomic!atomicVars, Answered, Succeeded
  <2> QED
    BY <2>1, <2>2
<1>4. Init => Atomic!AtomicInit
  BY StartIsAtomic
<1> QED
  BY <1>1, <1>2, <1>3, <1>4, PTL DEF Spec, ImplementsAtomicCalls, Atomic!AtomicSpec
=============================================================================
