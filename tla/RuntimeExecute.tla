--------------------------- MODULE RuntimeExecute ---------------------------
(***************************************************************************)
(* Executable::execute and execute_variant (lib/Runtime/Executable.cpp):   *)
(* threads call into shared Executables, each call checks its variant,     *)
(* pointers, ragged prefixes, aliases and workspace without a lock, then   *)
(* enters the native kernel under the invoke_mutex of its Executable.      *)
(*                                                                         *)
(* Each caller makes one call.  Memory is a function on addresses.  A cell *)
(* holds a sequence of integers: <<n>> for an integer, a longer one for    *)
(* what a kernel computed.  Shape overrides are left to another module.    *)
(***************************************************************************)
EXTENDS Integers, Sequences, SequencesExt, FiniteSetsExt

CONSTANTS
  Calls,       (* the calling threads, a set of positive integers          *)
  Scenarios,   (* executables, calls and memory a behaviour starts from    *)
  UIntPtrMax   (* largest std::uintptr_t                                   *)

ASSUME CallsAssumption == Calls \subseteq Nat \ {0}

Variants == {"scalar", "avx2", "avx512"}

Writes(access) == access # "read"
IntegerIn(cell) == IF Len(cell) = 1 THEN cell[1] ELSE -1

(* The storage of a call in a scenario: a ragged argument ends where its   *)
(* prefix does, and has no bytes when that is no length of it.             *)
Extent(s, c, a) ==
  IF ~ a.ragged THEN a.size
  ELSE LET end == IntegerIn(s.memory[s.pack[c][a.offset] + a.batches])
       IN IF end \in 0..a.size THEN end ELSE 0

Storage(s, c, writable) ==
  UNION {s.pack[c][a.uid]..(s.pack[c][a.uid] + Extent(s, c, a) - 1) :
           a \in {b \in ToSet(s.executables[s.target[c]].arguments) :
                    Writes(b.access) = writable}}
Scratch(s, c) ==
  s.workspace[c]..(s.workspace[c] + s.executables[s.target[c]].workspace - 1)

(* An Executable whose metadata validate_graph_compile_metadata accepts.   *)
(* One restriction is ours: that check lets a prefix be ragged itself, and *)
(* no graph here has such a prefix.                                        *)
ArgumentsValid(e) ==
  \A i \in DOMAIN e.arguments :
    LET a == e.arguments[i]
        Refers(uid, n) ==
          \E j \in DOMAIN e.arguments :
            LET b == e.arguments[j]
            IN b.uid = uid /\ b.access = "read" /\ ~ b.ragged /\ n <= b.size
    IN /\ a.size \in 1..UIntPtrMax
       /\ a.ragged \in BOOLEAN
       /\ \A j \in DOMAIN e.arguments : a.uid = e.arguments[j].uid => i = j
       /\ a.ragged => /\ a.batches \in Nat \ {0}
                      /\ Refers(a.offset, a.batches + 1)
                      /\ Refers(a.sequence, a.batches)

(* Calls that name an Executable and hand over all of its arguments.       *)
Complete(s) ==
  {c \in Calls :
     /\ s.target[c] \in DOMAIN s.executables
     /\ \A a \in ToSet(s.executables[s.target[c]].arguments) :
          a.uid \in DOMAIN s.pack[c]}

(* "Each call still requires separate output and workspace storage"        *)
(* (docs/user-guide.en.md:703): what one call writes no other call uses.   *)
(* Calls on one Executable may share a workspace.                          *)
CallersApart(s) ==
  \A c, d \in Complete(s) : c # d =>
    /\ Storage(s, c, TRUE) \cap Storage(s, d, TRUE) = {}
    /\ Storage(s, c, TRUE) \cup Scratch(s, c)
          \subseteq Int \ Storage(s, d, FALSE)
    /\ Storage(s, c, TRUE) \cap Scratch(s, d) = {}
    /\ s.target[c] # s.target[d] => Scratch(s, c) \cap Scratch(s, d) = {}

(* A host's addresses, pointers into them, and Executables that a factory  *)
(* accepted.  A prefix is read before its range is checked, so the caller  *)
(* has to provide it.                                                      *)
ScenarioValid(s) ==
  /\ s.memory \in [0..UIntPtrMax -> Seq(Int)]
  /\ \A c \in Calls :
       /\ s.workspace[c] \in 0..UIntPtrMax
       /\ s.variant[c] \in Variants \cup {"auto"}
       /\ \A uid \in DOMAIN s.pack[c] : s.pack[c][uid] \in 0..UIntPtrMax
  /\ \A n \in DOMAIN s.executables :
       LET e == s.executables[n]
       IN /\ e.arguments \in Seq(ToSet(e.arguments))
          /\ e.workspace \in Nat
          /\ e.compiled \subseteq Variants
          /\ ArgumentsValid(e)
  /\ \A c \in Complete(s) :
       \A a \in ToSet(s.executables[s.target[c]].arguments) :
         a.ragged => /\ s.pack[c][a.offset] + a.batches <= UIntPtrMax
                     /\ s.pack[c][a.sequence] + a.batches <= UIntPtrMax + 1

ASSUME AddressAssumption == UIntPtrMax \in Nat
ASSUME ScenariosAssumption ==
  \A s \in Scenarios : ScenarioValid(s) /\ CallersApart(s)

VARIABLES
  scenario, (* [executables, target, variant, pack, workspace, memory,     *)
            (*  features], not changed by any call                         *)
  memory,   (* contents of each address                                    *)
  pc,       (* where each call is                                          *)
  sizes,    (* byte sizes a call has resolved, in argument order           *)
  owner,    (* the call that holds each invoke_mutex, 0 when it is free    *)
  written,  (* addresses the running kernel of each call has written       *)
  status    (* what each call answered, "none" before                      *)

vars == <<scenario, memory, pc, sizes, owner, written, status>>

Target(c) == scenario.target[c]
Executable(c) == scenario.executables[Target(c)]
Arguments(c) == Executable(c).arguments
Pointer(c, i) == scenario.pack[c][Arguments(c)[i].uid]
Workspace(c) == scenario.workspace[c]

(* An Interval [begin, end) of addresses.                                  *)
Overlaps(a, b) == a.begin < b.end /\ b.begin < a.end
Bytes(i) == i.begin..(i.end - 1)

ArgumentInterval(c, i) ==
  [begin |-> Pointer(c, i), end |-> Pointer(c, i) + sizes[c][i]]
WorkspaceInterval(c) ==
  [begin |-> Workspace(c), end |-> Workspace(c) + Executable(c).workspace]

OutputBytes(c) ==
  UNION {Bytes(ArgumentInterval(c, i)) :
           i \in {j \in DOMAIN sizes[c] : Writes(Arguments(c)[j].access)}}
ScratchBytes(c) == Bytes(WorkspaceInterval(c))

Answer(c, code) ==
  /\ status' = [status EXCEPT ![c] = code]
  /\ pc' = [pc EXCEPT ![c] = "returned"]
  /\ UNCHANGED <<scenario, memory, sizes, owner, written>>

Goto(c, label) ==
  /\ pc' = [pc EXCEPT ![c] = label]
  /\ UNCHANGED <<scenario, memory, owner, written, status>>
-----------------------------------------------------------------------------
(* CPU dispatch.                                                           *)
CpuSupports(variant) ==
  CASE variant = "scalar" -> TRUE
    [] variant = "avx2"   ->
         {"avx", "fma", "avx2", "os_ymm_state"} \subseteq scenario.features
    [] variant = "avx512" ->
         {"avx", "fma", "avx512f", "os_ymm_state", "os_zmm_state"}
           \subseteq scenario.features

SelectVariant(compiled) ==
  IF "avx512" \in compiled /\ CpuSupports("avx512") THEN "avx512"
  ELSE IF "avx2" \in compiled /\ CpuSupports("avx2") THEN "avx2"
  ELSE "scalar"

(* execute picks the variant, execute_variant is given one.                *)
Variant(c) == IF scenario.variant[c] = "auto"
              THEN SelectVariant(Executable(c).compiled)
              ELSE scenario.variant[c]

VariantStatus(c) ==
  IF Target(c) \notin DOMAIN scenario.executables THEN "kInvalidArgument"
  ELSE IF Variant(c) \notin Executable(c).compiled THEN "kInvalidArgument"
  ELSE IF ~ CpuSupports(Variant(c)) THEN "kUnsupportedCpuFeature" ELSE "ok"

CheckVariant(c) ==
  /\ pc[c] = "enter"
  /\ IF VariantStatus(c) = "ok"
     THEN Goto(c, "pointers") /\ UNCHANGED sizes
     ELSE Answer(c, VariantStatus(c))

(* Every argument has a pointer, not null (address 0) and aligned.         *)
PointersValid(c) ==
  \A i \in DOMAIN Arguments(c) :
    /\ Arguments(c)[i].uid \in DOMAIN scenario.pack[c]
    /\ Pointer(c, i) # 0
    /\ Pointer(c, i) % Arguments(c)[i].alignment = 0

CheckPointers(c) ==
  /\ pc[c] = "pointers"
  /\ IF PointersValid(c)
     THEN Goto(c, "ranges") /\ UNCHANGED sizes
     ELSE Answer(c, "kInvalidVariantPack")
-----------------------------------------------------------------------------
(* resolve_ragged_size: the caller's prefix tensor gives the span that the *)
(* call uses.  A ragged argument names its offset and sequence tensors;    *)
(* its inner layout has one element per position.                          *)
Offset(c, a, b) == IntegerIn(memory[scenario.pack[c][a.offset] + b])
SequenceLength(c, a, b) == IntegerIn(memory[scenario.pack[c][a.sequence] + b])

(* static_cast<std::uint64_t>(end - start)                                 *)
Unsigned(n) == n % (UIntPtrMax + 1)

RaggedValid(c, a) ==
  /\ Offset(c, a, 0) = 0
  /\ \A b \in 0..(a.batches - 1) :
       /\ 0 <= Offset(c, a, b)
       /\ Offset(c, a, b) <= Offset(c, a, b + 1)
       /\ Offset(c, a, b + 1) <= a.size
       /\ SequenceLength(c, a, b) \in 0..a.bound
       /\ SequenceLength(c, a, b) <=
            Unsigned(Offset(c, a, b + 1) - Offset(c, a, b))

ResolvedSize(c, a) ==
  IF a.ragged THEN Offset(c, a, a.batches) ELSE a.size

(* One argument of the loop that builds the intervals.                     *)
ResolveRange(c) ==
  /\ pc[c] = "ranges"
  /\ Len(sizes[c]) < Len(Arguments(c))
  /\ LET i == Len(sizes[c]) + 1
         a == Arguments(c)[i]
     IN IF a.ragged /\ ~ RaggedValid(c, a)
        THEN Answer(c, "kInvalidVariantPack")
        ELSE IF Pointer(c, i) + ResolvedSize(c, a) > UIntPtrMax
        THEN Answer(c, "kDimensionOverflow")
        ELSE /\ sizes' = [sizes EXCEPT ![c] = Append(@, ResolvedSize(c, a))]
             /\ Goto(c, "ranges")

(* Fault: only two writable arguments are compared.                        *)
ArgumentsAliasWrites(c) ==
  \E i, j \in DOMAIN Arguments(c) :
    /\ i < j
    /\ Overlaps(ArgumentInterval(c, i), ArgumentInterval(c, j))
    /\ Writes(Arguments(c)[i].access) /\ Writes(Arguments(c)[j].access)

ArgumentsAlias(c) ==
  \E i, j \in DOMAIN Arguments(c) :
    /\ i < j
    /\ Overlaps(ArgumentInterval(c, i), ArgumentInterval(c, j))
    /\ Writes(Arguments(c)[i].access) \/ Writes(Arguments(c)[j].access)

CheckAliases(c) ==
  /\ pc[c] = "ranges"
  /\ Len(sizes[c]) = Len(Arguments(c))
  /\ IF ArgumentsAlias(c)
     THEN Answer(c, "kInvalidVariantPack")
     ELSE Goto(c, "workspace") /\ UNCHANGED sizes

(* Fault: the workspace is compared with the writable arguments only.      *)
WorkspaceStatusWrites(c) ==
  IF Executable(c).workspace = 0 THEN "ok"
  ELSE IF Workspace(c) = 0 \/ Workspace(c) % Executable(c).alignment # 0
  THEN "kInvalidVariantPack"
  ELSE IF WorkspaceInterval(c).end > UIntPtrMax THEN "kDimensionOverflow"
  ELSE IF \E i \in DOMAIN Arguments(c) :
            /\ Writes(Arguments(c)[i].access)
            /\ Overlaps(ArgumentInterval(c, i), WorkspaceInterval(c))
  THEN "kInvalidVariantPack" ELSE "ok"

(* The workspace is looked at when the plan needs one.                     *)
WorkspaceStatus(c) ==
  IF Executable(c).workspace = 0 THEN "ok"
  ELSE IF Workspace(c) = 0 \/ Workspace(c) % Executable(c).alignment # 0
  THEN "kInvalidVariantPack"
  ELSE IF WorkspaceInterval(c).end > UIntPtrMax THEN "kDimensionOverflow"
  ELSE IF \E i \in DOMAIN Arguments(c) :
            Overlaps(ArgumentInterval(c, i), WorkspaceInterval(c))
  THEN "kInvalidVariantPack" ELSE "ok"

CheckWorkspace(c) ==
  /\ pc[c] = "workspace"
  /\ IF WorkspaceStatus(c) = "ok"
     THEN Goto(c, "lock") /\ UNCHANGED sizes
     ELSE Answer(c, WorkspaceStatus(c))
-----------------------------------------------------------------------------
(* std::lock_guard on invoke_mutex, then the kernel.                       *)
(* Fault: the lock is not waited for.                                      *)
EnterKernelUnlocked(c) ==
  /\ pc[c] = "lock"
  /\ owner' = [owner EXCEPT ![Target(c)] = c]
  /\ pc' = [pc EXCEPT ![c] = "kernel"]
  /\ UNCHANGED <<scenario, memory, sizes, written, status>>

EnterKernel(c) ==
  /\ pc[c] = "lock"
  /\ owner[Target(c)] = 0
  /\ owner' = [owner EXCEPT ![Target(c)] = c]
  /\ pc' = [pc EXCEPT ![c] = "kernel"]
  /\ UNCHANGED <<scenario, memory, sizes, written, status>>

(* The compiled object code (external): it fills its workspace from the    *)
(* arguments it only reads, then its writable arguments from both, a byte  *)
(* at a time in any order.                                                 *)
Joined(part) ==
  FoldLeft(LAMBDA acc, a : acc \o part[a], <<>>, SetToSortSeq(DOMAIN part, <))
Cells(S, contents) == Joined([a \in S |-> contents[a]])

ReadBytes(c) ==
  UNION {Bytes(ArgumentInterval(c, i)) :
           i \in {j \in DOMAIN sizes[c] : ~ Writes(Arguments(c)[j].access)}}

ScratchValue(c, contents) == <<Target(c)>> \o Cells(ReadBytes(c), contents)

OutputValue(c, a, contents) ==
  <<Target(c), a>> \o Cells(ScratchBytes(c), contents)
                   \o Cells(ReadBytes(c), contents)

KernelWrite(c) ==
  /\ pc[c] = "kernel"
  /\ \E a \in (ScratchBytes(c) \cup OutputBytes(c)) \ written[c] :
       /\ a \in OutputBytes(c) => ScratchBytes(c) \subseteq written[c]
       /\ memory' = [memory EXCEPT ![a] =
                       IF a \in OutputBytes(c)
                       THEN OutputValue(c, a, memory)
                       ELSE ScratchValue(c, memory)]
       /\ written' = [written EXCEPT ![c] = @ \cup {a}]
  /\ UNCHANGED <<scenario, pc, sizes, owner, status>>

(* Fault: the mutex stays locked.                                          *)
KernelReturnsLocked(c) ==
  /\ pc[c] = "kernel"
  /\ ScratchBytes(c) \cup OutputBytes(c) = written[c]
  /\ status' = [status EXCEPT ![c] = "ok"]
  /\ pc' = [pc EXCEPT ![c] = "returned"]
  /\ UNCHANGED <<scenario, memory, sizes, owner, written>>

KernelReturns(c) ==
  /\ pc[c] = "kernel"
  /\ ScratchBytes(c) \cup OutputBytes(c) = written[c]
  /\ owner' = [owner EXCEPT ![Target(c)] = 0]
  /\ status' = [status EXCEPT ![c] = "ok"]
  /\ pc' = [pc EXCEPT ![c] = "returned"]
  /\ UNCHANGED <<scenario, memory, sizes, written>>

(* An ExecutionEngine may fail to resolve the entry symbol.                *)
EngineFails(c) ==
  /\ pc[c] = "kernel"
  /\ Executable(c).engine
  /\ written[c] = {}
  /\ owner' = [owner EXCEPT ![Target(c)] = 0]
  /\ status' = [status EXCEPT ![c] = "kGraphExecutionFailed"]
  /\ pc' = [pc EXCEPT ![c] = "returned"]
  /\ UNCHANGED <<scenario, memory, sizes, written>>
-----------------------------------------------------------------------------
Init ==
  /\ scenario \in Scenarios
  /\ memory = scenario.memory
  /\ pc = [c \in Calls |-> "enter"]
  /\ sizes = [c \in Calls |-> <<>>]
  /\ owner = [e \in DOMAIN scenario.executables |-> 0]
  /\ written = [c \in Calls |-> {}]
  /\ status = [c \in Calls |-> "none"]

Step(c) ==
  \/ CheckVariant(c)
  \/ CheckPointers(c)
  \/ ResolveRange(c)
  \/ CheckAliases(c)
  \/ CheckWorkspace(c)
  \/ EnterKernel(c)
  \/ KernelWrite(c)
  \/ KernelReturns(c)
  \/ EngineFails(c)

Next == \E c \in Calls : Step(c)

(* A thread that can run is run; each thread makes one call, so a waiting  *)
(* thread finds the mutex free for good once the others have answered.     *)
Spec == Init /\ [][Next]_vars /\ \A c \in Calls : WF_vars(Step(c))
-----------------------------------------------------------------------------
(* The kernels of one Executable never run at the same time, so calls that *)
(* share it may also share a workspace.                                    *)
KernelExclusion ==
  \A c, d \in Calls :
    pc[c] = "kernel" /\ pc[d] = "kernel" /\ Target(c) = Target(d) => c = d

(* What a call learned from the ragged prefix before it took the mutex     *)
(* still holds when the kernel uses it: no write, of its own outputs, its  *)
(* workspace or another call, has reached the prefix in between.           *)
PrefixStillValid ==
  \A c \in Calls :
    pc[c] \in {"workspace", "lock", "kernel"} =>
      \A i \in DOMAIN Arguments(c) :
        LET a == Arguments(c)[i]
        IN a.ragged => /\ RaggedValid(c, a)
                       /\ Offset(c, a, a.batches) = sizes[c][i]

(* Every call answers, however the calls interleave.                       *)
EveryCallReturns == \A c \in Calls : <>(pc[c] = "returned")
-----------------------------------------------------------------------------
(* Calls look atomic: while a kernel runs, its outputs are still what they *)
(* were, and the contents of a workspace are nobody's business.            *)
Hidden(a) ==
  \E c \in Calls :
    \/ pc[c] = "kernel" /\ a \in OutputBytes(c)
    \/ /\ pc[c] = "kernel" \/ status[c] = "ok"
       /\ a \in ScratchBytes(c)

VisibleMemory ==
  [a \in DOMAIN memory |-> IF Hidden(a) THEN scenario.memory[a]
                           ELSE memory[a]]

Answered == {c \in Calls : pc[c] = "returned"}
Succeeded == {c \in Calls : status[c] = "ok"}

Atomic == INSTANCE AtomicCalls
            WITH memory <- VisibleMemory, answered <- Answered,
                 succeeded <- Succeeded

(* Calls with separate outputs and workspaces (or one workspace, on one    *)
(* Executable) behave as if each ran alone, all at once.                   *)
ImplementsAtomicCalls == Atomic!AtomicSpec
=============================================================================
