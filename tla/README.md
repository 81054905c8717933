# A TLA+ model of DeepForge

DeepForge compiles serialized cuDNN-frontend graphs to native CPU code and
runs them.  This directory holds TLA+ modules that model the parts of it whose
correctness depends on the order of steps, on sharing of memory or files, or on
arithmetic near the limits of a word; TLC configurations that check them on
small instances; and proofs, checked by TLAPS, of the facts that hold for every
instance.  Source paths below are relative to `src/`.

## 1. The system

A call of `deepforge-compile` or of the library goes through these parts.

| part | source | state it keeps | operations |
|------|--------|----------------|------------|
| importer | `lib/Import/*` | the `SerializedGraph` being filled | decode JSON/UBJSON, check shapes, attributes, references between nodes and tensors |
| foundational graph builder | `lib/Compiler/FoundationalGraph.cpp` and the `*Graph.cpp` kernels | usage of each tensor, argument table, workspace requests | analyse, plan, bind views, emit one kernel per node in document order |
| convolution path | `lib/MLIR/Conv2DImporter.cpp`, `lib/Transforms/BufferizationPipeline.cpp`, `lib/Compiler/ScalarLowering.cpp`, `Schedule.cpp` | MLIR module, allocation records | import, bufferize, plan, rewrite to views, verify, schedule and lower per CPU |
| workspace planner | `lib/Transforms/WorkspacePlanner.cpp` | allocations placed so far | `plan_workspace` |
| compiler driver | `lib/Compiler/Compiler.cpp` | the `CompilationResult` of the call | compile three CPU variants, load them, strip what was not asked for |
| runtime | `lib/Runtime/Executable.cpp`, `GraphMetadata.cpp` | entry points, metadata, plan, `invoke_mutex` | `load_object_executable`, `execute`, `execute_variant`, overrides, alias checks |
| artifacts | `lib/Compiler/Artifact.cpp` | nothing in memory; a file | serialize, parse, publish by rename, read, load |
| tools | `tools/*.cpp` | command line | `deepforge-compile`, `deepforge-benchmark` |

How they interact:

- The importer hands a checked graph to the driver.  A graph that is a single
  forward convolution takes the convolution path, all others the foundational
  builder.  Both call the planner once and keep its `WorkspacePlan`.
- The plan is shared state of three parts: the compiler bakes the offsets into
  object code, the artifact stores the plan, and the runtime checks the
  caller's workspace pointer against its size and alignment.
- The runtime is the only concurrent part.  Threads call `execute` on shared
  Executables; everything but the kernel runs outside the mutex, on memory the
  callers own.
- Artifacts are the only persistent state.  Processes meet on a destination
  path, crash and restart.

What is hard, and where:

- *Sharing of bytes.*  Virtual tensors with disjoint lifetimes share workspace
  bytes; lifetimes are closed intervals of node numbers taken from document
  order (planner, builder, bufferization).
- *Limits.*  Alignment and additions near `UINT64_MAX`, totals near
  `INT64_MAX`, pointer ranges near `UINTPTR_MAX`.
- *Checks outside the lock.*  Ragged prefixes are read from caller memory
  before the mutex is taken (runtime).
- *Crashes and rename.*  Temporaries survive a crash and a removal that fails
  unnoticed, pids and counters come back after a restart (artifacts).
- *Index arithmetic.*  Every kernel computes the index of each load: strides,
  padding, broadcasting, groups, ragged prefixes, pages, nibbles that share a
  byte, extents that are known only when the kernel runs.
- *Documents of others.*  Serialized graphs and artifacts come from files; what
  is accepted must mean one thing and satisfy what later parts assume.
- *Any step fails.*  Outputs of the library are to be untouched by a failed
  call, files by a failed command (driver, tools).

What makes each part correct is stated as the properties of section 3; the
complete list of hazards, each at its line, is in `PROJECT.json`.

## 2. The modules

Memory, files, callers and steps that fail:

| module | models | variables and actions |
|--------|--------|-----------------------|
| `WorkspacePlanner` | `plan_workspace` | one action per turn of its loops: `ValidateRequest`, `RejectRequest`, `SortRequests`, `TakeRequest`, `PlaceRequest`, `BumpCandidate`, `OverflowCandidate`, `FinishPlan`, `OverflowPlan`; `candidate`, `allocations` and `plan` are the function's variables, `remaining` and `current` the position in the sorted list |
| `Dataflow` | abstract: a graph whose tensors each have storage of their own | elements of outputs computed in any order within a node |
| `GraphCompile` | `validate_graph_references`, `analyze_graph`, view binding | node by node; instantiates the planner's `plan_workspace` as its plan stage |
| `GraphExecution` | the compiled function | `RunElement` writes one element of one output through its view of the workspace; refines `Dataflow` |
| `AtomicCalls` | abstract: calls on Executables take effect all at once | |
| `RuntimeExecute` | `execute`, `execute_variant` | one action per stretch between two points where another thread can be noticed; refines `AtomicCalls` |
| `PublishedArtifact` | abstract: the destination path is an atomic register of artifacts | |
| `ArtifactPublish` | `write_artifact`, `read_artifact`, `unique_temporary_path` | names, inodes and open handles; one action per system call, `Crash` of a process; refines `PublishedArtifact` |
| `BufferizationPipeline` | `bufferize_and_plan_conv2d` after one-shot bufferization | collect, plan, rewrite, verify; instantiates the planner twice over (the plan and the verification) |
| `CompileGraph` | `compile_file`, `compile_graph`, `compile_foundational_graph`, `load_object_executable` | the variant loops, one action per variant, `StepFails` wherever MLIR, LLVM or the file system may fail; several calls into one result |
| `CompileTool` | `run` of `deepforge-compile` | derived options, dumps, output and exit code, around the compilation of `CompileGraph` |

Documents and files:

| module | models | variables and actions |
|--------|--------|-----------------------|
| `SerializedImport` | `SerializedGraphImporter`: file, carrier, root, context, tensors, scalars, nodes, embedded tensors, references, the convolution compiled on its own | `ReadFile`, `DecodeJson`, `DecodeUbjson`, `RefuseCarrier`, `ReadRoot`, `ReadTensors`, `ReadScalars`, `ParseNode` per node, `CheckReferences`, `Finish`; `document`, and the graph as far as it is built |
| `ArtifactContract` | `validate_contract`, `validate_graph_compile_metadata`: what an artifact may say | operators |
| `ArtifactFormat` | `serialize_artifact` with the writers of eleven older versions, `parse_artifact` | an artifact is a sequence of typed fields, a file their encoding; one action per section or entry that is read, `ReadHeader` to `FinishParse`; the file is left whole, changed, cut or extended first |

Layouts, numbers, kernels:

| module | models | variables and actions |
|--------|--------|-----------------------|
| `TensorLayout` | element counts, packed and reordered strides, `tensor_storage_bytes`, `has_non_overlapping_layout`, the block layout of scales | operators and recursive functions |
| `Fractions` | exact numbers with signed zeros, infinities and NaN | operators |
| `OverridePolicies` | which graphs may take shapes at run time and what each of the eight policies asks of them, at compile time and per call | operators |
| `ShapeOverride` | a graph compiled once and called with chosen shapes; the loops emitted for the operations that have a policy | `Compile`, `RefuseGraph`; `Override` and `RejectOverride` per entry of the lists, `RejectLists`, `RejectShapes`, `AcceptShapes`; `RunNode` per node |
| `ElementKernels` | SLICE, POINTWISE, RESAMPLE, RNG, ROPE, ROPE_BWD, from validation on | `Validate`, `Refuse`, `StoreElement` per element, `Finish` |
| `AttentionDecode` | which SDPA and SDPA_BWD nodes are accepted | operators |
| `AttentionStorage` | their loops on plain, ragged and paged tensors, with the ragged check before the call | `ValidateSequenceOperation`, `EmitAttention`, `Launch` (the ragged check), `Iterate` per turn of a loop |
| `LowPrecision` | decode tables, the search that encodes, scales, packed nibbles, reordered scales | operators |
| `SpecializedKernels` | block quantization and dequantization, `MATMUL_FP8`, grouped expert products and their gradient | `ValidateSpecializedOperation`, `EmitSpecializedOperation`, `Iterate` per store |
| `NormalizationKernels` | the fourteen normalizations, statistics and gradients | `ValidateNormalizationOperation`, `EmitNormalizationOperation`, `Iterate` per turn of a loop |
| `TrainingConvolution` | `CONV_FPROP`, `CONV_DGRAD`, `CONV_WGRAD` | `ValidateTrainingOperation`, `EmitTrainingOperation` (which decodes again), `FpropElement`, `DgradElement`, `WgradElement`, `LoopEnds` |
| `DirectConvolution` | a convolution on its own: import, schedule, vector loops | `ImportConv2d`, `VerifyConv2dModule`, `SelectConv2dSchedule`, `LowerConv2dVariant`, then `PadInput`, `ScalarElement`, `VectorBlock`, `VectorTail`, `Return` |

`*_proofs` hold the theorems of section 4, `MC*` the instances for TLC: inputs
as finite sets, and the modules that compose.

Composition.  `GraphExecution` EXTENDS `GraphCompile`, which EXTENDS the
planner; `BufferizationPipeline` instantiates it; so a fault in the planner
breaks `ImplementsDataflow` of a whole compiled graph, which is how the runs
exercise it.  `CompileTool` EXTENDS `CompileGraph`, and `MCCompileTool` adds the
two other users of a compilation's result: a program that compiles twice into
one result, and a reader of the artifact that was written.  `ArtifactFormat`
EXTENDS `ArtifactContract`, which EXTENDS `OverridePolicies`, so compiler, file
and runtime share one statement of the policies.  `AttentionStorage` EXTENDS
`AttentionDecode`, `SpecializedKernels` EXTENDS `LowPrecision`.  `MCGraphKernels` EXTENDS
`BufferizationPipeline` and holds the families of kernels and the importer
beside it, by INSTANCE: a behaviour belongs to one family.

Abstractions, by part:

- *Graphs.*  A tensor is a number with a byte size, an element is a byte, and a
  computed value is the tuple of what it was computed from, so that reading a
  stale byte yields a different value whatever the kernel computes.
- *Overrides.*  A value is a term: the function, how many elements it averages
  over, and the set of operand tuples; ports are in the order in which the
  policy's roles are listed.  The compiler's and the runtime's copies of a rule
  about shapes are one operator where the two texts agree and two where they
  do not (reduction).
- *Importer.*  Five of the 39 schemas, chosen so that each rule of a schema
  bites.  Words are scaled: `int64` has 15 bits, `int32` seven, a file eight
  bytes, a document four levels, a tensor five axes.  What nlohmann makes of
  the bytes of a carrier is an outcome.  Objects visit their members in the
  order of keys; where that only decides which of several faults is reported,
  the code may be that of any of them.
- *Artifacts.*  A file is a payload of units and a checksum, which stands for
  the payload it was computed from (an ideal hash).  A `uint32` is one unit, a
  `uint64` two, a letter one.  Limits of 4096 entries never bite in a run; the
  proofs hold for files of any length and for every artifact.  The tolerances
  and the three producers' names are one fixed value each.
- *Convolutions and attention.*  A sum is the set of the terms added to it, so
  a term left out or added twice shows; NaN and infinities do not occur.
  Vectors of 8 and 16 floats are vectors of two and four, the tile of 128
  elements is of one.  Attention graphs have one node; a port that shares its
  uid with another is named for one of them.
- *Numbers.*  Arithmetic is exact where that of f32 rounds; the differences
  that decide which code the encoder keeps are exact in f32 too (Sterbenz).
  `FP8_E5M2` and `FP8_E8M0` have four bits of exponent, HALF and BFLOAT16 are
  exact.  A negative value that rounds to zero gives +0.  The search by halves
  is taken to equal a sequential one.  Square roots are taken of squares only:
  the data are chosen so; the clamp of a negative variance never bites, and
  `ACCUM_COUNT` is the channel's element count.  `cos` and `sin` are tables of
  rational values, and whether a counter of the Bernoulli generator is drawn is
  a set: what is checked is which counter each element draws.
- *Experts.*  `FirstTokenOffset` is taken as the documents demand it,
  nonnegative, nondecreasing, at most T.  The override loop of
  dequantization is in `ShapeOverride`.
- *Layouts.*  Normalizations and training convolutions are addressed by index;
  element types and aliasing of their ports are checked by
  `FoundationalGraph.cpp:1834-1906` for all operations, as in `HasPorts` of
  `ElementKernels`.
- MLIR and LLVM passes are steps that succeed or fail.  An error is its code or
  its subject, never its text.

Definitions whose comment starts with "Fault:" are variants of a definition of
the code with a plausible bug; no specification uses them, and each one makes
the property it belongs to fail, which is the evidence that the property says
something.

## 3. The runs

| run | what it checks | bounds |
|-----|----------------|--------|
| `workspace_planner` | `TypeOK`; `NoLiveOverlap`: live together means no common byte; `PlanInBounds`: aligned, inside a size that fits `int64`; `PlanCoversRequests`; `NoLowerFit`: really first fit; `OverflowIsGenuine`; `CallReturns` | words of 8 bits, so that three requests reach `UINT_MAX` and `INT_MAX`; up to three requests of three sizes, two alignments, all lifetimes in 1..3 and all orders of names; pairs of malformed requests |
| `graph_execution` | `AccessCoversUse`: an argument is "read" only if no node writes it (reads may alias at run time); `RejectedOnlyIfIllFormed`: what is refused is ill formed or does not fit, and what is ill formed is refused; `ImplementsDataflow`: a graph over shared workspace bytes computes what it computes over separate storage | every graph of two nodes over three tensors, most of them ill formed, and odd ones; chains of four nodes with every choice of inputs and three choices of sizes, forks with two virtual outputs |
| `runtime_execute` | `KernelExclusion`, `PrefixStillValid` (what was read from a ragged prefix before the mutex still holds inside the kernel), `ImplementsAtomicCalls`, `EveryCallReturns` | 16 addresses; one call with every placement of its pointers, every ragged prefix, and every CPU; three interleaved calls on two Executables |
| `artifact_publish` | `DestinationWhole`, `NoSharedTemporary`, `LeftoversApart` (a temporary that no call is using was left by a crash or by a removal that failed, and leads to a file that is neither published nor read), `ImplementsRegister`, `CallsEnd` | two processes, three writers, one reader, artifacts of two blocks; crashes at any time, after which the pid returns and the counter restarts; opening, writing, renaming and removing may each fail |
| `shared_pid` | `DestinationWhole`, *violated* | as above with one pid for both processes |
| `compile_tool` | of a library's call `ResultRunsEverywhere` and `RefusedForAReason`; of the command `NothingAskedIsMissing` and `ExitTellsWhatIsPublished`; of the file `WrittenIsRead` (what any version's writer wrote is read back as that version could say it), `AcceptedIsCanonical` (what is accepted is what the writer writes for its contents) and `AcceptedPlanIsSound` | all 16 combinations of options, two calls into one result, any step failing; up to two dumps of three stages to two paths, one of which may be the output; contracts of each policy, twelve versions, a unit changed, the tail cut or extended, with and without a checksum that fits |
| `scalar_only` | `ScalarOnlyCompiles`, *violated* | one call |
| `long_name` | `SerializedCanBeRead`, *violated* | one contract whose name is longer than the reader's limit |
| `graph_kernels` | one property or two for each family, below | 220 thousand states |
| `lone_magnitude` | `ReductionMatchesReference`, *violated* | `NORM1` reductions with and without a reduced axis |
| `packed_pages` | `LoadsStayInSpan`, *violated* | attention over plain containers with compact ragged page tables |
| `late_payload` | `PayloadsAreListed`, *violated* | documents whose node lists a tensor with a payload |

The families of `graph_kernels`:

| family | properties | bounds |
|--------|------------|--------|
| import | `AcceptedHoldsDocument`: an accepted graph says what its document says, each tensor in one way; `ConvolutionIsLowerable`: what goes to the convolution path satisfies what that path assumes | documents of each kind and every one that differs from them in one value or member; convolutions with every output size, strides of an image or a row apart; files that fail, grow or are cut |
| override | `AccessesStayInside`: what a loop loads or stores exists in this call's extents and lies in the bytes the call resolved, those planned for a virtual tensor included; `OutputIsReference`: each element stored is what the operations mean at the place the runtime strides give it, and no other slot is touched | a graph of each policy, one of fixed shapes, twelve that do not compile; every subset of the shapes and strides offered, entries no policy can take among them; words end at 65535, so that a stride of 2048 overflows the byte count |
| attention | `AttendsExactly`: outputs and gradients hold the terms of masked attention over the caller's memory, no more and no fewer; `DataStaysInSpan`: with ragged and paged tensors too, no access leaves its tensor | two batches of up to three positions, grouped heads, windows with and without lengths, empty sequences, each tensor ragged, pages of keys or values or both, biases, sinks, dropouts, a block mask of nine tiles |
| specialized | `SpecializedIsReference`: a node stores the codes of the numbers that the operation means | rows of two blocks with ties, saturation, zeros, infinities and NaN; padded and permuted packed layouts; experts without tokens, extents that end a batch early |
| normalization | `NormalizationIsReference`: values, statistics and gradients agree with their definitions and fused nodes with split ones | cubes of eight elements with each shape of scale and statistics |
| elements | `ElementsAreReference`: slices, elementwise nodes, windows, random bits and rotations store what they mean and nothing else | one to three axes of up to six elements; windows with a remainder, hanging over or wholly in the padding, all three paddings; 49 pairs of operand layouts with two of the output; counters that pass the end of the word |
| training | `GradientsAreAdjoint`: the gradient loops visit the products of the forward one | one to three dimensions, groups, strides, dilations, asymmetric padding, both modes |
| direct | `KernelConvolves`: each CPU's loops compute the padded convolution and stay inside; `EstimateCountsLoads`: the cost model counts the loads that are executed | up to seven channels into up to nine, each policy and CPU |
| bufferize | `OwnPlanVerifies`: planning a plan's own allocations gives the plan; `ContentsKept`: a buffer's contents are there at each use | bodies with three allocations, interleaved with uses or up front, every choice of operands |

Why the bounds are enough.  Three requests suffice for each of the planner's
decisions: one placed, one that conflicts, and one that fits between or after.
Two nodes meet in every order of producing and reading; four are needed for a
tensor that is dead, one that takes its bytes and one that is still live.  Two
writers collide on a name and the third belongs to another process; two blocks
give a partial file.  Kernels treat their elements alike but at boundaries, so
their shapes are the least that have an interior, both boundaries and a
remainder: axes of extents up to four tell the axes, and a packed layout from a
permuted or padded one, apart; the scaled product needs K of 64 and of 80, on
the two sides of a step in the number of scale columns.  A reader or the
importer treats one field at a time, so one change to a document that is
accepted reaches each refusal.  Facts that must hold beyond the bounds are the
subject of section 4.

Fairness.  `CallReturns`, `EveryCallReturns` and `CallsEnd` assume weak fairness
of the next-state relation of one thread (planner) or of each thread
(`RuntimeExecute`, `ArtifactPublish`): the scheduler eventually runs a thread
that can run.  A thread waiting for the mutex needs no more, because each caller
makes one call and the mutex stays free once the others have returned.  Nothing
is assumed of the file system but that an operation ends: each may fail, the
removal of a temporary included, whose error `write_artifact` ignores
(`Artifact.cpp:1038` and 1046; label `uncleaned` of a writer, which its caller
cannot tell from `failed`).  A writer that crashes is not required to run
again.  Deadlock checking is off because all of these
systems stop when their calls have returned.

Six runs refute what a document, a comment or a test says.

- `shared_pid`: the name of a temporary is made of the path, the pid and a
  counter of the process.  Two processes of different PID namespaces (two
  containers on a shared directory) with the same pid and counter use one
  temporary, opened with truncation: one publishes the file the other has just
  truncated.  `docs/user-guide.en.md:314-316` says that concurrent writes
  cannot publish a partial file.
- `scalar_only`: with `build_avx_variants` off the driver leaves the AVX2 and
  AVX-512 objects empty and `load_object_executable` refuses empty objects, so
  no convolution compiles.  The comment at `Codegen.h:50-51` describes the
  option as one that only leaves variants out.
- `long_name`: `append_string` writes texts of up to 2^32 - 1 bytes
  (`Artifact.cpp:77-84`), `read_string` refuses those over 1 MiB
  (`Artifact.cpp:145`), so a file can be published that cannot be read.
  `docs/artifact-format.en.md:7-9` says that it stores what restores an
  Executable, and names no limit for strings (48-49).
- `lone_magnitude`: `emit_reduction` copies its operand when no axis is reduced
  at compile time (`FoundationalGraph.cpp:3031-3038`), so a row of one element
  keeps its sign under `NORM1`.  The test's own reference
  (`test/Compiler/FoundationalMathOpsTest.cpp:588-604`) takes the magnitude of
  every element of a row; no case of it has rows of one element.  `AMAX` and
  `NORM2` keep the sign too, and `MUL_NO_ZEROS` a lone zero.
- `packed_pages`: a load is put under its condition only when the container is
  ragged (`SequenceGraph.cpp:1926`), and the guard at 2212 looks at Q and K, so
  with a ragged page table and a plain container the page of a masked key is
  loaded (1860), from behind the end of a compact table for the last batch.
  `docs/user-guide.en.md:657-658` and 694-696 make a compact allocation valid,
  and `test/Compiler/SequenceOpsTest.cpp:2117` claims exact allocation.
- `late_payload`: `pass_by_values` is matched with the payloads of the table
  (`SerializedGraphImporter.cpp:2041`) before the nodes' lists add theirs
  (1213), so a payload that is only in a list needs no entry, and with an entry
  the document is refused.  `docs/design/contracts.en.md:55` asks for exactly
  one entry per payload.

Read on the way, and not the subject of a run.  `deepforge-compile --inspect`
prints the format version the program writes, not that of the file.
`parameter_stats_shape` (`NormalizationGraph.cpp:186`) indexes the extents of
the scale by the rank of X before the ranks are compared, and so reads past the
end of a shorter scale; `NormalizationKernels` lets that read end the compiler
or go on to the refusal that follows (`ReadsPastScale`).  An average that
excludes padding includes it when the padding repeats the edge
(`FoundationalGraph.cpp:3476-3482`); `ElementKernels` takes this as meant.

## 4. The proofs

| theorem | module | statement |
|---------|--------|-----------|
| `TypeCorrect`, `LiveAllocationsDisjoint`, `PlanWithinBounds`, `PlanComplete`, `FirstFit`, `OverflowGenuine` | `WorkspacePlanner_proofs` | `Spec => []P` for `TypeOK`, `NoLiveOverlap`, `PlanInBounds`, `PlanCoversRequests`, `NoLowerFit`, `OverflowIsGenuine` |
| `VerifierAgrees`, `BuffersKeepContents` | `BufferizationPipeline_proofs` | `PipelineSpec => []OwnPlanVerifies` and `PipelineSpec => []ContentsKept`, when bodies are sequences of operations that use a buffer after its allocation (`BodiesWellFormed`) and the words are as the planner assumes (`WordWidths`) |
| `AccessCovers`, `RejectionHasReason`, `SharingIsInvisible` | `GraphExecution_proofs` | `CompileSpec => []P` and `ExecutionSpec => []P` for `AccessCoversUse` and `RejectedOnlyIfIllFormed`, and the refinement `ExecutionSpec => ImplementsDataflow` |
| `KernelsExclude`, `PrefixesStayValid`, `CallsAreAtomic` | `RuntimeExecute_proofs` | `Spec => []KernelExclusion`, `Spec => []PrefixStillValid`, and the refinement `Spec => ImplementsAtomicCalls` |
| `NothingUnread`, `RestoredPlanIsSound` | `ArtifactFormat_proofs` | `FormatSpec => []P` for `AcceptedIsCanonical`, `AcceptedPlanIsSound` |
| `WrittenGivesBack` | `CompiledArtifact_proofs` | `FormatSpec => []WrittenIsRead` |
| `TemporariesUnique` | `ArtifactPublish_proofs` | `Spec => []NoSharedTemporary`, when processes have different pids |
| `DestinationAlwaysWhole`, `LeftoversStayApart`, `PublishingImplementsRegister` | `ArtifactPublish_proofs` | `Spec => []P` for `DestinationWhole` and `LeftoversApart`, and `Spec => ImplementsRegister`, when processes have different pids, none of them 0, and the value for "no file" is none of the others |
| `ResultsRun`, `RefusalsHaveReasons` | `CompiledArtifact_proofs` | `CompileSpec => []P` for `ResultRunsEverywhere`, `RefusedForAReason` |
| `NothingAskedMissing`, `ExitIsTruthful` | `CompiledArtifact_proofs` | `ToolSpec => []P` for `NothingAskedIsMissing`, `ExitTellsWhatIsPublished` |
| `KernelsAreAdjoint` | `ConvolutionKernels_proofs` | `TrainingSpec => []GradientsAreAdjoint`, when extents are positive, elements can be counted in 63 bits and attributes are integers (`NodesWellFormed`) |
| `KernelAdvances`, `KernelIsConvolution`, `EstimateIsExact` | `ConvolutionKernels_proofs` | `DirectSpec => []DirectInv`, `DirectSpec => []KernelConvolves` and `DirectSpec => []EstimateCountsLoads`, when graphs have the shape the parser gives them (`GraphsWellFormed`) and vectors have more than one lane (`TargetFacts`) |

*Planner.*  Assumptions: the inputs are sequences of requests, the limits are
naturals and the signed limit does not exceed the unsigned one.  The inductive
invariant `IInv` adds to the checked properties: the requests before `checked`
are well formed and have different names (`ValidatedPrefix`); each phase of the
call determines which variables are still initial (`PhaseInv`); each allocation
comes from the request of its name and lies below the unsigned limit
(`PlacedInv`); the requests still to place are exactly those without an
allocation (`TakenPlaced`); the plan is empty until the last step (`OutputInv`).
`NoLowerFit` is part of it because `OverflowIsGenuine` needs to know, at the
moment the candidate stops fitting, that all lower places were occupied; the
step from one candidate to the next uses the lemma `AlignedGap`, that no
multiple of a power of two lies between a number and the result of
`AlignUp`.

*Bufferization.*  Any function body.  The planner's steps inside the pipeline
are those of `WorkspacePlanner_proofs`, taken by INSTANCE (`SamePlanner`), so
its invariant holds in both plannings.  `ContentsKept` then follows from three
facts: a record's lifetime holds every use of its buffer (`LivesThrough`, with
the existence of a greatest use taken from the well-foundedness of the
naturals), each record's view is the allocation of its name, and allocations
that live together are disjoint.  The rewriting erases deallocations and so
only takes uses away.  `OwnPlanVerifies` needs that a plan is determined by its
requests.  `CanonicalInv` adds to the planner's invariant that allocations
follow the sorted order (`InOrder`) and that each is at the lowest aligned
offset the earlier ones leave it (`PlacedLowest`).  While the plan's own
allocations are planned again, what has been placed is the beginning of the
first plan (`Repeats`): the next request of the sorted order is the next
allocation; its former place is still free, so the candidate never passes it
and no overflow is met (`FormerPlaceReached`); and a lower place would have been
free in the first planning too.  That each view has an allocation of its own is
an argument about cardinalities (`OwnViewsMatch`).  TLC evaluates both
assumptions on the bodies it checks.

*Graph execution.*  Any graph and any word widths.  `GraphAssumption` says what
a parsed graph is: positive uids, sizes and alignments that are naturals, nodes
with lists of uids; whether the references make sense is left open.
`WidthAssumption` adds to the planner's that the unsigned limit is one less
than a multiple of 64, as 2^64 - 1 is.  `CompileInv` says what each stage has
established: which references are resolved (`ResolvedUpTo`), what the usage of
each tensor records of the nodes seen so far (`UsageUpTo`), what the planner was
asked (`Requested`), while it runs its own invariant `CanonicalInv`, and then
that the views of tensors alive at one node are apart (`ViewsInv`).  That the
access of an argument covers its use, and that an ill-formed graph is always
refused, need what was recorded of a node to be exact, not only large enough.  The refinement maps the
store of `Dataflow` to memory: a tensor's elements are read through its view as
long as a later node needs them, and what its bytes hold when it is dead is not
shown.  A step that writes one byte is then a step that writes one element,
because the planner keeps the tensors that are still needed out of its way
(`ElementRefines`); the step to the next node hides what died
(`FinishRefines`); compiling stutters.

*Runtime.*  Any number of calls, Executables and bytes.  `LockInv` says that a
call inside a kernel is the owner recorded for its Executable's mutex.
`ExecInv` says, for each call, what the checks it has passed have established
of its storage (`CallInv`); that memory differs from the start only where a
kernel has written; and that what a kernel has written is made of the inputs as
they were at the start.  The last needs that nobody else writes a call's
inputs, which is not in the code: `CallersApart` assumes it of the callers, as
`docs/user-guide.en.md:703-705` asks for separate output and workspace storage
for each call.  `ScenarioValid` assumes what the factories have checked when
they return an Executable: unique uids (`GraphMetadata.cpp:337`), sizes that
are positive and fit (376), and that a prefix and a length list are other
arguments, read-only and long enough (651-688).  That a prefix is not itself
ragged is a restriction of ours; the code does not check it.  Calls that hand
over too few pointers, a variant that cannot run, a workspace in the wrong
place, overlapping arguments or a nonsensical prefix are all among the
scenarios.  `PrefixStillValid` then holds because the prefix is an input.  The
refinement lets a call take effect where its kernel returns; until then the
bytes it has written are hidden.  A refusal is a step of the promise because
each check that fails names a clause of the contract that does not hold
(`AliasRefusable`, `WorkspaceRefusable`, `WrongVariantRefusable`,
`UnplacedRefusable`), and a success because together the checks decide the
contract (`AcceptedIsAcceptable`).

*Artifact encoding.*  Any artifacts, file lengths, limits and damage, any base
of at least 21 values to a unit.  `ReadInv` says that what has been read stands
in the file: the units up to `at` are the encoding of the sections read so far,
of the entries of a section that is half read included, in the order in which
`serialize_artifact` writes them, with the values that `restored` holds
(`PlaceInv` gives the types).  `NothingUnread` is its last instance: nothing is
behind `at`, so the file is the artifact written again.  It needs that each
reader undoes its writer (`ReadAllSound`: what is read, encoded, is what stood
there), and that a version which lacks a part leaves it where the writer would
not write it.  `RestoredPlanIsSound` is about the file's contents only: the
comparisons of `validate_contract` are made in 64 bits and could wrap, but each
sum is compared after it was found to fit.  That allocations are examined two
by two needs the highest end among them to exist.  `WrittenGivesBack` is the
way back, and it needs an invariant of its own, since `ReadInv` does not say
that a reader gets on: `WholeInv` says that the units from `at` on are exactly
the encoding of the sections, entries and variants of `compiled` that are left
(`FieldsToRead`, in an order of the variants that `seen` begins), and that what
has been read agrees with `compiled`, the defaults of the parts its version
lacks included (`Alike`).  Each section then has a lemma that its reader does
not refuse: what the contract and the version guarantee of the artifact is what
the reader asks (`HeaderReads` to `FinishReads`), and a table is read to its end
because its count was written before it.  The hypotheses are those of the
property and of `ContractsAssumption`; the limit on texts cannot be dropped, as
run `long_name` shows.  Induction over the list of fields is made by hand, as
the absence of a least counterexample (`LeastNumber`), because the library's
induction theorems take an operator as their parameter.

*Artifacts.*  A temporary is `<<pid, counter>>`.  The invariant `Numbered` says
that the counter in the name of an active writer is below its process's
counter.  A crash resets the counter, and ends all writers of that process, so
the invariant survives.  `DistinctProcessIds` is exactly what run `shared_pid`
drops.

`DestinationWhole` is far from inductive: it speaks of one file, and a writer
that shares its inode, a crash that restarts a counter, or a reader that holds
a file already replaced, would each break it later.  `FilesInv` therefore says
that every name leads to an inode of its own, that the temporary of a writer
which is writing leads to exactly what it has written so far, complete when it
is about to rename, and that the destination leads to a complete artifact;
`ReadersSafe`, that what a reader holds is complete, that no temporary leads to
it any more, and that the blocks read are a prefix of it.  The proof goes
action by action.  The refinement to `PublishedArtifact` uses the same
invariant: the rename is the step of the register's write, the open the one at which a
reader takes its value, and a crash is writers giving up; a reader delivers the
artifact it opened, because nobody writes to that inode again.
`LeftoversStayApart` adds to it that every name but the destination is
accounted for (`LeftoversAccounted`), which each step keeps by itself.
A pid of 0 is excluded because the destination is modelled as a name whose
number is 0; no process that can write has it.

*Compiler and command.*  Any set of options, any number of calls, and any list
of dumps to any paths, two of them equal or one equal to the output included.
The invariant says exactly what has been compiled after each round of the loop
over the variants (`ResultTo`), what is loaded after each round of the loader,
and what a caller holds of a result for some options (`HandedOver`).  For the
command it adds what each step of publishing has left under every path
(`Holds`): the last text that was asked for under it among those published so
far, and the former file if there is none.  The dump paths are a sequence,
as `DumpsAssumption` states; TLC evaluates it.

*Training convolutions.*  Any nodes, extents, groups, paddings, strides and
dilations, in one to three dimensions and both modes.  `NodesWellFormed` is
what is known of a node that is emitted: `validate_tensor` refuses extents that
are not positive (`FoundationalGraph.cpp:333`), and `tensor_storage_bytes`
(`Capability.cpp:132`) counts the bits of a tensor's storage in 64 bits, so that
its elements, which have at least four each and do not overlap, number less
than 2^63.  The compiler makes sure of neither in `TrainingGraph.cpp`; the
theorem says that, with them, a node that was validated is always emitted.  The
invariant `LoopInv` says that before each iteration exactly the elements at
the positions below its own have been stored (`HoldsUpTo`), each as the sum its
kernel is to make, and that no load was outside.  Three arguments carry it.
Positions and elements correspond one to one, because the digits `Delinear`
takes of a position are those of a number in mixed radix (`DelinearReaches`; a
product of extents is defined by recursion, and its laws are obtained from its
first step and a least counterexample).  The extents that `DecodeConvolution`
computes by truncated division are those for which the last window still ends
inside the padded input (`ExtentsFit`).  And the contraction is described by
what meets: an element of X, one of W and one of Y are multiplied if and only
if channels and groups agree and, on each axis, the coordinates satisfy one
linear equation (`Meeting`, `ContractionMeets`, `MeetingContracts`).  Each
kernel then solves that equation for a different unknown.  That its iterations
whose condition holds load only what meets (`FpropMeets`, `DgradMeets`,
`WgradMeets`), that they find all of it (`FpropReaches` and the like; for the
data gradient, that a quotient exists exactly when the remainder is zero,
`NumeratorReaches`), and that two iterations never load the same pair, is
`FpropLoads`, `DgradLoads` and `WgradLoads`.

*Direct convolution.*  Any graph, extents and padding, any number of lanes and
registers, each variant and policy.  `GraphsWellFormed` is what the types of
`SerializedGraph.h` say of a parsed graph: three uids, extents and strides that
are integers, two paddings on each side (150); whether they make sense is for
the importer to find out.  `TargetFacts` is the table of `target_facts`: one
lane without vectors, at least two with them.  The invariant `DirectInv` says
what each stage has established: the extents that fit (`Imported`), a schedule
whose counts are those of its loops (`Scheduled`), a padded image in which each
address holds the address of X it stands for, or the zero (`IsImage`), and,
while the kernel runs, that exactly the elements of Y below the next one are
written, each as its loops accumulate it (`ResultsHold`), and that the loads so
far are those of the blocks so far (`LoadsHold`).  The argument has four parts.
Lanes and single channels together are all channels, each once (`LanesCover`),
so an iteration is an element of the filter (`IterationIs`), and what it loads
is what the definition multiplies there, or the zero of the padding (`TermIs`);
the addresses of the packed channels-last strides are the row-major positions
of the physical shapes (`PhysicalAddress`).  A block of outputs, whole or of
one channel, ends where the next begins, and there are as many as the cost
model counts (`BlockAdvances`).  The verifier and the lowering ask for nothing
the importer and the schedule do not give.  And no count of loads saturates,
because none exceeds the number of elements of W, whose storage `MetadataFits`
has found to fit 64 bits (`CandidateFits`); the score made of them may.

Only model-checked: all liveness properties (fairness and ENABLED are out of
the prover's reach), and the properties of the families of `graph_kernels`
other than bufferization and the two of convolutions.  For most of those kernels
the reference is a recursive computation (sums, statistics, a softmax in exact fractions),
about which an induction over data would be needed; the importer's module
declares a RECURSIVE operator, about which the prover cannot reason.  What the
layouts promise has no such obstacle; it is next (section 6).

## 5. Not modelled

- `SpecializedAttention.cpp`: the FP8 variants of attention, which put the
  conversions of `Numeric.cpp` between the loops of `SequenceGraph.cpp`; both
  are modelled, their combination is not.  The branch of attention for shape
  overrides: its policy and its resolution are in `OverridePolicies`, its loops
  are those of `AttentionStorage` with extents of the call.
- The float MATMUL kernel with its M, N and K extents beyond what
  `ShapeOverride` and `SpecializedKernels` say of it; TRANSPOSE and RESHAPE
  without overrides.
- Elementwise modes with transcendental functions (exponentials, activations
  and their gradients): they differ from those modelled in a formula without
  exact values.  Rounding of f32 and the order of its sums.
- The 34 other schemas of the importer: tables of the same rules.  The decoding
  of JSON and UBJSON, which is nlohmann's.
- What one-shot bufferization does, and MLIR and LLVM passes; uses of a buffer
  through views and nested regions.
- Power loss: nothing is synced before the rename (`Artifact.cpp:1042`), so
  files survive the death of a process, not of the machine.
- Command-line parsing and `--inspect`; `deepforge-benchmark`, which only times
  calls of `execute`.

## 6. Plan

Done: the modules of section 2, the runs of section 3 and the proofs of
section 4.  What is left, in order:

1. Low-precision attention, on `AttentionStorage` and `LowPrecision`.
2. Proofs: that `NonOverlapping` layouts give different elements different
   slots.
3. The remaining schemas of the importer.
