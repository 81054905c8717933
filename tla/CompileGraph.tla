---------------------------- MODULE CompileGraph ----------------------------
(***************************************************************************)
(* compile_file and compile_graph (lib/Compiler/Compiler.cpp) together     *)
(* with load_object_executable (lib/Runtime/Executable.cpp): one caller    *)
(* compiles graphs into the same CompilationResult, call after call.       *)
(*                                                                         *)
(* A convolution goes through the importer and the bufferization, any      *)
(* other graph through the foundational builder; both then compile three   *)
(* CPU variants, load the three objects and hand the result over.  What a  *)
(* step produces is a <<kind, variant>> pair; a step of MLIR or LLVM may   *)
(* fail for a reason of its own.                                           *)
(***************************************************************************)
EXTENDS Integers, Sequences

CONSTANTS
  Options, (* the CompileOptions a caller passes                           *)
  Calls    (* bound on the calls of one behaviour                          *)

CompileOptions == [build_avx_variants: BOOLEAN, emit_object: BOOLEAN,
                   emit_llvm_ir: BOOLEAN, capture_mlir: BOOLEAN]

ASSUME OptionsAssumption == Options \subseteq CompileOptions
ASSUME CallsAssumption == Calls \in Nat

variants == <<"scalar", "avx2", "avx512">>
Variants == {variants[i] : i \in DOMAIN variants}

Products == ({"imported", "bufferized"} \X {"all"})
              \cup ({"mlir", "llvm_ir", "object"} \X Variants)

VARIABLES
  graph,   (* "conv" or "generic": what the file holds                     *)
  options, (* the options of the call                                      *)
  stage,   (* parse, build, variants, load, done or failed                 *)
  index,   (* the variant the loops have come to                           *)
  result,  (* products of the call                                         *)
  entries, (* variants whose entry point has been looked up                *)
  status,  (* the subject of the status returned, "none" while running     *)
  output,  (* [products, entries] the caller holds                         *)
  calls    (* calls made so far                                            *)

compileVars == <<graph, options, stage, index, result, entries, status, output,
                 calls>>

NoResult == [products |-> {}, entries |-> {}]

Of(products, kind) == {p[2] : p \in {q \in products : q[1] = kind}}
-----------------------------------------------------------------------------
Begin(o) ==
  /\ graph' \in {"conv", "generic"}
  /\ options' = o
  /\ stage' = "parse"
  /\ index' = 1
  /\ result' = {}
  /\ entries' = {}
  /\ status' = "none"
  /\ calls' = calls + 1

CompileInit ==
  /\ graph \in {"conv", "generic"}
  /\ options \in Options
  /\ stage = "parse"
  /\ index = 1
  /\ result = {}
  /\ entries = {}
  /\ status = "none"
  /\ output = NoResult
  /\ calls = 1

(* The caller compiles again, into the result it already holds.            *)
NextCall ==
  /\ stage \in {"done", "failed"}
  /\ calls < Calls
  /\ \E o \in Options : Begin(o)
  /\ UNCHANGED output

FailWith(subject) ==
  /\ stage' = "failed"
  /\ status' = subject
  /\ UNCHANGED <<graph, options, index, result, entries, output, calls>>

ParseFile ==
  /\ stage = "parse"
  /\ stage' = "build"
  /\ UNCHANGED <<graph, options, index, result, entries, status, output,
                 calls>>

(* Import and bufferization, or build_foundational_graph.                  *)
BuildModule ==
  /\ stage = "build"
  /\ result' = IF options.capture_mlir
               THEN {"imported", "bufferized"} \X {"all"} ELSE {}
  /\ stage' = "variants"
  /\ UNCHANGED <<graph, options, index, entries, status, output, calls>>

(* Only the convolution path looks at build_avx_variants.                  *)
Skipped == graph = "conv" /\ index # 1 /\ ~ options.build_avx_variants

SkipVariant ==
  /\ stage = "variants"
  /\ index <= Len(variants)
  /\ Skipped
  /\ index' = index + 1
  /\ UNCHANGED <<graph, options, stage, result, entries, status, output,
                 calls>>

(* Fault: the objects the caller did not ask for are dropped at once.       *)
ProducedIfAsked(variant) ==
  result \cup {<<"llvm_ir", variant>>}
         \cup (IF options.emit_object THEN {<<"object", variant>>} ELSE {})
         \cup (IF options.capture_mlir THEN {<<"mlir", variant>>} ELSE {})

Produced(variant) ==
  result \cup ({"object", "llvm_ir"} \X {variant})
         \cup (IF options.capture_mlir THEN {<<"mlir", variant>>} ELSE {})

(* Clone, rename, schedule, lower and translate one variant.               *)
CompileVariant ==
  /\ stage = "variants"
  /\ index <= Len(variants)
  /\ ~ Skipped
  /\ result' = Produced(variants[index])
  /\ index' = index + 1
  /\ UNCHANGED <<graph, options, stage, entries, status, output, calls>>

StartLoading ==
  /\ stage = "variants"
  /\ index > Len(variants)
  /\ stage' = "load"
  /\ index' = 1
  /\ UNCHANGED <<graph, options, result, entries, status, output, calls>>

(* Any of these steps fails for a reason of MLIR, LLVM or the file.        *)
StepFails ==
  \/ stage \in {"parse", "build"} /\ FailWith(stage)
  \/ stage = "variants" /\ index <= Len(variants) /\ ~ Skipped
       /\ FailWith("compiler")
  \/ stage = "load" /\ index <= Len(variants)
       /\ <<"object", variants[index]>> \in result /\ FailWith("runtime.jit")
  \/ stage = "load" /\ index > Len(variants) /\ FailWith("artifact.metadata")

(* Fault: a variant without an object is passed over.                      *)
LoadVariantIfAny ==
  /\ stage = "load"
  /\ index <= Len(variants)
  /\ entries' = entries \cup ({variants[index]} \cap Of(result, "object"))
  /\ index' = index + 1
  /\ UNCHANGED <<graph, options, stage, result, status, output, calls>>

LoadVariant ==
  /\ stage = "load"
  /\ index <= Len(variants)
  /\ <<"object", variants[index]>> \in result
  /\ entries' = entries \cup {variants[index]}
  /\ index' = index + 1
  /\ UNCHANGED <<graph, options, stage, result, status, output, calls>>

(* load_object_executable wants object bytes of every variant.             *)
RefuseMissingObject ==
  /\ stage = "load"
  /\ index <= Len(variants)
  /\ <<"object", variants[index]>> \notin result
  /\ FailWith("runtime.object")

Kept == {p \in result : /\ p[1] = "llvm_ir" => options.emit_llvm_ir
                        /\ p[1] = "object" => options.emit_object}

HandOver ==
  /\ stage = "load"
  /\ index > Len(variants)
  /\ stage' = "done"
  /\ status' = "ok"
  /\ output' = [products |-> Kept, entries |-> entries]
  /\ UNCHANGED <<graph, options, index, result, entries, calls>>

CompileStep ==
  \/ ParseFile
  \/ BuildModule
  \/ SkipVariant
  \/ CompileVariant
  \/ StartLoading
  \/ StepFails
  \/ LoadVariant
  \/ RefuseMissingObject
  \/ HandOver

CompileNext == CompileStep \/ NextCall

(* A call runs in one thread; whether to call again is the caller's.       *)
CompileSpec == CompileInit /\ [][CompileNext]_compileVars
                 /\ WF_compileVars(CompileStep)
-----------------------------------------------------------------------------
(* Whatever calls have succeeded and failed before, the result the caller  *)
(* holds can run on every CPU: it is untouched or has all three entry      *)
(* points, and the objects and texts it carries come three at a time.      *)
ResultRunsEverywhere ==
  output # NoResult =>
    /\ output.entries = Variants
    /\ \A kind \in {"object", "llvm_ir", "mlir"} :
         Of(output.products, kind) \in {{}, Variants}

(* When AVX variants are built, a graph is refused for a step that failed  *)
(* and never because the compiler itself left an object out, although the  *)
(* same result is stripped of its objects for the caller.                  *)
RefusedForAReason ==
  status = "runtime.object" =>
    graph = "conv" /\ ~ options.build_avx_variants

(* "scalar and, when enabled, AVX2/AVX-512 CPU variants" (Codegen.h:50):   *)
(* leaving the AVX variants out is no reason to refuse a graph.            *)
ScalarOnlyCompiles == status # "runtime.object"

=============================================================================
