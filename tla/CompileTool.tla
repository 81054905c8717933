----------------------------- MODULE CompileTool -----------------------------
(***************************************************************************)
(* The command deepforge-compile (tools/deepforge-compile.cpp, run): it    *)
(* derives the compile options from the command line, compiles once, then  *)
(* publishes the IR dumps in order and the artifact or LLVM IR last, each  *)
(* through a temporary file that is renamed.  Any file operation may fail. *)
(***************************************************************************)
EXTENDS CompileGraph

CONSTANTS
  Paths,    (* paths a command line may name                               *)
  Dumps,    (* sequences of [stage, path], the --dump-ir options           *)
  Old       (* what a path holds before the command runs                   *)

(* parse_command_line takes three names of a stage.                        *)
ASSUME DumpsAssumption ==
  Dumps \subseteq Seq([stage: {"imported", "bufferized", "mlir"}, path: Paths])

VARIABLES
  emit,        (* "artifact" or "llvm_ir"                                  *)
  variant,     (* --variant                                                *)
  dumps,       (* --dump-ir, in order                                      *)
  outputPath,  (* -o                                                       *)
  written,     (* files published so far                                   *)
  files,       (* what each path holds                                     *)
  temporaries, (* paths whose temporary file exists                        *)
  exit         (* exit code, "none" while the command runs; "refused" is   *)
               (* the code 1 for content the command itself left out       *)

commandLine == <<emit, variant, dumps, outputPath>>
toolVars == <<emit, variant, dumps, outputPath, written, files, temporaries,
              exit>>
vars == <<compileVars, toolVars>>
-----------------------------------------------------------------------------
(* Fault: MLIR is captured for a dump of the llvm stage only.              *)
DerivedOptionsLlvmOnly ==
  [build_avx_variants |-> TRUE,
   emit_object        |-> emit = "artifact",
   emit_llvm_ir       |-> emit = "llvm_ir",
   capture_mlir       |-> \E d \in DOMAIN dumps : dumps[d].stage = "mlir"]

DerivedOptions ==
  [build_avx_variants |-> TRUE,
   emit_object        |-> emit = "artifact",
   emit_llvm_ir       |-> emit = "llvm_ir",
   capture_mlir       |-> dumps # <<>>]

ToolInit ==
  /\ emit \in {"artifact", "llvm_ir"}
  /\ variant \in Variants
  /\ dumps \in Dumps
  /\ outputPath \in Paths
  /\ written = 0
  /\ files = [p \in Paths |-> Old]
  /\ temporaries = {}
  /\ exit = "none"
  /\ CompileInit
  /\ options = DerivedOptions

Compile == exit = "none" /\ CompileStep /\ UNCHANGED toolVars

CompileFailed ==
  /\ stage = "failed"
  /\ exit = "none"
  /\ exit' = "1"
  /\ UNCHANGED <<compileVars, commandLine, written, files, temporaries>>

(* dump_text, and what serialize_artifact or the chosen LLVM IR give.      *)
Text(products, kind, of) == products \cap {<<kind, of>>}

Asked(products, n) ==
  IF n <= Len(dumps)
  THEN Text(products, dumps[n].stage,
            IF dumps[n].stage = "mlir" THEN variant ELSE "all")
  ELSE IF emit = "llvm_ir" THEN Text(products, "llvm_ir", variant)
  ELSE products \cap ({"object"} \X Variants)

PathOf(n) == IF n <= Len(dumps) THEN dumps[n].path ELSE outputPath

(* An empty text is refused, and so is a result without three objects.     *)
Refuses(products, n) ==
  \/ Asked(products, n) = {}
  \/ n > Len(dumps) /\ emit = "artifact"
       /\ Asked(products, n) # {"object"} \X Variants

Writing == stage = "done" /\ exit = "none" /\ written <= Len(dumps)

WriteTemporary ==
  /\ Writing
  /\ temporaries = {}
  /\ ~ Refuses(output.products, written + 1)
  /\ temporaries' = {PathOf(written + 1)}
  /\ UNCHANGED <<compileVars, commandLine, written, files, exit>>

(* The text is refused; or opening or writing the temporary fails, or      *)
(* serialize_artifact finds fault with the metadata.  A temporary that was *)
(* opened is removed, and stays if that fails too.                         *)
WriteFails ==
  /\ Writing
  /\ temporaries = {}
  /\ LET refused == Refuses(output.products, written + 1)
     IN /\ exit' = IF refused THEN "refused" ELSE "1"
        /\ temporaries' \in IF refused THEN {{}}
                            ELSE {{}, {PathOf(written + 1)}}
  /\ UNCHANGED <<compileVars, commandLine, written, files>>

Publish ==
  /\ Writing
  /\ temporaries # {}
  /\ files' = [files EXCEPT ![PathOf(written + 1)] =
                 Asked(output.products, written + 1)]
  /\ temporaries' = {}
  /\ written' = written + 1
  /\ UNCHANGED <<compileVars, commandLine, exit>>

PublishFails ==
  /\ Writing
  /\ temporaries # {}
  /\ temporaries' \in {{}, temporaries}
  /\ exit' = "1"
  /\ UNCHANGED <<compileVars, commandLine, written, files>>

(* Fault: success is reported before the last file.                        *)
FinishEarly ==
  /\ stage = "done"
  /\ exit = "none"
  /\ written >= Len(dumps)
  /\ exit' = "0"
  /\ UNCHANGED <<compileVars, commandLine, written, files, temporaries>>

Finish ==
  /\ stage = "done"
  /\ exit = "none"
  /\ written = Len(dumps) + 1
  /\ exit' = "0"
  /\ UNCHANGED <<compileVars, commandLine, written, files, temporaries>>

ToolNext ==
  \/ Compile
  \/ CompileFailed
  \/ WriteTemporary
  \/ WriteFails
  \/ Publish
  \/ PublishFails
  \/ Finish

ToolSpec == ToolInit /\ [][ToolNext]_vars
-----------------------------------------------------------------------------
(* The options derived from the command line make the compiler keep every  *)
(* text the command will write: it never compiles a graph only to refuse   *)
(* its own empty dump or an artifact without its three objects.            *)
NothingAskedIsMissing ==
  exit # "refused" /\ (exit = "1" => status # "runtime.object")

(* The exit code tells what was published.  0: the output path holds what  *)
(* --emit asked for, and each dump path the last text that was asked for   *)
(* under that path.  1: the former artifact is still in place, unless a    *)
(* dump was sent to its path.                                              *)
LastFor(p) == {n \in 1..(Len(dumps) + 1) :
                 /\ PathOf(n) = p
                 /\ \A m \in (n + 1)..(Len(dumps) + 1) : PathOf(m) # p}

ExitTellsWhatIsPublished ==
  /\ exit = "0" =>
       \A p \in Paths : IF LastFor(p) = {} THEN files[p] = Old
                        ELSE \A n \in LastFor(p) :
                               /\ files[p] = Asked(output.products, n)
                               /\ files[p] # {}
  /\ (exit = "1" /\ \A d \in DOMAIN dumps : dumps[d].path # outputPath) =>
       files[outputPath] = Old
=============================================================================
