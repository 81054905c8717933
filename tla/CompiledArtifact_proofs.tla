------------------------ MODULE CompiledArtifact_proofs ------------------------
(***************************************************************************)
(* From a compilation to the file a runtime opens.  What a compilation     *)
(* hands over and what deepforge-compile publishes of it, for any set of   *)
(* options, any number of calls, any list of dumps and any paths.  Then    *)
(* the other direction of ArtifactFormat_proofs: a file that nothing       *)
(* damaged is taken, and gives back the artifact it was written from.      *)
(***************************************************************************)
EXTENDS CompileTool, ArtifactFormat_proofs

(***************************************************************************)
(* The compilation and the command.                                        *)
(***************************************************************************)
Scalar == graph = "conv" /\ ~ options.build_avx_variants

(* What has been compiled after n rounds of the loop over the variants.    *)
Common == IF options.capture_mlir THEN {"imported", "bufferized"} \X {"all"}
          ELSE {}
ProductKinds == {"object", "llvm_ir"}
           \cup (IF options.capture_mlir THEN {"mlir"} ELSE {})
Compiled(n) == {variants[i] : i \in {j \in 1..n : j = 1 \/ ~ Scalar}}
ResultTo(n) == result = Common \cup (ProductKinds \X Compiled(n))

(* What a caller holds of a result with the options o.                     *)
HandedOver(o, products) ==
  products = (IF o.capture_mlir
              THEN ({"imported", "bufferized"} \X {"all"})
                     \cup ({"mlir"} \X Variants) ELSE {})
             \cup (IF o.emit_object THEN {"object"} \X Variants ELSE {})
             \cup (IF o.emit_llvm_ir THEN {"llvm_ir"} \X Variants ELSE {})

Complete(out) == /\ out.entries = Variants
                 /\ \E o \in CompileOptions : HandedOver(o, out.products)

StageInv ==
  /\ stage \in {"parse", "build"} => /\ result = {}
                                     /\ index = 1
                                     /\ entries = {}
  /\ stage = "variants" => entries = {} /\ ResultTo(index - 1)
  /\ stage = "load" =>
       /\ ResultTo(3)
       /\ entries = {variants[i] : i \in 1..(index - 1)}
       /\ \A i \in 1..(index - 1) : <<"object", variants[i]>> \in result
  /\ stage = "done" => HandedOver(options, output.products)

CompileInv ==
  /\ options \in CompileOptions
  /\ index \in 1..4
  /\ StageInv
  /\ output = NoResult \/ Complete(output)
  /\ RefusedForAReason

LEMMA VariantsKnown ==
  /\ Len(variants) = 3
  /\ variants[1] = "scalar" /\ variants[2] = "avx2" /\ variants[3] = "avx512"
  /\ Variants = {"scalar", "avx2", "avx512"}
  /\ Variants = {variants[i] : i \in 1..3}
<1>1. Len(variants) = 3 /\ DOMAIN variants = 1..3
  BY DEF variants
<1>2. variants[1] = "scalar" /\ variants[2] = "avx2" /\ variants[3] = "avx512"
  BY DEF variants
<1>3. Variants = {variants[i] : i \in 1..3}
  BY <1>1 DEF Variants
<1>4. 1..3 = {1, 2, 3}
  OBVIOUS
<1> QED
  BY <1>1, <1>2, <1>3, <1>4

(* A step that moves on without touching what the caller holds.            *)
LEMMA MovesOn ==
  ASSUME CompileInv, UNCHANGED <<graph, options, output, status>>,
         stage' # "done", index' \in 1..4, StageInv'
  PROVE  CompileInv'
<1>1. Complete(output) => Complete(output)'
  BY DEF Complete, HandedOver, Variants, variants
<1>2. NoResult' = NoResult
  BY DEF NoResult
<1> QED
  BY <1>1, <1>2 DEF CompileInv, RefusedForAReason, CompileOptions

LEMMA FailureKeeps ==
  ASSUME CompileInv, NEW subject, FailWith(subject),
         subject = "runtime.object" => Scalar
  PROVE  CompileInv'
<1>1. /\ UNCHANGED <<graph, options, index, result, entries, output>>
      /\ stage' = "failed" /\ status' = subject
  BY DEF FailWith
<1>2. StageInv'
  BY <1>1 DEF StageInv
<1>3. Complete(output) => Complete(output)'
  BY <1>1 DEF Complete, HandedOver, Variants, variants
<1>4. NoResult' = NoResult
  BY DEF NoResult
<1>5. RefusedForAReason'
  BY <1>1 DEF RefusedForAReason, Scalar
<1> QED
  BY <1>1, <1>2, <1>3, <1>4, <1>5 DEF CompileInv, CompileOptions

(* One more variant is compiled, or is left out for the scalar build.      *)
LEMMA RoundKeeps ==
  ASSUME CompileInv, SkipVariant \/ CompileVariant
  PROVE  CompileInv'
<1>1. /\ stage = "variants" /\ stage' = "variants"
      /\ index \in 1..3 /\ index' = index + 1
      /\ UNCHANGED <<graph, options, entries, output, status>>
  BY VariantsKnown DEF SkipVariant, CompileVariant, CompileInv
<1>2. entries = {} /\ ResultTo(index - 1)
  BY <1>1 DEF CompileInv, StageInv
<1>3. Compiled(index) = Compiled(index - 1)
                          \cup (IF index = 1 \/ ~ Scalar
                                THEN {variants[index]} ELSE {})
  BY <1>1 DEF Compiled
<1>4. result' = Common \cup (ProductKinds \X Compiled(index))
  <2>1. CASE SkipVariant
    <3>1. Scalar /\ index # 1 /\ result' = result
      BY <2>1 DEF SkipVariant, Skipped, Scalar
    <3> QED
      BY <1>2, <1>3, <3>1 DEF ResultTo
  <2>2. CASE CompileVariant
    <3>1. ~ Scalar \/ index = 1
      BY <2>2 DEF CompileVariant, Skipped, Scalar
    <3>2. result' = result \cup (ProductKinds \X {variants[index]})
      BY <2>2 DEF CompileVariant, Produced, ProductKinds
    <3> QED
      BY <1>2, <1>3, <3>1, <3>2 DEF ResultTo
  <2> QED
    BY <2>1, <2>2
<1>5. ResultTo(index - 1)'
  <2>1. index' - 1 = index
    BY <1>1
  <2> QED
    BY <2>1, <1>1, <1>4
    DEF ResultTo, Common, ProductKinds, Compiled, Scalar, variants
<1>6. StageInv'
  BY <1>1, <1>2, <1>5 DEF StageInv
<1> QED
  BY <1>1, <1>6, MovesOn

LEMMA LoadVariantKeeps ==
  ASSUME CompileInv, LoadVariant
  PROVE  CompileInv'
<1>1. /\ stage = "load" /\ stage' = "load"
      /\ index \in 1..3 /\ index' = index + 1
      /\ <<"object", variants[index]>> \in result
      /\ entries' = entries \cup {variants[index]}
      /\ UNCHANGED <<graph, options, result, output, status>>
  BY VariantsKnown DEF LoadVariant, CompileInv
<1>2. ResultTo(3)'
  BY <1>1 DEF CompileInv, StageInv, ResultTo, Common, ProductKinds, Compiled, Scalar,
              variants
<1>3. 1..(index' - 1) = 1..(index - 1) \cup {index}
  BY <1>1
<1>4. /\ entries' = {variants[i] : i \in 1..(index' - 1)}
      /\ \A i \in 1..(index' - 1) : <<"object", variants[i]>> \in result
  BY <1>1, <1>3 DEF CompileInv, StageInv
<1>5. StageInv'
  BY <1>1, <1>2, <1>4 DEF StageInv, variants
<1> QED
  BY <1>1, <1>5, MovesOn

(* The loader misses an object only where the scalar build left one out.   *)
LEMMA MissingIsScalar ==
  ASSUME CompileInv, stage = "load", index <= Len(variants),
         <<"object", variants[index]>> \notin result
  PROVE  Scalar
<1>1. index \in 1..3 /\ ResultTo(3)
  BY VariantsKnown DEF CompileInv, StageInv
<1>2. ~ Scalar => variants[index] \in Compiled(3)
  BY <1>1 DEF Compiled
<1>3. "object" \in ProductKinds
  BY DEF ProductKinds
<1> QED
  BY <1>1, <1>2, <1>3 DEF ResultTo

(* All three objects were there, so the AVX variants were compiled, and    *)
(* what is kept of the result is complete.                                 *)
LEMMA HandOverWhole ==
  ASSUME CompileInv, HandOver
  PROVE  /\ entries = Variants
         /\ HandedOver(options, Kept)
<1>1. stage = "load" /\ index = 4 /\ ResultTo(3)
  BY VariantsKnown DEF HandOver, CompileInv, StageInv
<1>2. /\ entries = {variants[i] : i \in 1..3}
      /\ \A i \in 1..3 : <<"object", variants[i]>> \in result
  BY <1>1 DEF CompileInv, StageInv
<1>3. <<"object", "avx2">> \in result
  BY <1>2, VariantsKnown
<1>4. ~ Scalar
  <2> SUFFICES ASSUME Scalar PROVE FALSE
    OBVIOUS
  <2>1. Compiled(3) = {"scalar"}
    BY VariantsKnown DEF Compiled
  <2> QED
    BY <1>1, <1>3, <2>1 DEF ResultTo, Common
<1>5. Compiled(3) = Variants
  BY <1>4, VariantsKnown DEF Compiled
<1>6. result = Common \cup (ProductKinds \X Variants)
  BY <1>1, <1>5 DEF ResultTo
<1>7. \A p \in Common : p[1] \in {"imported", "bufferized"}
  BY DEF Common
<1>8. \A p \in ProductKinds \X Variants : p[1] \in ProductKinds
  OBVIOUS
<1>9. HandedOver(options, Kept)
  BY <1>6, <1>7, <1>8 DEF Kept, HandedOver, Common, ProductKinds
<1> QED
  BY <1>2, <1>9, VariantsKnown

LEMMA HandOverKeeps ==
  ASSUME CompileInv, HandOver
  PROVE  CompileInv'
<1>1. /\ stage' = "done" /\ status' = "ok"
      /\ output' = [products |-> Kept, entries |-> entries]
      /\ UNCHANGED <<graph, options, index, result, entries>>
  BY DEF HandOver
<1>2. entries = Variants /\ HandedOver(options, Kept)
  BY HandOverWhole
<1>3. /\ output'.products = Kept
      /\ output'.entries = Variants
  BY <1>1, <1>2
<1>4. HandedOver(options, output.products)'
  BY <1>1, <1>2, <1>3 DEF HandedOver, Variants, variants
<1>5. Complete(output)'
  BY <1>1, <1>3, <1>4 DEF Complete, CompileInv, HandedOver, Variants, variants,
                          CompileOptions
<1>6. StageInv'
  BY <1>1, <1>4 DEF StageInv
<1> QED
  BY <1>1, <1>5, <1>6 DEF CompileInv, RefusedForAReason, CompileOptions

LEMMA CompileStepKeeps ==
  ASSUME CompileInv, CompileStep
  PROVE  CompileInv'
<1>1. CASE ParseFile
  <2>1. StageInv'
    BY <1>1 DEF ParseFile, CompileInv, StageInv
  <2> QED
    BY <1>1, <2>1, MovesOn DEF ParseFile, CompileInv
<1>2. CASE BuildModule
  <2>1. /\ index = 1 /\ stage' = "variants"
        /\ UNCHANGED <<graph, options, index, entries, output, status>>
        /\ entries = {} /\ result' = Common
    BY <1>2 DEF BuildModule, CompileInv, StageInv, Common
  <2>2. Compiled(0) = {}
    BY DEF Compiled
  <2>3. ResultTo(index - 1)'
    BY <2>1, <2>2 DEF ResultTo, Common, ProductKinds, Compiled
  <2>4. StageInv'
    BY <2>1, <2>3 DEF StageInv
  <2> QED
    BY <2>1, <2>4, MovesOn
<1>3. CASE SkipVariant \/ CompileVariant
  BY <1>3, RoundKeeps
<1>4. CASE StartLoading
  <2>1. /\ index = 4 /\ stage' = "load" /\ index' = 1
        /\ UNCHANGED <<graph, options, result, entries, output, status>>
        /\ entries = {} /\ ResultTo(3)
    BY <1>4, VariantsKnown DEF StartLoading, CompileInv, StageInv
  <2>2. ResultTo(3)'
    BY <2>1 DEF ResultTo, Common, ProductKinds, Compiled, Scalar, variants
  <2>3. StageInv'
    BY <2>1, <2>2 DEF StageInv
  <2> QED
    BY <2>1, <2>3, MovesOn
<1>5. CASE StepFails
  <2>1. \/ FailWith(stage) /\ stage \in {"parse", "build"}
        \/ FailWith("compiler")
        \/ FailWith("runtime.jit")
        \/ FailWith("artifact.metadata")
    BY <1>5 DEF StepFails
  <2>2. \E subject \in {"parse", "build", "compiler", "runtime.jit",
                        "artifact.metadata"} : FailWith(subject)
    BY <2>1
  <2> QED
    BY <2>2, FailureKeeps
<1>6. CASE LoadVariant
  BY <1>6, LoadVariantKeeps
<1>7. CASE RefuseMissingObject
  BY <1>7, MissingIsScalar, FailureKeeps DEF RefuseMissingObject
<1>8. CASE HandOver
  BY <1>8, HandOverKeeps
<1> QED
  BY <1>1, <1>2, <1>3, <1>4, <1>5, <1>6, <1>7, <1>8 DEF CompileStep

LEMMA CompileInitHolds ==
  CompileInit => CompileInv
BY OptionsAssumption
DEF CompileInit, CompileInv, StageInv, RefusedForAReason

(* A new call starts from nothing and keeps what the caller holds.         *)
LEMMA NextCallKeeps ==
  ASSUME CompileInv, NextCall
  PROVE  CompileInv'
<1>1. /\ options' \in CompileOptions
      /\ stage' = "parse" /\ index' = 1 /\ result' = {} /\ entries' = {}
      /\ status' = "none" /\ output' = output
  BY OptionsAssumption DEF NextCall, Begin
<1>2. Complete(output) => Complete(output)'
  BY <1>1 DEF Complete, HandedOver, Variants, variants, CompileOptions
<1>3. StageInv'
  BY <1>1 DEF StageInv
<1> QED
  BY <1>1, <1>2, <1>3 DEF CompileInv, RefusedForAReason, NoResult,
                          CompileOptions

LEMMA WholeRuns ==
  ASSUME CompileInv
  PROVE  ResultRunsEverywhere
<1> SUFFICES ASSUME output # NoResult
             PROVE  /\ output.entries = Variants
                    /\ \A kind \in {"object", "llvm_ir", "mlir"} :
                         Of(output.products, kind) \in {{}, Variants}
  BY DEF ResultRunsEverywhere
<1>1. PICK o \in CompileOptions : HandedOver(o, output.products)
  BY DEF CompileInv, Complete
<1>2. ASSUME NEW kind \in {"object", "llvm_ir", "mlir"}
      PROVE  Of(output.products, kind) \in {{}, Variants}
  <2>1. Of(output.products, kind) =
          IF \/ kind = "object" /\ o.emit_object
             \/ kind = "llvm_ir" /\ o.emit_llvm_ir
             \/ kind = "mlir" /\ o.capture_mlir
          THEN Variants ELSE {}
    <3> DEFINE P == output.products
               asked == \/ kind = "object" /\ o.emit_object
                        \/ kind = "llvm_ir" /\ o.emit_llvm_ir
                        \/ kind = "mlir" /\ o.capture_mlir
    <3>1. \A p \in P : p = <<p[1], p[2]>>
      BY <1>1 DEF HandedOver
    <3>2. \A v : <<kind, v>> \in P <=> v \in Variants /\ asked
      BY <1>1, <1>2 DEF HandedOver
    <3> HIDE DEF P, asked
    <3>3. \A v : v \in Of(P, kind) <=> <<kind, v>> \in P
      BY <3>1 DEF Of
    <3>4. Of(P, kind) = IF asked THEN Variants ELSE {}
      BY <3>2, <3>3
    <3> QED
      BY <3>4 DEF P, asked
  <2> QED
    BY <2>1
<1> QED
  BY <1>2 DEF CompileInv, Complete

LEMMA CompileNextKeeps == CompileInv /\ [CompileNext]_compileVars => CompileInv'
<1> SUFFICES ASSUME CompileInv, [CompileNext]_compileVars PROVE CompileInv'
  OBVIOUS
<1>1. CASE CompileNext
  BY <1>1, CompileStepKeeps, NextCallKeeps DEF CompileNext
<1>2. CASE UNCHANGED compileVars
  BY <1>2 DEF compileVars, CompileInv, StageInv, ResultTo, Common, ProductKinds,
              Compiled, Scalar, HandedOver, Complete, Variants, variants,
              NoResult, RefusedForAReason, CompileOptions
<1> QED
  BY <1>1, <1>2

(* A caller never holds a result that one CPU could not run, call after    *)
(* call, whatever fails.                                                   *)
THEOREM ResultsRun == CompileSpec => []ResultRunsEverywhere
<1>1. CompileInit => CompileInv
  BY CompileInitHolds
<1>2. CompileInv /\ [CompileNext]_compileVars => CompileInv'
  BY CompileNextKeeps
<1>3. CompileInv => ResultRunsEverywhere
  BY WholeRuns
<1> QED
  BY <1>1, <1>2, <1>3, PTL DEF CompileSpec

(* The compiler leaves an object out in one case only: the scalar build of *)
(* a convolution.                                                          *)
THEOREM RefusalsHaveReasons == CompileSpec => []RefusedForAReason
<1>1. CompileInit => CompileInv
  BY CompileInitHolds
<1>2. CompileInv /\ [CompileNext]_compileVars => CompileInv'
  BY CompileNextKeeps
<1>3. CompileInv => RefusedForAReason
  BY DEF CompileInv
<1> QED
  BY <1>1, <1>2, <1>3, PTL DEF CompileSpec
-----------------------------------------------------------------------------
(* What path p holds once the first k texts have been published.           *)
Holds(p, k) ==
  \/ files[p] = Old /\ \A n \in 1..k : PathOf(n) # p
  \/ \E n \in 1..k : /\ PathOf(n) = p
                     /\ \A m \in (n + 1)..k : PathOf(m) # p
                     /\ files[p] = Asked(output.products, n)

CommandInv ==
  /\ emit \in {"artifact", "llvm_ir"}
  /\ variant \in Variants
  /\ dumps \in Seq([stage: {"imported", "bufferized", "mlir"}, path: Paths])
  /\ outputPath \in Paths
  /\ options = DerivedOptions

PublishInv ==
  /\ written \in 0..(Len(dumps) + 1)
  /\ DOMAIN files = Paths
  /\ written > 0 \/ exit = "0" => stage = "done"
  /\ exit = "0" => written = Len(dumps) + 1
  /\ exit = "1" => written <= Len(dumps)
  /\ exit # "refused"
  /\ \A p \in Paths : Holds(p, written)

ToolInv == CompileInv /\ CommandInv /\ PublishInv

LEMMA PathsKnown ==
  ASSUME CommandInv, NEW n \in 1..(Len(dumps) + 1)
  PROVE  /\ Len(dumps) \in Nat
         /\ PathOf(n) \in Paths
         /\ n <= Len(dumps) => dumps[n].stage \in {"imported", "bufferized",
                                                    "mlir"}
<1>1. Len(dumps) \in Nat
  BY DEF CommandInv
<1> DEFINE Dump == [stage: {"imported", "bufferized", "mlir"}, path: Paths]
<1>2. n <= Len(dumps) => dumps[n] \in Dump
  <2>1. dumps \in Seq(Dump)
    BY DEF CommandInv
  <2> HIDE DEF Dump
  <2> QED
    BY <1>1, <2>1, ElementOfSeq
<1> QED
  BY <1>1, <1>2 DEF CommandInv, PathOf

(* The result of a successful compilation has every text the command asks  *)
(* for, because the options were derived from the same command line.       *)
LEMMA NothingMissing ==
  ASSUME CommandInv, stage = "done", StageInv,
         NEW n \in 1..(Len(dumps) + 1)
  PROVE  ~ Refuses(output.products, n) /\ Asked(output.products, n) # {}
<1> DEFINE P == output.products
<1>1. HandedOver(options, P)
  BY DEF StageInv
<1>2. /\ options.emit_object = (emit = "artifact")
      /\ options.emit_llvm_ir = (emit = "llvm_ir")
      /\ options.capture_mlir = (dumps # <<>>)
  BY DEF CommandInv, DerivedOptions
<1>3. Variants # {} /\ variant \in Variants /\ Len(dumps) \in Nat
  BY VariantsKnown DEF CommandInv
<1>4. CASE n <= Len(dumps)
  <2>1. dumps # <<>>
    BY <1>4
  <2>2. dumps[n].stage \in {"imported", "bufferized", "mlir"}
    BY <1>4, PathsKnown
  <2>3. /\ <<"imported", "all">> \in P
        /\ <<"bufferized", "all">> \in P
        /\ <<"mlir", variant>> \in P
    BY <1>1, <1>2, <1>3, <2>1 DEF HandedOver
  <2>4. <<dumps[n].stage, IF dumps[n].stage = "mlir" THEN variant ELSE "all">>
          \in P
    BY <2>2, <2>3
  <2>5. Asked(P, n) # {}
    BY <1>4, <2>4 DEF Asked, Text
  <2> QED
    BY <1>3, <1>4, <2>5 DEF Refuses
<1>5. CASE n > Len(dumps) /\ emit = "llvm_ir"
  <2>1. <<"llvm_ir", variant>> \in P
    BY <1>1, <1>2, <1>3, <1>5 DEF HandedOver
  <2>2. Asked(P, n) # {}
    BY <1>3, <1>5, <2>1 DEF Asked, Text
  <2> QED
    BY <1>5, <2>2 DEF Refuses
<1>6. CASE n > Len(dumps) /\ emit = "artifact"
  <2>1. {"object"} \X Variants \subseteq P
    BY <1>1, <1>2, <1>6 DEF HandedOver
  <2>2. Asked(P, n) = {"object"} \X Variants
    BY <1>3, <1>6, <2>1 DEF Asked
  <2>3. <<"object", variant>> \in {"object"} \X Variants
    BY <1>3
  <2> QED
    BY <2>2, <2>3 DEF Refuses
<1> QED
  BY <1>3, <1>4, <1>5, <1>6 DEF CommandInv

(* The text published last is what its path holds from then on.            *)
LEMMA PublishHolds ==
  ASSUME ToolInv, Publish
  PROVE  \A p \in Paths : Holds(p, written)'
<1> DEFINE k == written + 1
<1>1. /\ UNCHANGED <<output, commandLine>>
      /\ files' = [files EXCEPT ![PathOf(k)] = Asked(output.products, k)]
      /\ written \in Nat /\ k \in 1..(Len(dumps) + 1) /\ written' = k
      /\ Len(dumps) \in Nat
  BY DEF Publish, Writing, compileVars, ToolInv, PublishInv, CommandInv
<1>2. \A n : PathOf(n)' = PathOf(n)
  BY <1>1 DEF PathOf, commandLine
<1>3. \A n : Asked(output.products, n)' = Asked(output.products, n)
  BY <1>1 DEF Asked, Text, commandLine, Variants, variants
<1>4. \A p \in Paths : files'[p] = IF p = PathOf(k)
                                   THEN Asked(output.products, k)
                                   ELSE files[p]
  BY <1>1 DEF ToolInv, PublishInv
<1>5. ASSUME NEW p \in Paths
      PROVE  \/ files'[p] = Old /\ \A n \in 1..k : PathOf(n) # p
             \/ \E n \in 1..k : /\ PathOf(n) = p
                                /\ \A m \in (n + 1)..k : PathOf(m) # p
                                /\ files'[p] = Asked(output.products, n)
  <2>1. CASE p = PathOf(k)
    <3>1. k \in 1..k /\ \A m \in (k + 1)..k : PathOf(m) # p
      BY <1>1
    <3> QED
      BY <3>1, <2>1, <1>4
  <2>2. CASE p # PathOf(k)
    <3>1. Holds(p, written) /\ files'[p] = files[p]
      BY <2>2, <1>4 DEF ToolInv, PublishInv
    <3>2. \A n \in 1..k : n = k \/ n \in 1..written
      BY <1>1
    <3>3. CASE \A n \in 1..written : PathOf(n) # p
      <4>1. files[p] = Old
        BY <3>1, <3>3 DEF Holds
      <4> QED
        BY <4>1, <3>1, <3>2, <3>3, <2>2
    <3>4. CASE \E n \in 1..written : PathOf(n) = p
      <4>1. PICK n \in 1..written :
              /\ PathOf(n) = p
              /\ \A m \in (n + 1)..written : PathOf(m) # p
              /\ files[p] = Asked(output.products, n)
        BY <3>1, <3>4 DEF Holds
      <4>2. n \in 1..k /\ \A m \in (n + 1)..k : m = k \/ m \in (n + 1)..written
        BY <1>1
      <4> QED
        BY <4>1, <4>2, <3>1, <2>2
    <3> QED
      BY <3>3, <3>4
  <2> QED
    BY <2>1, <2>2
<1> HIDE DEF k
<1> QED
  BY <1>1, <1>2, <1>3, <1>5 DEF Holds

LEMMA SameHolds ==
  ASSUME UNCHANGED <<files, commandLine>>, NEW p \in Paths, NEW k \in Nat,
         k = 0 \/ output' = output, Holds(p, k)
  PROVE  Holds(p, k)'
<1>1. \A n : PathOf(n)' = PathOf(n)
  BY DEF PathOf, commandLine
<1>2. CASE k = 0
  BY <1>1, <1>2 DEF Holds
<1>3. CASE output' = output
  <2>1. \A n : Asked(output.products, n)' = Asked(output.products, n)
    BY <1>3 DEF Asked, Text, commandLine, Variants, variants
  <2> QED
    BY <1>1, <2>1 DEF Holds
<1> QED
  BY <1>2, <1>3

LEMMA SameCommand ==
  ASSUME CommandInv, UNCHANGED <<commandLine, options>>
  PROVE  CommandInv'
BY DEF CommandInv, commandLine, DerivedOptions, Variants, variants

(* A step of the compiler: nothing has been published before it ends.      *)
LEMMA CompileKeeps ==
  ASSUME ToolInv, Compile
  PROVE  ToolInv'
<1>1. /\ exit = "none" /\ CompileStep
      /\ UNCHANGED toolVars
      /\ stage # "done"
  BY DEF Compile, CompileStep, ParseFile, BuildModule, SkipVariant,
         CompileVariant, StartLoading, StepFails, LoadVariant,
         RefuseMissingObject, HandOver
<1>2. options' = options
  BY <1>1 DEF CompileStep, ParseFile, BuildModule, SkipVariant, CompileVariant,
              StartLoading, StepFails, FailWith, LoadVariant,
              RefuseMissingObject, HandOver
<1>3. written = 0
  BY <1>1 DEF ToolInv, PublishInv
<1>4. \A p \in Paths : Holds(p, written)'
  <2> SUFFICES ASSUME NEW p \in Paths PROVE Holds(p, 0)'
    BY <1>1, <1>3 DEF toolVars, Holds
  <2> QED
    BY <1>1, <1>3, SameHolds DEF toolVars, commandLine, ToolInv, PublishInv
<1>5. CompileInv' /\ CommandInv'
  BY <1>1, <1>2, CompileStepKeeps, SameCommand
  DEF ToolInv, toolVars, commandLine
<1> QED
  BY <1>1, <1>3, <1>4, <1>5 DEF ToolInv, PublishInv, toolVars, commandLine

LEMMA SameCompilation ==
  ASSUME CompileInv, UNCHANGED compileVars
  PROVE  CompileInv'
BY CompileNextKeeps

(* A step of the command that publishes nothing.                           *)
LEMMA CommandKeeps ==
  ASSUME ToolInv,
         UNCHANGED <<compileVars, commandLine, written, files>>,
         \/ exit' = exit
         \/ exit' = "1" /\ written <= Len(dumps)
         \/ exit' = "0" /\ written = Len(dumps) + 1 /\ stage = "done"
  PROVE  ToolInv'
<1>1. CompileInv' /\ CommandInv'
  BY SameCompilation, SameCommand DEF ToolInv, compileVars
<1>2. \A p \in Paths : Holds(p, written)'
  <2> SUFFICES ASSUME NEW p \in Paths PROVE Holds(p, written)'
    OBVIOUS
  <2>1. written \in Nat
    BY DEF ToolInv, PublishInv, CommandInv
  <2> PICK k \in Nat : k = written
    BY <2>1
  <2>2. Holds(p, k)'
    BY SameHolds DEF ToolInv, PublishInv, compileVars
  <2> QED
    BY <2>2 DEF Holds
<1>3. PublishInv'
  BY <1>2 DEF ToolInv, PublishInv, commandLine, compileVars
<1> QED
  BY <1>1, <1>3 DEF ToolInv

LEMMA ToolInitHolds == ToolInit => ToolInv
<1> SUFFICES ASSUME ToolInit PROVE ToolInv
  OBVIOUS
<1>1. CompileInv
  BY CompileInitHolds DEF ToolInit
<1>2. CommandInv
  BY DumpsAssumption DEF ToolInit, CommandInv
<1>3. PublishInv
  BY <1>2 DEF ToolInit, PublishInv, Holds, CommandInv
<1> QED
  BY <1>1, <1>2, <1>3 DEF ToolInv

LEMMA ToolNextKeeps == ToolInv /\ [ToolNext]_vars => ToolInv'
<1> SUFFICES ASSUME ToolInv, [ToolNext]_vars PROVE ToolInv'
  OBVIOUS
<1>1. Len(dumps) \in Nat /\ written \in 0..(Len(dumps) + 1)
  BY DEF ToolInv, CommandInv, PublishInv
<1>2. CASE Compile
  BY <1>2, CompileKeeps
<1>3. CASE CompileFailed
  <2>1. stage = "failed" /\ written = 0
    BY <1>3, <1>1 DEF CompileFailed, ToolInv, PublishInv
  <2> QED
    BY <1>1, <1>3, <2>1, CommandKeeps DEF CompileFailed
<1>4. CASE WriteTemporary
  BY <1>4, CommandKeeps DEF WriteTemporary
<1>5. CASE WriteFails
  <2>1. stage = "done" /\ written <= Len(dumps)
    BY <1>5 DEF WriteFails, Writing
  <2>2. ~ Refuses(output.products, written + 1)
    BY <1>1, <2>1, NothingMissing DEF ToolInv, CompileInv
  <2> QED
    BY <1>5, <2>1, <2>2, CommandKeeps DEF WriteFails
<1>6. CASE Publish
  <2>1. CompileInv' /\ CommandInv'
    BY <1>6, SameCompilation, SameCommand DEF Publish, ToolInv, compileVars
  <2>2. /\ written' = written + 1 /\ written + 1 \in 0..(Len(dumps) + 1)
        /\ exit = "none" /\ stage = "done"
        /\ UNCHANGED <<exit, stage, dumps>>
    BY <1>1, <1>6 DEF Publish, Writing, compileVars, commandLine
  <2>3. DOMAIN files' = Paths
    BY <1>6 DEF Publish, ToolInv, PublishInv
  <2>4. \A p \in Paths : Holds(p, written)'
    BY <1>6, PublishHolds
  <2>5. PublishInv'
    BY <2>2, <2>3, <2>4 DEF PublishInv
  <2> QED
    BY <2>1, <2>5 DEF ToolInv
<1>7. CASE PublishFails
  BY <1>7, CommandKeeps DEF PublishFails, Writing
<1>8. CASE Finish
  BY <1>8, CommandKeeps DEF Finish
<1>9. CASE UNCHANGED vars
  BY <1>9, CommandKeeps DEF vars, toolVars, commandLine
<1> QED
  BY <1>2, <1>3, <1>4, <1>5, <1>6, <1>7, <1>8, <1>9 DEF ToolNext

LEMMA NothingAsked ==
  ToolInv => NothingAskedIsMissing
BY DEF ToolInv, PublishInv, CompileInv, CommandInv, RefusedForAReason,
       DerivedOptions, NothingAskedIsMissing

LEMMA ExitTells ==
  ASSUME ToolInv
  PROVE  ExitTellsWhatIsPublished
<1>1. Len(dumps) \in Nat /\ written \in Nat
  BY DEF ToolInv, CommandInv, PublishInv
<1>2. ASSUME exit = "0", NEW p \in Paths
      PROVE  IF LastFor(p) = {} THEN files[p] = Old
             ELSE \A n \in LastFor(p) :
                    files[p] = Asked(output.products, n) /\ files[p] # {}
  <2> DEFINE last == Len(dumps) + 1
  <2>1. stage = "done" /\ Holds(p, last)
    BY <1>2 DEF ToolInv, PublishInv
  <2>2. CASE \A n \in 1..last : PathOf(n) # p
    BY <2>1, <2>2 DEF Holds, LastFor
  <2>3. CASE \E n \in 1..last : PathOf(n) = p
    <3>1. PICK n \in 1..last :
            /\ PathOf(n) = p
            /\ \A m \in (n + 1)..last : PathOf(m) # p
            /\ files[p] = Asked(output.products, n)
      BY <2>1, <2>3 DEF Holds
    <3>2. LastFor(p) = {n}
      BY <1>1, <3>1 DEF LastFor
    <3>3. files[p] # {}
      BY <2>1, <3>1, NothingMissing DEF ToolInv, CompileInv
    <3> QED
      BY <3>1, <3>2, <3>3
  <2> QED
    BY <2>2, <2>3
<1>3. ASSUME exit = "1", \A d \in DOMAIN dumps : dumps[d].path # outputPath
      PROVE  files[outputPath] = Old
  <2>1. /\ outputPath \in Paths /\ written <= Len(dumps)
        /\ Holds(outputPath, written)
        /\ DOMAIN dumps = 1..Len(dumps)
    BY <1>3 DEF ToolInv, PublishInv, CommandInv
  <2>2. \A n \in 1..written : PathOf(n) # outputPath
    BY <1>1, <1>3, <2>1 DEF PathOf
  <2> QED
    BY <2>1, <2>2 DEF Holds
<1> QED
  BY <1>2, <1>3 DEF ExitTellsWhatIsPublished

(* The command never compiles a graph only to refuse what it left out.     *)
THEOREM NothingAskedMissing == ToolSpec => []NothingAskedIsMissing
<1>1. ToolInit => ToolInv
  BY ToolInitHolds
<1>2. ToolInv /\ [ToolNext]_vars => ToolInv'
  BY ToolNextKeeps
<1>3. ToolInv => NothingAskedIsMissing
  BY NothingAsked
<1> QED
  BY <1>1, <1>2, <1>3, PTL DEF ToolSpec

(* Exit code 0: every path holds the last text asked for under it.  Exit   *)
(* code 1: the former artifact is in place.                                *)
THEOREM ExitIsTruthful == ToolSpec => []ExitTellsWhatIsPublished
<1>1. ToolInit => ToolInv
  BY ToolInitHolds
<1>2. ToolInv /\ [ToolNext]_vars => ToolInv'
  BY ToolNextKeeps
<1>3. ToolInv => ExitTellsWhatIsPublished
  BY ExitTells
<1> QED
  BY <1>1, <1>2, <1>3, PTL DEF ToolSpec

(***************************************************************************)
(* Reading what was written: fields that stand in the units are read.      *)
(***************************************************************************)
(* These fields are what is left of the units.                             *)
Remains(units, from, fields) ==
  /\ StandsAt(WrittenUnits(fields), units, from)
  /\ from + Len(WrittenUnits(fields)) = Len(units)

LEMMA RemainsSplit ==
  ASSUME NEW units \in Seq(Units), NEW from \in Nat, NEW F \in Seq(Field), NEW G \in Seq(Field),
         Remains(units, from, F \o G)
  PROVE  /\ StandsAt(WrittenUnits(F), units, from)
         /\ Remains(units, from + Len(WrittenUnits(F)), G)
         /\ Len(WrittenUnits(F)) \in Nat /\ from \in 0..Len(units)
         /\ from + Len(WrittenUnits(F)) \in 0..Len(units)
<1>1. PICK p, q : p = WrittenUnits(F) /\ q = WrittenUnits(G)
  OBVIOUS
<1>2. p \in Seq(Units) /\ q \in Seq(Units) /\ Len(p) \in Nat /\ Len(q) \in Nat
  BY <1>1, WrittenIsUnits
<1>3. WrittenUnits(F \o G) = p \o q
  BY <1>1, WrittenConcat
<1>4. Len(p \o q) = Len(p) + Len(q)
  BY <1>2, ConcatLengths
<1>5. StandsAt(p \o q, units, from) /\ from + Len(p \o q) = Len(units)
  BY <1>3 DEF Remains
<1>6. StandsAt(p, units, from) /\ StandsAt(q, units, from + Len(p))
  BY <1>2, <1>5, StandsConcat
<1>7. Len(units) \in Nat /\ (from + Len(p)) + Len(q) = Len(units)
  BY <1>2, <1>4, <1>5, LenProperties
<1>8. Remains(units, from + Len(p), G)
  BY <1>1, <1>6, <1>7 DEF Remains
<1> QED
  BY <1>1, <1>2, <1>6, <1>7, <1>8

LEMMA ReadAllRecord ==
  ASSUME NEW units \in Seq(Units), NEW from \in Nat, NEW kinds \in Seq(Kinds),
         NEW read, read = ReadAll(units, from, kinds), read.ok
  PROVE  read = [ok |-> TRUE, value |-> read.value, at |-> read.at]
<1>1. CASE Len(kinds) = 0
  <2>1. read = NothingRead(from)
    BY <1>1, ReadAllFirst
  <2> QED
    BY <2>1 DEF NothingRead
<1>2. CASE Len(kinds) # 0
  <2>1. Len(kinds) \in 1..Len(kinds)
    BY <1>2, LenProperties
  <2>2. PICK before, kind : read = ReadNext(units, before, kind)
    <3>1. read = ReadAllUpTo(units, from, kinds)[Len(kinds)]
      BY ReadAllFirst
    <3> QED
      BY <2>1, <3>1, ReadAllNext
  <2>3. PICK one, next : read = [ok |-> TRUE, value |-> one, at |-> next]
    BY <2>2 DEF ReadNext, Short
  <2> QED
    BY <2>3
<1> QED
  BY <1>1, <1>2

(* These are the values of the fields.                                     *)
Valued(values, fields) ==
  /\ Len(values) = Len(fields)
  /\ \A k \in 1..Len(fields) : values[k] = fields[k][2]

LEMMA FieldsComplete ==
  ASSUME NEW units \in Seq(Units), NEW from \in Nat, NEW F \in Seq(Readable),
         NEW G \in Seq(Field), Remains(units, from, F \o G),
         NEW kinds, kinds = KindsOf(F), NEW read, read = ReadAll(units, from, kinds)
  PROVE  /\ read.ok /\ Valued(read.value, F)
         /\ Remains(units, read.at, G) /\ read.at \in 0..Len(units)
         /\ read = [ok |-> TRUE, value |-> read.value, at |-> read.at]
<1>1. F \in Seq(Field)
  BY ReadableLists
<1>2. kinds \in Seq(Kinds) /\ Len(kinds) = Len(F)
  BY KindsOfFields
<1>3. /\ StandsAt(WrittenUnits(F), units, from)
      /\ Remains(units, from + Len(WrittenUnits(F)), G)
      /\ from + Len(WrittenUnits(F)) \in 0..Len(units)
  BY <1>1, RemainsSplit
<1>4. /\ read.ok /\ Len(read.value) = Len(F)
      /\ \A k \in 1..Len(F) : read.value[k] = F[k][2]
      /\ read.at = from + Len(WrittenUnits(F))
  <2>1. LET all == ReadAll(units, from, KindsOf(F))
        IN /\ all.ok /\ Len(all.value) = Len(F)
           /\ \A k \in 1..Len(F) : all.value[k] = F[k][2]
           /\ all.at = from + Len(WrittenUnits(F))
    BY <1>3, ReadAllComplete
  <2> QED
    BY <2>1
<1>5. read = [ok |-> TRUE, value |-> read.value, at |-> read.at]
  BY <1>2, <1>4, ReadAllRecord
<1> QED
  BY <1>3, <1>4, <1>5 DEF Valued

LEMMA NumbersComplete ==
  ASSUME NEW units \in Seq(Units), NEW from \in Nat, NEW list \in Seq(Signed),
         NEW G \in Seq(Field), Remains(units, from, I64s(list) \o G),
         NEW n, n = Len(list), NEW read, read = ReadI64s(units, from, n)
  PROVE  /\ read.ok /\ read.value = list
         /\ Remains(units, read.at, G) /\ read.at \in 0..Len(units)
         /\ read = [ok |-> TRUE, value |-> read.value, at |-> read.at]
<1>1. PICK F : F = I64s(list)
  OBVIOUS
<1>2. DOMAIN list = 1..Len(list) /\ Len(list) \in Nat
  BY LenProperties
<1>3. F \in Seq(Readable) /\ Len(F) = n
  BY <1>1, SignedList, LimitedIsReadable
<1>4. PICK kinds : kinds = [k \in 1..n |-> "i64"]
  OBVIOUS
<1>5. kinds = KindsOf(F)
  BY <1>1, <1>2, <1>4 DEF KindsOf, I64s, I64
<1>6. read = ReadAll(units, from, kinds)
  BY <1>4 DEF ReadI64s
<1>7. /\ read.ok /\ Valued(read.value, F)
      /\ Remains(units, read.at, G) /\ read.at \in 0..Len(units)
      /\ read = [ok |-> TRUE, value |-> read.value, at |-> read.at]
  BY <1>1, <1>3, <1>5, <1>6, FieldsComplete
<1>8. from \in 0..Len(units)
  BY <1>1, <1>3, ReadableLists, RemainsSplit
<1>9. read.value \in Seq(Signed) /\ Len(read.value) = n
  BY <1>2, <1>7, <1>8, NumbersTaken
<1>10. \A k \in 1..Len(list) : read.value[k] = list[k]
  <2>1. \A k \in 1..Len(list) : F[k][2] = list[k]
    BY <1>1, <1>2 DEF I64s, I64
  <2> QED
    BY <1>3, <1>7, <2>1 DEF Valued
<1>11. read.value = list
  BY <1>9, <1>10, SeqEqual
<1> QED
  BY <1>7, <1>11

LEMMA UnitComplete ==
  ASSUME NEW units \in Seq(Units), NEW from \in Nat, NEW n \in Units,
         NEW G \in Seq(Field), Remains(units, from, <<U32(n)>> \o G),
         NEW read, read = ReadUnsigned(units, from, 1)
  PROVE  /\ read.ok /\ read.value = n
         /\ Remains(units, read.at, G) /\ read.at \in 0..Len(units)
<1>1. PICK F : F = <<U32(n)>>
  OBVIOUS
<1>2. PICK field : field = U32(n)
  OBVIOUS
<1>3. field \in Field /\ Encoded(field) = <<n>>
  BY <1>2, FieldTypes DEF U32, Encoded
<1>4. F \in Seq(Field) /\ WrittenUnits(F) = <<n>>
  BY <1>1, <1>2, <1>3, WrittenOne
<1>5. Len(<<n>>) = 1
  OBVIOUS
<1>6. /\ StandsAt(<<n>>, units, from) /\ Remains(units, from + 1, G)
      /\ from + 1 \in 0..Len(units)
  BY <1>1, <1>4, <1>5, RemainsSplit
<1>7. read = [ok |-> TRUE, at |-> from + 1, value |-> n]
  BY <1>6, UnitRead
<1> QED
  BY <1>6, <1>7

LEMMA ListComplete ==
  ASSUME file.payload \in Seq(Units), NEW from \in Nat, NEW list \in Lists(Signed),
         NEW first \in Nat, restored.version \in Nat, restored.version < first => list = <<>>,
         Len(list) <= MaxEntries, NEW G \in Seq(Field),
         Remains(file.payload, from,
                 Since(first, restored.version, <<U32(Len(list))>> \o I64s(list)) \o G),
         NEW read, read = ReadList(from, first)
  PROVE  /\ read.ok /\ read.value = list
         /\ Remains(file.payload, read.at, G) /\ read.at \in 0..Len(file.payload)
<1>1. CASE restored.version < first
  <2>1. Since(first, restored.version, <<U32(Len(list))>> \o I64s(list)) = <<>>
    BY <1>1 DEF Since
  <2>2. <<>> \o G = G /\ <<>> \in Seq(Field)
    BY ConcatEmptySeq, EmptySeq
  <2>3. from \in 0..Len(file.payload)
    BY <2>1, <2>2, RemainsSplit
  <2>4. read = [ok |-> TRUE, value |-> <<>>, at |-> from]
    BY <1>1 DEF ReadList, NothingRead
  <2>5. Remains(file.payload, from, G)
    <3>1. PICK H : H = <<>> \o G
      OBVIOUS
    <3>2. Remains(file.payload, from, H) /\ H = G
      BY <2>1, <2>2, <3>1
    <3> QED
      BY <3>2
  <2> QED
    BY <1>1, <2>3, <2>4, <2>5
<1>2. CASE ~(restored.version < first)
  <2>1. PICK n : n = Len(list)
    OBVIOUS
  <2>2. list \in Seq(Signed) /\ n \in Units
    BY <2>1 DEF Lists
  <2>3. PICK a, b : a = <<U32(n)>> /\ b = I64s(list)
    OBVIOUS
  <2>4. b \in Seq(Field)
    BY <2>2, <2>3, SignedList, LimitedIsField
  <2>5. a \in Seq(Field)
    BY <2>2, <2>3, FieldTypes, WrittenOne DEF U32
  <2>6. Since(first, restored.version, <<U32(Len(list))>> \o I64s(list)) = a \o b
    BY <1>2, <2>1, <2>3 DEF Since
  <2>7. (a \o b) \o G = a \o (b \o G) /\ b \o G \in Seq(Field)
    <3>1. Regroups(a, b, G)
      BY <2>4, <2>5, Regrouped
    <3>2. b \o G \in Seq(Field)
      BY <2>4, ConcatLengths
    <3> QED
      BY <3>1, <3>2 DEF Regroups
  <2>8. PICK count : count = ReadUnsigned(file.payload, from, 1)
    OBVIOUS
  <2>9. PICK rest : rest = b \o G
    OBVIOUS
  <2>10. Remains(file.payload, from, <<U32(n)>> \o rest)
    BY <2>3, <2>6, <2>7, <2>9
  <2>11. /\ count.ok /\ count.value = n
         /\ Remains(file.payload, count.at, rest) /\ count.at \in 0..Len(file.payload)
    <3>1. rest \in Seq(Field)
      BY <2>7, <2>9
    <3>2. PICK units : units = file.payload
      OBVIOUS
    <3>3. units \in Seq(Units) /\ Remains(units, from, <<U32(n)>> \o rest)
      BY <2>10, <3>2
    <3>4. count = ReadUnsigned(units, from, 1)
      BY <2>8, <3>2
    <3>5. /\ count.ok /\ count.value = n
          /\ Remains(units, count.at, rest) /\ count.at \in 0..Len(units)
      BY <2>2, <3>1, <3>3, <3>4, UnitComplete
    <3> QED
      BY <3>2, <3>5
  <2>12. PICK numbers : numbers = ReadI64s(file.payload, count.at, n)
    OBVIOUS
  <2>13. count.at \in Nat
    BY <2>11, LenProperties
  <2>14. /\ numbers.ok /\ numbers.value = list
         /\ Remains(file.payload, numbers.at, G) /\ numbers.at \in 0..Len(file.payload)
    BY <2>1, <2>2, <2>3, <2>9, <2>11, <2>12, <2>13, NumbersComplete
  <2>15. read = numbers
    BY <1>2, <2>1, <2>8, <2>11, <2>12 DEF ReadList
  <2> QED
    BY <2>14, <2>15
<1> QED
  BY <1>1, <1>2

(***************************************************************************)
(* What is left to read of a file that was not damaged.                    *)
(***************************************************************************)
(* The pieces from the k-th one on.                                        *)
From(pieces, k) == Joint(SubSeq(pieces, k, Len(pieces)))

VariantsOf(c, order) == [k \in DOMAIN order |-> Variant(c, order[k])]

FromVariant(order, k) == From(VariantsOf(compiled, order), k)
FromNumeric(order) == NumericContract \o FromVariant(order, 1)
FromAllocation(order, k) == From(Allocated(compiled.plan), k) \o FromNumeric(order)
FromPlan(order) ==
  PlanHead(compiled.plan, Len(compiled.plan.allocations)) \o FromAllocation(order, 1)
FromAdapter(order) == Adapter(compiled) \o FromPlan(order)
FromArgument(order, k) == From(Entries(compiled), k) \o FromAdapter(order)
FromArguments(order) == <<U32(Len(compiled.arguments))>> \o FromArgument(order, 1)
FromOverrides(order) == Overrides(compiled, compiled.version) \o FromArguments(order)
FromLegacy(order) == Convolution(compiled.conv) \o FromPlan(order)
AfterHeader(order) ==
  IF compiled.version = 1 THEN FromLegacy(order)
  ELSE IF compiled.version = 2 THEN FromArguments(order) ELSE FromOverrides(order)

FieldsToRead(order) ==
  CASE phase = "header" -> Header(compiled, compiled.version) \o AfterHeader(order)
    [] phase = "overrides" -> FromOverrides(order)
    [] phase = "legacy" -> FromLegacy(order)
    [] phase = "arguments" -> FromArguments(order)
    [] phase = "argument" -> FromArgument(order, Len(compiled.arguments) - left + 1)
    [] phase = "adapter" -> FromAdapter(order)
    [] phase = "plan" -> FromPlan(order)
    [] phase = "allocation" ->
         FromAllocation(order, Len(compiled.plan.allocations) - left + 1)
    [] phase = "numeric" -> FromNumeric(order)
    [] phase = "variant" -> FromVariant(order, Len(seen) + 1)
    [] OTHER -> <<>>

(* The file, and the artifact it was written from.                         *)
CompiledInv ==
  /\ compiled \in Artifact
  /\ compiled.adapter = GenericAdapter => compiled.conv = NoConvolution
  /\ ValidCompilation(compiled) /\ Expressible(compiled, compiled.version)
  /\ damage = "none" => file.sum = file.payload

(* What has been read is what was written.                                 *)
HeaderAlike ==
  /\ restored.version = compiled.version /\ restored.triple = compiled.triple
  /\ restored.function = compiled.function
OverridesAlike ==
  /\ restored.dynamic = compiled.dynamic /\ restored.override = compiled.override
  /\ restored.policy = compiled.policy
  /\ restored.roles = compiled.roles /\ restored.axes = compiled.axes
ArgumentsAlike(n) ==
  left <= Len(compiled.arguments) /\ restored.arguments = SubSeq(compiled.arguments, 1, n)
AdapterAlike == restored.adapter = compiled.adapter /\ restored.conv = compiled.conv
PlanAlike(n) ==
  /\ left <= Len(compiled.plan.allocations)
  /\ restored.plan.size = compiled.plan.size
  /\ restored.plan.alignment = compiled.plan.alignment
  /\ restored.plan.allocations = SubSeq(compiled.plan.allocations, 1, n)

Ending == {"variant", "contract", "accepted"}
Planning == {"plan", "allocation", "numeric"} \cup Ending

Alike ==
  /\ phase = "header" => restored = EmptyInfo
  /\ phase # "header" => HeaderAlike
  /\ phase \notin {"header", "overrides"} => OverridesAlike
  /\ phase = "legacy" => restored.adapter = ConvAdapter
  /\ phase = "argument" => ArgumentsAlike(Len(compiled.arguments) - left)
  /\ phase \in {"adapter"} \cup Planning => restored.arguments = compiled.arguments
  /\ phase \in Planning => AdapterAlike
  /\ phase = "allocation" => PlanAlike(Len(compiled.plan.allocations) - left)
  /\ phase \in {"numeric"} \cup Ending => restored.plan = compiled.plan
  /\ phase \in Ending => \A v \in Items(seen) : restored.variants[v] = compiled.variants[v]
  /\ phase \in {"contract", "accepted"} => Len(seen) = 3

Orderings == {order \in [1..3 -> 1..3] : Items(order) = 1..3}

Follows(order) ==
  /\ phase # "refused" /\ Alike
  /\ seen = SubSeq(order, 1, Len(seen))
  /\ Remains(file.payload, at, FieldsToRead(order))

(* The file is whole, and a reader takes its texts.                        *)
Whole == damage = "none" /\ ShortTexts(compiled, MaxStringSize)

WholeInv == Whole => \E order \in Orderings : Follows(order)

(* The pieces that are left, from the first, the next or past the last.    *)
LEMMA FromAll ==
  ASSUME NEW S, NEW pieces \in Seq(Seq(S))
  PROVE  From(pieces, 1) = Joint(pieces)
<1>1. Len(pieces) \in Nat
  BY LenProperties
<1>2. /\ SubSeq(pieces, 1, Len(pieces)) \in Seq(Seq(S))
      /\ Len(SubSeq(pieces, 1, Len(pieces))) = Len(pieces)
      /\ \A i \in 1..Len(pieces) : SubSeq(pieces, 1, Len(pieces))[i] = pieces[i]
  BY <1>1, Prefix
<1>3. SubSeq(pieces, 1, Len(pieces)) = pieces
  BY <1>2, SeqEqual
<1> QED
  BY <1>3 DEF From

LEMMA FromNone ==
  ASSUME NEW S, NEW pieces \in Seq(S), NEW k, k = Len(pieces) + 1
  PROVE  From(pieces, k) = <<>>
<1>1. Len(pieces) \in Nat
  BY LenProperties
<1>2. SubSeq(pieces, k, Len(pieces)) = <<>>
  BY <1>1, SubSeqProperties
<1> QED
  BY <1>2, JointOfNone DEF From

LEMMA FromNext ==
  ASSUME NEW S, NEW pieces \in Seq(Seq(S)), NEW k \in 1..Len(pieces)
  PROVE  From(pieces, k) = pieces[k] \o From(pieces, k + 1)
<1>1. PICK n : n = Len(pieces)
  OBVIOUS
<1>2. n \in Nat /\ k \in 1..n
  BY <1>1, LenProperties
<1>3. PICK s, t : s = SubSeq(pieces, k, n) /\ t = SubSeq(pieces, k + 1, n)
  OBVIOUS
<1>4. /\ s \in Seq(Seq(S)) /\ Len(s) = n - k + 1
      /\ \A i \in 1..(n - k + 1) : s[i] = pieces[k + i - 1]
  BY <1>1, <1>2, <1>3, SubSeqProperties
<1>5. /\ t \in Seq(Seq(S)) /\ Len(t) = n - k
      /\ \A i \in 1..(n - k) : t[i] = pieces[k + i]
  <2>1. CASE k = n
    <3>1. t = <<>>
      BY <1>1, <1>2, <1>3, <2>1, SubSeqProperties
    <3>2. n - k = 0 /\ 1..0 = {}
      BY <1>2, <2>1
    <3> QED
      BY <3>1, <3>2, EmptySeq
  <2>2. CASE k # n
    <3>1. PICK j \in 1..n : j = k + 1
      BY <1>2, <2>2
    <3>2. j \in Int /\ n \in Int /\ \A i \in j..n : pieces[i] \in Seq(S)
      BY <1>1, <1>2, <3>1
    <3>3. t = SubSeq(pieces, j, n)
      BY <1>3, <3>1
    <3>4. /\ t \in Seq(Seq(S)) /\ Len(t) = IF j <= n THEN n - j + 1 ELSE 0
          /\ \A i \in 1..(n - j + 1) : t[i] = pieces[j + i - 1]
      BY <3>2, <3>3, SubSeqProperties, SMTT(30)
    <3>5. Len(t) = n - j + 1
      BY <1>2, <3>1, <3>4
    <3> QED
      BY <1>2, <3>1, <3>4, <3>5
  <2> QED
    BY <2>1, <2>2
<1>6. PICK piece \in Seq(S) : piece = pieces[k]
  BY <1>1, <1>2, ElementOfSeq
<1>7. PICK one : one = <<piece>>
  OBVIOUS
<1>8. one \in Seq(Seq(S)) /\ Len(one) = 1 /\ one[1] = piece
  BY <1>7
<1>9. one \o t = s
  <2>1. Len(s) = 1 + Len(t)
    BY <1>2, <1>4, <1>5
  <2>2. s[1] = piece
    BY <1>2, <1>4, <1>6
  <2>3. \A i \in 1..Len(t) : s[1 + i] = t[i]
    BY <1>2, <1>4, <1>5
  <2>4. Joins(one, t, s)
    BY <1>8, <2>1, <2>2, <2>3 DEF Joins
  <2> QED
    BY <1>4, <1>5, <1>8, <2>4, ListOfTwo
<1>10. Joint(one \o t) = Joint(one) \o Joint(t)
  BY <1>5, <1>8, JointConcat
<1>11. Joint(one) = piece
  BY <1>6, <1>7, JointOfOne
<1> QED
  BY <1>1, <1>3, <1>6, <1>9, <1>10, <1>11 DEF From

LEMMA FromIsList ==
  ASSUME NEW S, NEW pieces \in Seq(Seq(S)), NEW k \in 1..(Len(pieces) + 1)
  PROVE  From(pieces, k) \in Seq(S)
<1>1. Len(pieces) \in Nat
  BY LenProperties
<1>2. SubSeq(pieces, k, Len(pieces)) \in Seq(Seq(S))
  <2>1. CASE k = Len(pieces) + 1
    <3>1. SubSeq(pieces, k, Len(pieces)) = <<>>
      BY <1>1, <2>1, SubSeqProperties
    <3> QED
      BY <3>1, EmptySeq
  <2>2. CASE k # Len(pieces) + 1
    <3>1. k \in 1..Len(pieces)
      BY <1>1, <2>2
    <3> QED
      BY <1>1, <3>1, SubSeqProperties
  <2> QED
    BY <2>1, <2>2
<1> QED
  BY <1>2, JointIsList DEF From

(* The fields of a compiled artifact whose texts a reader takes are ones a *)
(* reader takes.                                                           *)
LEMMA ReadableParts ==
  ASSUME compiled \in Artifact, ShortTexts(compiled, MaxStringSize)
  PROVE  /\ Header(compiled, compiled.version) \in Seq(Readable)
         /\ Overrides(compiled, compiled.version) \in Seq(Readable)
         /\ Convolution(compiled.conv) \in Seq(Readable)
         /\ Adapter(compiled) \in Seq(Readable) /\ NumericContract \in Seq(Readable)
         /\ PlanHead(compiled.plan, Len(compiled.plan.allocations)) \in Seq(Readable)
         /\ <<U32(Len(compiled.arguments))>> \in Seq(Readable)
<1>1. PICK L : L = MaxStringSize
  OBVIOUS
<1>2. L \in Nat /\ L >= 1 /\ Limited(L) = Readable
  BY <1>1, UnitsFacts, LimitedIsReadable
<1>3. ShortTexts(compiled, L)
  BY <1>1
<1>4. Header(compiled, compiled.version) \in Seq(Limited(L))
  BY <1>2, <1>3, ArtifactParts, ShortParts, HeaderFields
<1>5. Overrides(compiled, compiled.version) \in Seq(Limited(L))
  BY ArtifactParts, OverridesFields
<1>6. Convolution(compiled.conv) \in Seq(Limited(L))
  BY ArtifactParts, ConvolutionFieldsWritten
<1>7. Adapter(compiled) \in Seq(Limited(L))
  BY ArtifactParts, AdapterFields
<1>8. NumericContract \in Seq(Limited(L))
  BY NumericFields
<1>9. /\ compiled.plan.size \in Unsigned /\ compiled.plan.alignment \in Unsigned
      /\ Len(compiled.plan.allocations) \in Units /\ Len(compiled.arguments) \in Units
  <2>1. compiled.plan \in PlanRecord /\ compiled.arguments \in Lists(ArgumentRecord)
    BY ArtifactParts
  <2> QED
    BY <2>1 DEF PlanRecord, Lists
<1>10. PICK s, a, n, m : /\ s = U64(compiled.plan.size) /\ a = U64(compiled.plan.alignment)
                         /\ n = U32(Len(compiled.plan.allocations))
                         /\ m = U32(Len(compiled.arguments))
  OBVIOUS
<1>11. s \in Limited(L) /\ a \in Limited(L) /\ n \in Limited(L) /\ m \in Limited(L)
  BY <1>9, <1>10, LimitedNumbers
<1>12. <<s, a, n>> \in Seq(Limited(L)) /\ <<m>> \in Seq(Limited(L))
  <2> HIDE DEF Limited
  <2> QED
    BY <1>11
<1>13. PlanHead(compiled.plan, Len(compiled.plan.allocations)) = <<s, a, n>>
  BY <1>10 DEF PlanHead
<1> QED
  BY <1>2, <1>4, <1>5, <1>6, <1>7, <1>8, <1>10, <1>12, <1>13

LEMMA ReadablePieces ==
  ASSUME compiled \in Artifact, ShortTexts(compiled, MaxStringSize), NEW order \in [1..3 -> 1..3]
  PROVE  /\ Entries(compiled) \in Seq(Seq(Readable))
         /\ Len(Entries(compiled)) = Len(compiled.arguments)
         /\ Allocated(compiled.plan) \in Seq(Seq(Readable))
         /\ Len(Allocated(compiled.plan)) = Len(compiled.plan.allocations)
         /\ VariantsOf(compiled, order) \in Seq(Seq(Readable))
         /\ Len(VariantsOf(compiled, order)) = 3
         /\ Len(compiled.arguments) \in Nat /\ Len(compiled.plan.allocations) \in Nat
         /\ \A k \in 1..Len(compiled.arguments) :
              Entries(compiled)[k] = Argument(compiled.arguments[k], compiled.version)
         /\ \A k \in 1..Len(compiled.plan.allocations) :
              Allocated(compiled.plan)[k] = Allocation(compiled.plan.allocations[k])
         /\ \A k \in 1..3 : VariantsOf(compiled, order)[k] = Variant(compiled, order[k])
<1>1. PICK L : L = MaxStringSize
  OBVIOUS
<1>2. Limited(L) = Readable /\ ShortTexts(compiled, L)
  BY <1>1, LimitedIsReadable
<1>3. PICK arguments, allocations :
        arguments = compiled.arguments /\ allocations = compiled.plan.allocations
  OBVIOUS
<1>4. arguments \in Seq(ArgumentRecord) /\ allocations \in Seq(AllocationRecord)
  <2>1. compiled.plan \in PlanRecord /\ compiled.arguments \in Lists(ArgumentRecord)
    BY ArtifactParts
  <2> QED
    BY <1>3, <2>1 DEF PlanRecord, Lists
<1>5. /\ DOMAIN arguments = 1..Len(arguments) /\ Len(arguments) \in Nat
      /\ DOMAIN allocations = 1..Len(allocations) /\ Len(allocations) \in Nat
      /\ \A k \in 1..Len(arguments) : arguments[k] \in ArgumentRecord
      /\ \A k \in 1..Len(allocations) : allocations[k] \in AllocationRecord
  BY <1>4, LenProperties, ElementOfSeq
<1>6. PICK version : version = compiled.version
  OBVIOUS
<1>7. /\ \A k \in 1..Len(arguments) : Argument(arguments[k], version) \in Seq(Readable)
      /\ \A k \in 1..Len(allocations) : Allocation(allocations[k]) \in Seq(Readable)
      /\ \A k \in 1..3 : Variant(compiled, order[k]) \in Seq(Readable)
  <2>1. \A k \in 1..Len(arguments) : Argument(arguments[k], version) \in Seq(Limited(L))
    BY <1>2, <1>3, <1>5, ShortParts, ArgumentFields
  <2>2. \A k \in 1..Len(allocations) : Allocation(allocations[k]) \in Seq(Limited(L))
    BY <1>2, <1>3, <1>5, ShortParts, AllocationFields
  <2>3. \A k \in 1..3 : Variant(compiled, order[k]) \in Seq(Limited(L))
    BY <1>2, ShortParts, ArtifactParts, VariantFields
  <2> QED
    BY <1>2, <2>1, <2>2, <2>3
<1>8. PICK e : e = [k \in 1..Len(arguments) |-> Argument(arguments[k], version)]
  OBVIOUS
<1>9. PICK a : a = [k \in 1..Len(allocations) |-> Allocation(allocations[k])]
  OBVIOUS
<1>10. PICK v : v = [k \in 1..3 |-> Variant(compiled, order[k])]
  OBVIOUS
<1>11. /\ e \in [1..Len(arguments) -> Seq(Readable)]
       /\ a \in [1..Len(allocations) -> Seq(Readable)]
       /\ v \in [1..3 -> Seq(Readable)]
  BY <1>7, <1>8, <1>9, <1>10
<1>12. /\ e \in Seq(Seq(Readable)) /\ Len(e) = Len(arguments)
       /\ a \in Seq(Seq(Readable)) /\ Len(a) = Len(allocations)
       /\ v \in Seq(Seq(Readable)) /\ Len(v) = 3
  <2>1. e \in Seq(Seq(Readable)) /\ Len(e) = Len(arguments)
    <3>1. PICK n : n = Len(arguments)
      OBVIOUS
    <3>2. n \in Nat /\ e \in [1..n -> Seq(Readable)]
      BY <1>5, <1>11, <3>1
    <3>3. e \in Seq(Seq(Readable)) /\ Len(e) = n
      BY <3>2, ListOfArray
    <3> QED
      BY <3>1, <3>3
  <2>2. a \in Seq(Seq(Readable)) /\ Len(a) = Len(allocations)
    <3>1. PICK n : n = Len(allocations)
      OBVIOUS
    <3>2. n \in Nat /\ a \in [1..n -> Seq(Readable)]
      BY <1>5, <1>11, <3>1
    <3>3. a \in Seq(Seq(Readable)) /\ Len(a) = n
      BY <3>2, ListOfArray
    <3> QED
      BY <3>1, <3>3
  <2>3. v \in Seq(Seq(Readable)) /\ Len(v) = 3
    BY <1>11, ShortArrays
  <2> QED
    BY <2>1, <2>2, <2>3
<1>13. /\ Entries(compiled) = e /\ Allocated(compiled.plan) = a
       /\ VariantsOf(compiled, order) = v
  <2>1. DOMAIN order = 1..3
    OBVIOUS
  <2> QED
    BY <1>3, <1>5, <1>6, <1>8, <1>9, <1>10, <2>1 DEF Entries, Allocated, VariantsOf
<1>14. /\ \A k \in 1..Len(arguments) : e[k] = Argument(arguments[k], version)
       /\ \A k \in 1..Len(allocations) : a[k] = Allocation(allocations[k])
       /\ \A k \in 1..3 : v[k] = Variant(compiled, order[k])
  BY <1>8, <1>9, <1>10
<1> QED
  BY <1>3, <1>5, <1>6, <1>12, <1>13, <1>14

(* So is what is left of them at any point.                                *)
LEMMA LeftFields ==
  ASSUME compiled \in Artifact, ShortTexts(compiled, MaxStringSize), NEW order \in [1..3 -> 1..3]
  PROVE  /\ \A k \in 1..4 : FromVariant(order, k) \in Seq(Readable)
         /\ FromNumeric(order) \in Seq(Readable)
         /\ \A k \in 1..(Len(compiled.plan.allocations) + 1) :
              FromAllocation(order, k) \in Seq(Readable)
         /\ FromPlan(order) \in Seq(Readable) /\ FromAdapter(order) \in Seq(Readable)
         /\ \A k \in 1..(Len(compiled.arguments) + 1) : FromArgument(order, k) \in Seq(Readable)
         /\ FromArguments(order) \in Seq(Readable) /\ FromOverrides(order) \in Seq(Readable)
         /\ FromLegacy(order) \in Seq(Readable) /\ AfterHeader(order) \in Seq(Readable)
<1>1. \A a, b \in Seq(Readable) : a \o b \in Seq(Readable)
  BY ConcatProperties
<1>2. \A k \in 1..4 : FromVariant(order, k) \in Seq(Readable)
  BY ReadablePieces, FromIsList DEF FromVariant
<1>3. FromNumeric(order) \in Seq(Readable)
  BY <1>1, <1>2, ReadableParts DEF FromNumeric
<1>4. \A k \in 1..(Len(compiled.plan.allocations) + 1) :
        FromAllocation(order, k) \in Seq(Readable)
  <2>1. \A k \in 1..(Len(compiled.plan.allocations) + 1) :
          From(Allocated(compiled.plan), k) \in Seq(Readable)
    BY ReadablePieces, FromIsList
  <2> QED
    BY <1>1, <1>3, <2>1 DEF FromAllocation
<1>5. FromPlan(order) \in Seq(Readable)
  <2>1. 1 \in 1..(Len(compiled.plan.allocations) + 1)
    BY ReadablePieces
  <2> QED
    BY <1>1, <1>4, <2>1, ReadableParts DEF FromPlan
<1>6. FromAdapter(order) \in Seq(Readable)
  BY <1>1, <1>5, ReadableParts DEF FromAdapter
<1>7. \A k \in 1..(Len(compiled.arguments) + 1) : FromArgument(order, k) \in Seq(Readable)
  <2>1. \A k \in 1..(Len(compiled.arguments) + 1) : From(Entries(compiled), k) \in Seq(Readable)
    BY ReadablePieces, FromIsList
  <2> QED
    BY <1>1, <1>6, <2>1 DEF FromArgument
<1>8. FromArguments(order) \in Seq(Readable)
  <2>1. 1 \in 1..(Len(compiled.arguments) + 1)
    BY ReadablePieces
  <2> QED
    BY <1>1, <1>7, <2>1, ReadableParts DEF FromArguments
<1>9. FromOverrides(order) \in Seq(Readable)
  BY <1>1, <1>8, ReadableParts DEF FromOverrides
<1>10. FromLegacy(order) \in Seq(Readable)
  BY <1>1, <1>5, ReadableParts DEF FromLegacy
<1> QED
  BY <1>2, <1>3, <1>4, <1>5, <1>6, <1>7, <1>8, <1>9, <1>10 DEF AfterHeader

(* A reader of a whole file, on its way through it.                        *)
Reading(order) == ReadInv /\ CompiledInv /\ Whole /\ order \in Orderings /\ Follows(order)

LEMMA ReadingFacts ==
  ASSUME NEW order, Reading(order)
  PROVE  /\ PlaceInv /\ compiled \in Artifact /\ ShortTexts(compiled, MaxStringSize)
         /\ order \in [1..3 -> 1..3] /\ Items(order) = 1..3
         /\ ContractValid(compiled) /\ IsText(compiled.triple)
         /\ Expressible(compiled, compiled.version) /\ compiled.version \in Nat
         /\ compiled.version \in 1..kArtifactFormatVersion
         /\ file.payload \in Seq(Units) /\ file.sum = file.payload
         /\ at \in Nat /\ at \in 0..Len(file.payload)
         /\ restored \in Readout /\ restored.version \in Nat
         /\ left \in Nat /\ seen \in Seq(1..3)
         /\ Alike /\ Remains(file.payload, at, FieldsToRead(order))
<1>1. /\ ReadInv /\ CompiledInv /\ Whole /\ Follows(order)
      /\ order \in [1..3 -> 1..3] /\ Items(order) = 1..3
  BY DEF Reading, Orderings
<1>2. PlaceInv
  BY <1>1 DEF ReadInv
<1>3. file.payload \in Seq(Units) /\ restored \in Readout /\ left \in Nat /\ seen \in Seq(1..3)
  BY <1>2 DEF PlaceInv
<1>4. compiled \in Artifact /\ ContractValid(compiled) /\ IsText(compiled.triple)
      /\ Expressible(compiled, compiled.version)
  BY <1>1 DEF CompiledInv, ValidCompilation
<1>5. ShortTexts(compiled, MaxStringSize) /\ file.sum = file.payload
  BY <1>1 DEF CompiledInv, Whole
<1>6. phase # "refused" /\ Alike /\ Remains(file.payload, at, FieldsToRead(order))
  BY <1>1 DEF Follows
<1>7. Taken(file.payload, 0, FieldsRead, at)
  BY <1>1, <1>6 DEF ReadInv
<1>8. at \in 0..Len(file.payload)
  <2>1. PICK units, fields, next : units = file.payload /\ fields = FieldsRead /\ next = at
    OBVIOUS
  <2>2. units \in Seq(Units) /\ Taken(units, 0, fields, next)
    BY <1>3, <1>7, <2>1
  <2>3. next \in 0..Len(units)
    BY <2>2, TakenEnd
  <2> QED
    BY <2>1, <2>3
<1>9. at \in Nat
  BY <1>3, <1>8, LenProperties
<1>10. compiled.version \in 1..kArtifactFormatVersion
  BY <1>4, ArtifactParts
<1>11. compiled.version \in Nat
  BY <1>10 DEF kArtifactFormatVersion
<1>12. restored.version \in Nat
  BY <1>3, ReadoutParts
<1> QED
  BY <1>1, <1>2, <1>3, <1>4, <1>5, <1>6, <1>8, <1>9, <1>10, <1>11, <1>12

(* What the versions without overrides leave at their defaults.            *)
LEMMA NoOverrides ==
  ASSUME NEW c \in Artifact, Expressible(c, c.version), c.version < 3
  PROVE  /\ c.dynamic = EmptyInfo.dynamic /\ c.override = EmptyInfo.override
         /\ c.policy = EmptyInfo.policy /\ c.roles = EmptyInfo.roles
         /\ c.axes = EmptyInfo.axes
<1>1. c.version \in 1..2
  BY ArtifactParts DEF kArtifactFormatVersion
<1>2. MaximumPolicy(c.version) = 0
  BY <1>1 DEF MaximumPolicy
<1>3. c.policy \in 0..8 /\ c.policy <= 0
  BY <1>2, ArtifactParts DEF Expressible
<1>4. c.dynamic = FALSE /\ c.override = FALSE
  <2>1. c.dynamic \in BOOLEAN /\ c.override \in BOOLEAN
    BY DEF Artifact
  <2> QED
    BY <2>1 DEF Expressible
<1>5. c.roles = <<>> /\ c.axes = <<>>
  BY <1>1 DEF Expressible
<1>6. c.policy = 0
  BY <1>3
<1>7. /\ EmptyInfo.dynamic = FALSE /\ EmptyInfo.override = FALSE
      /\ EmptyInfo.policy = 0 /\ EmptyInfo.roles = <<>> /\ EmptyInfo.axes = <<>>
  BY DEF EmptyInfo
<1> QED
  BY <1>4, <1>5, <1>6, <1>7

(* Each section of a whole file is read as it was written.                 *)
LEMMA HeaderReads ==
  ASSUME NEW order, Reading(order), ReadHeader, ReadInv'
  PROVE  Follows(order)'
<1>1. PICK kinds :
        kinds = <<"u32", "u32", "u32", "string", "string", "string", "string", "string">>
  OBVIOUS
<1>2. PICK read, v : read = ReadAll(file.payload, 0, kinds) /\ v = read.value
  OBVIOUS
<1>3. /\ phase = "header" /\ at = 0 /\ restored = EmptyInfo /\ seen = <<>>
      /\ Remains(file.payload, 0, Header(compiled, compiled.version) \o AfterHeader(order))
  <2>1. phase = "header"
    BY DEF ReadHeader
  <2>2. at = 0 /\ seen = <<>>
    BY <2>1, ReadingFacts DEF PlaceInv, Before
  <2>3. restored = EmptyInfo
    BY <2>1, ReadingFacts DEF Alike
  <2>4. FieldsToRead(order) = Header(compiled, compiled.version) \o AfterHeader(order)
    BY <2>1 DEF FieldsToRead
  <2>5. Remains(file.payload, at, FieldsToRead(order))
    BY ReadingFacts
  <2> QED
    BY <2>1, <2>2, <2>3, <2>4, <2>5
<1>4. PICK F, G : F = Header(compiled, compiled.version) /\ G = AfterHeader(order)
  OBVIOUS
<1>5. F \in Seq(Readable) /\ G \in Seq(Field)
  BY <1>4, ReadingFacts, ReadableParts, LeftFields, ReadableLists
<1>6. F = <<U32(Magic), U32(compiled.version), U32(EndianMarker), String(<<1>>), String(<<2>>),
            String(<<3>>), String(compiled.triple), String(compiled.function)>>
  BY <1>4, HeaderList
<1>7. kinds = KindsOf(F)
  BY <1>1, <1>6 DEF KindsOf, U32, String
<1>8. read.ok /\ Valued(v, F) /\ Remains(file.payload, read.at, G)
  <2>1. PICK units : units = file.payload
    OBVIOUS
  <2>2. units \in Seq(Units) /\ Remains(units, 0, F \o G) /\ read = ReadAll(units, 0, kinds)
    BY <1>2, <1>3, <1>4, <2>1, ReadingFacts
  <2>3. read.ok /\ Valued(read.value, F) /\ Remains(units, read.at, G)
    BY <1>5, <1>7, <2>2, FieldsComplete
  <2> QED
    BY <1>2, <2>1, <2>3
<1>9. /\ v[1] = Magic /\ v[2] = compiled.version /\ v[3] = EndianMarker
      /\ v[4] = <<1>> /\ v[5] = <<2>> /\ v[6] = <<3>>
      /\ v[7] = compiled.triple /\ v[8] = compiled.function
  <2>1. Len(F) = 8
    BY <1>6
  <2>2. \A k \in 1..8 : v[k] = F[k][2]
    BY <1>8, <2>1 DEF Valued
  <2> QED
    BY <1>6, <2>2 DEF U32, String
<1>10. /\ file.sum = file.payload /\ read.ok /\ v[1] = Magic
       /\ v[2] \in 1..kArtifactFormatVersion /\ v[3] = EndianMarker
       /\ <<v[4], v[5], v[6]>> = Producers /\ IsText(v[7])
  BY <1>8, <1>9, ReadingFacts DEF Producers
<1>11. /\ Took(read) /\ UNCHANGED seen
       /\ restored' = [restored EXCEPT !.version = v[2], !.triple = v[7], !.function = v[8]]
       /\ Goto(IF v[2] >= 3 THEN "overrides"
               ELSE IF v[2] = 2 THEN "arguments" ELSE "legacy", 0)
  BY <1>1, <1>2, <1>10 DEF ReadHeader
<1>12. /\ at' = read.at /\ file' = file /\ compiled' = compiled /\ damage' = damage
       /\ seen' = seen /\ left' = 0
       /\ phase' = IF compiled.version >= 3 THEN "overrides"
                   ELSE IF compiled.version = 2 THEN "arguments" ELSE "legacy"
  BY <1>9, <1>11 DEF Took, Goto
<1>13. /\ HeaderAlike' /\ restored'.adapter = ConvAdapter
       /\ restored'.dynamic = EmptyInfo.dynamic /\ restored'.override = EmptyInfo.override
       /\ restored'.policy = EmptyInfo.policy /\ restored'.roles = EmptyInfo.roles
       /\ restored'.axes = EmptyInfo.axes
  <2>1. EmptyInfo.adapter = ConvAdapter
    BY DEF EmptyInfo
  <2>2. restored' = WithHeader(EmptyInfo, v[2], v[7], v[8])
    BY <1>3, <1>11 DEF WithHeader
  <2>3. /\ restored'.version = v[2] /\ restored'.triple = v[7] /\ restored'.function = v[8]
        /\ restored'.adapter = EmptyInfo.adapter
        /\ restored'.dynamic = EmptyInfo.dynamic /\ restored'.override = EmptyInfo.override
        /\ restored'.policy = EmptyInfo.policy /\ restored'.roles = EmptyInfo.roles
        /\ restored'.axes = EmptyInfo.axes
    BY <2>2, EmptyTypes DEF WithHeader, Readout
  <2> QED
    BY <1>9, <1>12, <2>1, <2>3 DEF HeaderAlike
<1>14. compiled.version < 3 => OverridesAlike'
  BY <1>12, <1>13, ReadingFacts, NoOverrides DEF OverridesAlike
<1>15. Alike'
  <2>1. CASE compiled.version >= 3
    BY <1>12, <1>13, <2>1 DEF Alike, Planning, Ending
  <2>2. CASE ~(compiled.version >= 3)
    <3>1. OverridesAlike'
      BY <1>14, <2>2, ReadingFacts
    <3> QED
      BY <1>12, <1>13, <2>2, <3>1 DEF Alike, Planning, Ending
  <2> QED
    BY <2>1, <2>2
<1>16. FieldsToRead(order)' = G
  <2>1. CASE compiled.version >= 3
    <3>1. FieldsToRead(order)' = FromOverrides(order)'
      BY <1>12, <2>1 DEF FieldsToRead
    <3>2. FromOverrides(order)' = FromOverrides(order)
      BY <1>12 DEF FromOverrides, FromArguments, FromArgument, FromAdapter, FromPlan,
                   FromAllocation, FromNumeric, FromVariant
    <3> QED
      BY <1>4, <2>1, <3>1, <3>2, ReadingFacts DEF AfterHeader
  <2>2. CASE compiled.version = 2
    <3>1. FieldsToRead(order)' = FromArguments(order)'
      BY <1>12, <2>2 DEF FieldsToRead
    <3>2. FromArguments(order)' = FromArguments(order)
      BY <1>12 DEF FromArguments, FromArgument, FromAdapter, FromPlan,
                   FromAllocation, FromNumeric, FromVariant
    <3> QED
      BY <1>4, <2>2, <3>1, <3>2, ReadingFacts DEF AfterHeader
  <2>3. CASE ~(compiled.version >= 3) /\ compiled.version # 2
    <3>1. FieldsToRead(order)' = FromLegacy(order)'
      BY <1>12, <2>3 DEF FieldsToRead
    <3>2. FromLegacy(order)' = FromLegacy(order)
      BY <1>12 DEF FromLegacy, FromPlan, FromAllocation, FromNumeric, FromVariant
    <3>3. compiled.version = 1
      BY <2>3, ReadingFacts
    <3> QED
      BY <1>4, <3>1, <3>2, <3>3 DEF AfterHeader
  <2> QED
    BY <2>1, <2>2, <2>3
<1>17. seen' = SubSeq(order, 1, Len(seen))'
  BY <1>3, <1>12, ReadingFacts DEF Reading, Follows
<1> QED
  BY <1>8, <1>12, <1>15, <1>16, <1>17 DEF Follows

(* The lists of an override are no longer than a reader takes.             *)
LEMMA OverrideLengths ==
  ASSUME NEW c \in Artifact, ContractValid(c)
  PROVE  Len(c.roles) <= MaxEntries /\ Len(c.axes) <= MaxEntries
<1>1. /\ TableValid(c) /\ c.policy \in 0..8
      /\ Len(c.roles) \in Nat /\ Len(c.axes) \in Nat
  <2>1. c.roles \in Seq(Signed) /\ c.axes \in Seq(Signed)
    BY ArtifactParts DEF Lists
  <2> QED
    BY <2>1, ArtifactParts, LenProperties DEF ContractValid
<1>2. MaxEntries \in Nat /\ MaxEntries >= 7 /\ Len(<<>>) = 0
  BY UnitsFacts
<1>3. /\ c.policy < 2 => c.roles = <<>>
      /\ c.policy \notin {6, 7} => c.axes = <<>>
      /\ c.policy # 0 => OverrideValid(c)
  BY <1>1 DEF TableValid
<1>4. ASSUME c.policy >= 2
      PROVE  \E counts, inputs : /\ RolesValid(c, PolicyNames[c.policy], counts, inputs)
                                 /\ \A n \in counts : n >= 1 /\ n <= MaxEntries
  <2>1. OverrideValid(c)
    BY <1>3, <1>4
  <2>2. CASE c.policy = 2
    <3>1. RolesValid(c, PolicyNames[c.policy], {3}, 2)
      BY <2>1, <2>2, SMTT(120) DEF OverrideValid, PolicyNames
    <3> QED
      BY <1>2, <3>1
  <2>3. CASE c.policy = 3
    <3>1. RolesValid(c, PolicyNames[c.policy], 4..7, 3)
      BY <2>1, <2>3, SMTT(120) DEF OverrideValid, PolicyNames
    <3> QED
      BY <1>2, <3>1
  <2>4. CASE c.policy = 4
    <3>1. RolesValid(c, PolicyNames[c.policy], {2}, 1)
      BY <2>1, <2>4, SMTT(120) DEF OverrideValid, PolicyNames
    <3> QED
      BY <1>2, <3>1
  <2>5. CASE c.policy = 5
    <3>1. RolesValid(c, PolicyNames[c.policy], {2}, 1)
      BY <2>1, <2>5, SMTT(120) DEF OverrideValid, PolicyNames
    <3> QED
      BY <1>2, <3>1
  <2>6. CASE c.policy = 6
    <3>1. RolesValid(c, PolicyNames[c.policy], {2}, 1)
      BY <2>1, <2>6, SMTT(120) DEF OverrideValid, PolicyNames
    <3> QED
      BY <1>2, <3>1
  <2>7. CASE c.policy = 7
    <3>1. RolesValid(c, PolicyNames[c.policy], 2..MaxEntries, Len(c.roles) - 1)
      BY <2>1, <2>7, SMTT(120) DEF OverrideValid, PolicyNames
    <3> QED
      BY <1>2, <3>1
  <2>8. CASE c.policy = 8
    <3>1. RolesValid(c, PolicyNames[c.policy], {5}, 4)
      BY <2>1, <2>8, SMTT(120) DEF OverrideValid, PolicyNames
    <3> QED
      BY <1>2, <3>1
  <2> QED
    BY <1>1, <1>4, <2>2, <2>3, <2>4, <2>5, <2>6, <2>7, <2>8
<1>5. Len(c.roles) <= MaxEntries
  BY <1>1, <1>2, <1>3, <1>4 DEF RolesValid
<1>6. Len(c.axes) <= MaxEntries
  <2>1. CASE c.policy = 6
    <3>1. PICK role : role = [r \in 1..Len(c.roles) |->
                                CHOOSE a \in Items(c.arguments) : a.uid = c.roles[r]]
      OBVIOUS
    <3>2. Len(c.axes) = Len(role[1].dims)
      <4>1. OverrideValid(c)
        BY <1>3, <2>1
      <4>2. PICK d : d = [r \in 1..Len(role) |-> role[r].dims]
        OBVIOUS
      <4>3. PICK axes : axes = [k \in 1..Len(c.axes) |-> c.axes[k] + 1]
        OBVIOUS
      <4>4. Len(axes) = Len(d[1]) /\ RolesValid(c, "TRANSPOSE", {2}, 1)
        <5>1. PolicyNames[c.policy] = "TRANSPOSE"
          BY <2>1 DEF PolicyNames
        <5>2. LET roles == [r \in 1..Len(c.roles) |->
                              CHOOSE a \in Items(c.arguments) : a.uid = c.roles[r]]
                  dims == [r \in 1..Len(roles) |-> roles[r].dims]
                  order == [k \in 1..Len(c.axes) |-> c.axes[k] + 1]
              IN  Len(order) = Len(dims[1]) /\ RolesValid(c, PolicyNames[c.policy], {2}, 1)
          BY <4>1, <5>1, SMTT(60) DEF OverrideValid
        <5> QED
          BY <3>1, <4>2, <4>3, <5>1, <5>2, SMTT(60)
      <4>5. Len(axes) = Len(c.axes)
        BY <1>1, <4>3
      <4>6. Len(c.roles) = 2
        BY <4>4 DEF RolesValid
      <4>7. Len(role) = 2
        BY <3>1, <4>6
      <4>8. d[1] = role[1].dims
        BY <4>2, <4>7
      <4> QED
        BY <4>4, <4>5, <4>8
    <3>3. RolesValid(c, PolicyNames[c.policy], {2}, 1)
      BY <1>3, <2>1, SMTT(120) DEF OverrideValid, PolicyNames
    <3>4. Len(c.roles) = 2 /\ \E a \in Items(c.arguments) : a.uid = c.roles[1]
      BY <3>3 DEF RolesValid
    <3>5. role[1] \in Items(c.arguments)
      BY <3>1, <3>4
    <3>6. PICK k \in DOMAIN c.arguments : c.arguments[k] = role[1]
      BY <3>5 DEF Items
    <3>7. k \in 1..Len(c.arguments)
      <4>1. c.arguments \in Seq(ArgumentRecord)
        BY ArtifactParts DEF Lists
      <4> QED
        BY <4>1, LenProperties
    <3>8. ArgumentValid(c.arguments[k])
      BY <1>1, <3>7 DEF TableValid
    <3>9. Len(role[1].dims) \in 1..MaxEntries
      BY <3>6, <3>8 DEF ArgumentValid
    <3> QED
      BY <1>2, <3>2, <3>9
  <2>2. CASE c.policy = 7
    <3>1. OverrideValid(c)
      BY <1>3, <2>2
    <3>2. PICK axes : axes = [k \in 1..Len(c.axes) |-> c.axes[k] + 1]
      OBVIOUS
    <3>3. Len(axes) = 1
      BY <2>2, <3>1, <3>2, SMTT(120) DEF OverrideValid, PolicyNames
    <3>4. Len(axes) = Len(c.axes)
      BY <1>1, <3>2
    <3>5. PICK n, most : n = Len(c.axes) /\ most = MaxEntries
      OBVIOUS
    <3>6. n = 1 /\ most \in Nat /\ most >= 7
      BY <1>2, <3>3, <3>4, <3>5
    <3>7. n <= most
      BY <3>6
    <3> QED
      BY <3>5, <3>7
  <2>3. CASE c.policy \notin {6, 7}
    BY <1>2, <1>3, <2>3
  <2> QED
    BY <2>1, <2>2, <2>3
<1> QED
  BY <1>5, <1>6

LEMMA OverridesReads ==
  ASSUME NEW order, Reading(order), ReadOverrides, ReadInv'
  PROVE  Follows(order)'
<1>1. PICK kinds : kinds = <<"u32", "u32", "u32">>
  OBVIOUS
<1>2. PICK flags, v : flags = ReadAll(file.payload, at, kinds) /\ v = flags.value
  OBVIOUS
<1>3. PICK roles : roles = ReadList(flags.at, 6)
  OBVIOUS
<1>4. PICK axes : axes = ReadList(roles.at, 10)
  OBVIOUS
<1>5. /\ phase = "overrides" /\ seen = <<>> /\ HeaderAlike
      /\ restored.version = compiled.version
      /\ restored.version >= 3
      /\ Remains(file.payload, at, FromOverrides(order))
  <2>1. phase = "overrides"
    BY DEF ReadOverrides
  <2>2. seen = <<>> /\ restored.version >= 3
    BY <2>1, ReadingFacts DEF PlaceInv, Before
  <2>3. HeaderAlike
    BY <2>1, ReadingFacts DEF Alike
  <2>4. FieldsToRead(order) = FromOverrides(order)
    BY <2>1 DEF FieldsToRead
  <2>5. Remains(file.payload, at, FieldsToRead(order))
    BY ReadingFacts
  <2> QED
    BY <2>1, <2>2, <2>3, <2>4, <2>5 DEF HeaderAlike
<1>6. PICK c, version : c = compiled /\ version = restored.version
  OBVIOUS
<1>7. /\ c \in Artifact /\ ContractValid(c) /\ Expressible(c, version)
      /\ version \in Nat /\ version = c.version /\ version \in 1..kArtifactFormatVersion
      /\ ShortTexts(c, MaxStringSize)
  BY <1>5, <1>6, ReadingFacts
<1>8. PICK d, o : /\ d = (IF c.dynamic THEN 1 ELSE 0) /\ o = (IF c.override THEN 1 ELSE 0)
  OBVIOUS
<1>9. PICK F, R, X, G :
        /\ F = U32s(<<d, o, c.policy>>)
        /\ R = Since(6, version, <<U32(Len(c.roles))>> \o I64s(c.roles))
        /\ X = Since(10, version, <<U32(Len(c.axes))>> \o I64s(c.axes))
        /\ G = FromArguments(order)
  OBVIOUS
<1>10. /\ R \in Seq(Field) /\ X \in Seq(Field) /\ G \in Seq(Field)
       /\ F \in Seq(Readable) /\ F \in Seq(Field)
  <2>1. c.roles \in Lists(Signed) /\ c.axes \in Lists(Signed) /\ c.policy \in Units
    BY <1>7, ArtifactParts
  <2>2. PICK L : L = MaxStringSize
    OBVIOUS
  <2>3. R \in Seq(Limited(L)) /\ X \in Seq(Limited(L))
    BY <1>9, <2>1, CountedFields, SincePart
  <2>4. G \in Seq(Field)
    BY <1>6, <1>9, ReadingFacts, LeftFields, ReadableLists
  <2>5. d \in Units /\ o \in Units
    BY <1>8, UnitsFacts DEF Units
  <2>6. U32(d) \in Limited(L) /\ U32(o) \in Limited(L) /\ U32(c.policy) \in Limited(L)
    BY <2>1, <2>5, LimitedNumbers
  <2>7. <<U32(d), U32(o), U32(c.policy)>> \in Seq(Limited(L))
    <3> HIDE DEF Limited
    <3> QED
      BY <2>6
  <2>8. F \in Seq(Limited(L))
    BY <1>9, <2>7, U32sOfThree
  <2> QED
    BY <2>2, <2>3, <2>4, <2>8, LimitedIsField, LimitedIsReadable
<1>11. Remains(file.payload, at, F \o (R \o (X \o G)))
  <2>1. Overrides(c, version) = (F \o R) \o X
    BY <1>8, <1>9 DEF Overrides
  <2>2. FromOverrides(order) = ((F \o R) \o X) \o G
    BY <1>5, <1>6, <1>9, <2>1 DEF FromOverrides
  <2>3. F \o R \in Seq(Field) /\ X \o G \in Seq(Field)
    BY <1>10, ConcatProperties
  <2>4. PICK T : T = X \o G
    OBVIOUS
  <2>5. /\ R \in Seq(Field) /\ X \in Seq(Field) /\ G \in Seq(Field)
        /\ F \in Seq(Field) /\ T \in Seq(Field)
    BY <1>10, <2>3, <2>4
  <2>6. ((F \o R) \o X) \o G = (F \o R) \o T
    <3>1. PICK FR : FR = F \o R
      OBVIOUS
    <3>2. FR \in Seq(Field) /\ X \in Seq(Field) /\ G \in Seq(Field)
      BY <2>3, <2>5, <3>1
    <3>3. Regroups(FR, X, G)
      BY <3>2, Regrouped
    <3> QED
      BY <2>4, <3>1, <3>3 DEF Regroups
  <2>7. (F \o R) \o T = F \o (R \o T)
    <3>1. Regroups(F, R, T)
      BY <2>5, Regrouped
    <3> QED
      BY <3>1 DEF Regroups
  <2> QED
    BY <1>5, <2>2, <2>4, <2>6, <2>7
<1>12. PICK S, T : S = R \o T /\ T = X \o G
  OBVIOUS
<1>13. S \in Seq(Field) /\ T \in Seq(Field)
  BY <1>10, <1>12, ConcatProperties
<1>14. /\ flags.ok /\ v[1] = d /\ v[2] = o /\ v[3] = c.policy
       /\ flags.at \in Nat /\ Remains(file.payload, flags.at, S)
  <2>1. PICK units : units = file.payload
    OBVIOUS
  <2>2. F = <<U32(d), U32(o), U32(c.policy)>>
    BY <1>9, U32sOfThree
  <2>3. kinds = KindsOf(F)
    BY <1>1, <2>2 DEF KindsOf, U32
  <2>4. /\ units \in Seq(Units) /\ Remains(units, at, F \o S)
        /\ flags = ReadAll(units, at, kinds) /\ at \in Nat
    BY <1>2, <1>11, <1>12, <2>1, ReadingFacts
  <2>5. /\ flags.ok /\ Valued(flags.value, F) /\ Remains(units, flags.at, S)
        /\ flags.at \in 0..Len(units)
    BY <1>10, <1>13, <2>3, <2>4, FieldsComplete
  <2>6. flags.at \in Nat
    BY <2>4, <2>5, LenProperties
  <2>7. Len(F) = 3
    BY <2>2
  <2>8. \A k \in 1..3 : v[k] = F[k][2]
    BY <1>2, <2>5, <2>7 DEF Valued
  <2> QED
    BY <2>1, <2>2, <2>5, <2>6, <2>8 DEF U32
<1>15. /\ c.roles \in Lists(Signed) /\ c.axes \in Lists(Signed)
       /\ Len(c.roles) <= MaxEntries /\ Len(c.axes) <= MaxEntries
       /\ version < 6 => c.roles = <<>>
       /\ version < 10 => c.axes = <<>>
  BY <1>7, ArtifactParts, OverrideLengths DEF Expressible
<1>16. /\ roles.ok /\ roles.value = c.roles
       /\ Remains(file.payload, roles.at, T) /\ roles.at \in Nat
  <2>1. Remains(file.payload, flags.at,
                Since(6, restored.version, <<U32(Len(c.roles))>> \o I64s(c.roles)) \o T)
    BY <1>6, <1>9, <1>12, <1>14
  <2>2. /\ roles.ok /\ roles.value = c.roles
        /\ Remains(file.payload, roles.at, T) /\ roles.at \in 0..Len(file.payload)
    <3>1. PICK from, list, first : from = flags.at /\ list = c.roles /\ first = 6
      OBVIOUS
    <3>2. /\ from \in Nat /\ list \in Lists(Signed) /\ first \in Nat
          /\ Len(list) <= MaxEntries
          /\ restored.version < first => list = <<>>
      BY <1>6, <1>14, <1>15, <3>1
    <3>3. file.payload \in Seq(Units) /\ restored.version \in Nat
      BY ReadingFacts
    <3>4. Remains(file.payload, from,
                  Since(first, restored.version, <<U32(Len(list))>> \o I64s(list)) \o T)
      BY <2>1, <3>1
    <3>5. roles = ReadList(from, first)
      BY <1>3, <3>1
    <3>6. /\ roles.ok /\ roles.value = list
          /\ Remains(file.payload, roles.at, T) /\ roles.at \in 0..Len(file.payload)
      BY <1>13, <3>2, <3>3, <3>4, <3>5, ListComplete
    <3> QED
      BY <3>1, <3>6
  <2> QED
    BY <2>2, ReadingFacts, LenProperties
<1>17. /\ axes.ok /\ axes.value = c.axes /\ Remains(file.payload, axes.at, G)
  <2>1. Remains(file.payload, roles.at,
                Since(10, restored.version, <<U32(Len(c.axes))>> \o I64s(c.axes)) \o G)
    BY <1>6, <1>9, <1>12, <1>16
  <2>2. PICK from, list, first : from = roles.at /\ list = c.axes /\ first = 10
    OBVIOUS
  <2>3. /\ from \in Nat /\ list \in Lists(Signed) /\ first \in Nat
        /\ Len(list) <= MaxEntries
        /\ restored.version < first => list = <<>>
    BY <1>6, <1>15, <1>16, <2>2
  <2>4. file.payload \in Seq(Units) /\ restored.version \in Nat
    BY ReadingFacts
  <2>5. Remains(file.payload, from,
                Since(first, restored.version, <<U32(Len(list))>> \o I64s(list)) \o G)
    BY <2>1, <2>2
  <2>6. axes = ReadList(from, first)
    BY <1>4, <2>2
  <2>7. axes.ok /\ axes.value = list /\ Remains(file.payload, axes.at, G)
    BY <1>10, <2>3, <2>4, <2>5, <2>6, ListComplete
  <2> QED
    BY <2>2, <2>7
<1>18. /\ flags.ok /\ v[1] <= 1 /\ v[2] <= 1 /\ v[3] <= MaximumPolicy(restored.version)
       /\ roles.ok /\ axes.ok
  <2>1. c.policy <= MaximumPolicy(restored.version)
    BY <1>6, <1>7 DEF Expressible
  <2> QED
    BY <1>8, <1>14, <1>16, <1>17, <2>1
<1>19. /\ Took(axes) /\ UNCHANGED seen
       /\ restored' = WithOverrides(restored, v[1] = 1, v[2] = 1, v[3], roles.value, axes.value)
       /\ phase' = "arguments" /\ left' = 0
  BY <1>1, <1>2, <1>3, <1>4, <1>18 DEF ReadOverrides, Goto, WithOverrides
<1>20. /\ at' = axes.at /\ file' = file /\ compiled' = compiled /\ seen' = seen
  BY <1>19 DEF Took
<1>21. HeaderAlike' /\ OverridesAlike'
  <2>1. restored \in Readout
    BY ReadingFacts
  <2>2. /\ restored'.version = restored.version /\ restored'.triple = restored.triple
        /\ restored'.function = restored.function
        /\ restored'.dynamic = (v[1] = 1) /\ restored'.override = (v[2] = 1)
        /\ restored'.policy = v[3] /\ restored'.roles = roles.value
        /\ restored'.axes = axes.value
    BY <1>19, <2>1 DEF WithOverrides, Readout
  <2>3. c.dynamic \in BOOLEAN /\ c.override \in BOOLEAN
    BY <1>7 DEF Artifact
  <2>4. c.dynamic = (d = 1) /\ c.override = (o = 1)
    BY <1>8, <2>3
  <2> QED
    BY <1>5, <1>6, <1>14, <1>16, <1>17, <1>20, <2>2, <2>4 DEF HeaderAlike, OverridesAlike
<1>22. Alike'
  BY <1>19, <1>21 DEF Alike, Planning, Ending
<1>23. FieldsToRead(order)' = G
  <2>1. FieldsToRead(order)' = FromArguments(order)'
    BY <1>19 DEF FieldsToRead
  <2> QED
    BY <1>9, <1>20, <2>1 DEF FromArguments, FromArgument, FromAdapter, FromPlan,
                             FromAllocation, FromNumeric, FromVariant
<1>24. seen' = SubSeq(order, 1, Len(seen))'
  BY <1>5, <1>20 DEF Reading, Follows
<1> QED
  BY <1>17, <1>19, <1>20, <1>22, <1>23, <1>24 DEF Follows

LEMMA CountReads ==
  ASSUME NEW order, Reading(order), ReadArgumentCount, ReadInv'
  PROVE  Follows(order)'
<1>1. PICK count : count = ReadUnsigned(file.payload, at, 1)
  OBVIOUS
<1>2. PICK n, G : n = Len(compiled.arguments) /\ G = FromArgument(order, 1)
  OBVIOUS
<1>3. /\ phase = "arguments" /\ seen = <<>> /\ HeaderAlike /\ OverridesAlike
      /\ restored.arguments = <<>>
      /\ Remains(file.payload, at, <<U32(n)>> \o G)
  <2>1. phase = "arguments"
    BY DEF ReadArgumentCount
  <2>2. seen = <<>> /\ restored.arguments = <<>>
    BY <2>1, ReadingFacts DEF PlaceInv, Before
  <2>3. HeaderAlike /\ OverridesAlike
    BY <2>1, ReadingFacts DEF Alike
  <2>4. FieldsToRead(order) = <<U32(n)>> \o G
    BY <1>2, <2>1 DEF FieldsToRead, FromArguments
  <2>5. Remains(file.payload, at, FieldsToRead(order))
    BY ReadingFacts
  <2> QED
    BY <2>1, <2>2, <2>3, <2>4, <2>5
<1>4. n \in Nat /\ n \in Units /\ n >= 1 /\ n <= 4096
  <2>1. compiled.arguments \in Lists(ArgumentRecord)
    BY ReadingFacts, ArtifactParts
  <2>2. n \in Units
    BY <1>2, <2>1 DEF Lists
  <2>3. n >= 1 /\ n <= 4096
    BY <1>2, ReadingFacts DEF ContractValid, TableValid
  <2> QED
    BY <2>2, <2>3, UnitsFacts DEF Units
<1>5. G \in Seq(Field)
  <2>1. 1 \in 1..(Len(compiled.arguments) + 1)
    BY <1>2, <1>4
  <2> QED
    BY <1>2, <2>1, ReadingFacts, LeftFields, ReadableLists
<1>6. count.ok /\ count.value = n /\ Remains(file.payload, count.at, G)
  <2>1. PICK units, from : units = file.payload /\ from = at
    OBVIOUS
  <2>2. /\ units \in Seq(Units) /\ from \in Nat /\ count = ReadUnsigned(units, from, 1)
        /\ Remains(units, from, <<U32(n)>> \o G)
    BY <1>1, <1>3, <2>1, ReadingFacts
  <2>3. count.ok /\ count.value = n /\ Remains(units, count.at, G)
    BY <1>4, <1>5, <2>2, UnitComplete
  <2> QED
    BY <2>1, <2>3
<1>7. /\ at' = count.at /\ file' = file /\ compiled' = compiled /\ seen' = seen
      /\ restored' = restored /\ phase' = "argument" /\ left' = n
  BY <1>1, <1>4, <1>6 DEF ReadArgumentCount, Took, Goto
<1>8. Alike'
  <2>1. HeaderAlike' /\ OverridesAlike'
    BY <1>3, <1>7 DEF HeaderAlike, OverridesAlike
  <2>2. ArgumentsAlike(Len(compiled.arguments) - left)'
    <3>1. (Len(compiled.arguments) - left)' = 0
      BY <1>2, <1>4, <1>7
    <3>2. SubSeq(compiled.arguments, 1, 0) = <<>>
      BY SubSeqEmpty
    <3>3. left' <= Len(compiled.arguments)'
      BY <1>2, <1>4, <1>7
    <3>4. restored'.arguments = SubSeq(compiled'.arguments, 1, 0)
      BY <1>3, <1>7, <3>2
    <3> QED
      BY <3>1, <3>3, <3>4 DEF ArgumentsAlike
  <2> QED
    BY <1>7, <2>1, <2>2 DEF Alike, Planning, Ending
<1>9. FieldsToRead(order)' = G
  <2>1. FieldsToRead(order)' = FromArgument(order, Len(compiled.arguments) - left + 1)'
    BY <1>7 DEF FieldsToRead
  <2>2. (Len(compiled.arguments) - left + 1)' = 1
    BY <1>2, <1>4, <1>7
  <2>3. FromArgument(order, Len(compiled.arguments) - left + 1)' = FromArgument(order, 1)
    BY <1>7, <2>2 DEF FromArgument, FromAdapter, FromPlan, FromAllocation, FromNumeric,
                      FromVariant
  <2> QED
    BY <1>2, <2>1, <2>3
<1>10. seen' = SubSeq(order, 1, Len(seen))'
  BY <1>3, <1>7 DEF Reading, Follows
<1> QED
  BY <1>6, <1>7, <1>8, <1>9, <1>10 DEF Follows

(* What a version leaves out of an entry is at its default.                *)
Expressed(a, version) ==
  /\ version < 5 => a.divisor = 1
  /\ version < 4 => a.storage = 0 /\ a.offsetUid = 0 /\ a.sequenceUid = 0

LEMMA EntryHeadFields ==
  ASSUME NEW a \in ArgumentRecord, Len(a.name) <= MaxStringSize, Len(a.dims) \in Units,
         NEW version \in Nat, NEW F, F = EntryHead(a, version)
  PROVE  F \in Seq(Readable) /\ KindsOf(F) = EntryKinds(version) /\ Len(F) >= 7
<1>1. PICK n, L : n = Len(a.dims) /\ L = MaxStringSize
  OBVIOUS
<1>2. PICK u, s, t, x, o, p, q, d, g, z, r :
        /\ u = I64(a.uid) /\ s = String(a.name) /\ t = U32(a.type) /\ x = U32(a.access)
        /\ o = U32(a.storage) /\ p = I64(a.offsetUid) /\ q = I64(a.sequenceUid)
        /\ d = I64(a.divisor) /\ g = U64(a.alignment) /\ z = U64(a.size) /\ r = U32(n)
  OBVIOUS
<1>3. /\ u \in Limited(L) /\ s \in Limited(L) /\ t \in Limited(L) /\ x \in Limited(L)
      /\ o \in Limited(L) /\ p \in Limited(L) /\ q \in Limited(L) /\ d \in Limited(L)
      /\ g \in Limited(L) /\ z \in Limited(L) /\ r \in Limited(L)
  <2>1. /\ a.uid \in Signed /\ a.name \in Texts /\ a.offsetUid \in Signed
        /\ a.sequenceUid \in Signed /\ a.divisor \in Signed
        /\ a.alignment \in Unsigned /\ a.size \in Unsigned /\ n \in Units
    BY <1>1 DEF ArgumentRecord
  <2>2. a.type \in Units /\ a.access \in Units /\ a.storage \in Units
    <3>1. /\ a.type \in 0..19 /\ a.access \in kRead..kReadWrite
          /\ a.storage \in 0..kRaggedBatchPrefix
      BY DEF ArgumentRecord
    <3>2. Base \in Nat /\ Base > 20
      BY UnitsFacts
    <3>3. PICK i, j, k : i = a.type /\ j = a.access /\ k = a.storage
      OBVIOUS
    <3>4. i \in 0..19 /\ j \in 0..2 /\ k \in 0..1
      BY <3>1, <3>3 DEF kRead, kReadWrite, kRaggedBatchPrefix
    <3>5. i \in 0..(Base - 1) /\ j \in 0..(Base - 1) /\ k \in 0..(Base - 1)
      BY <3>2, <3>4
    <3> QED
      BY <3>3, <3>5 DEF Units
  <2>3. /\ u \in Limited(L) /\ t \in Limited(L) /\ x \in Limited(L)
        /\ o \in Limited(L) /\ p \in Limited(L) /\ q \in Limited(L) /\ d \in Limited(L)
        /\ g \in Limited(L) /\ z \in Limited(L) /\ r \in Limited(L)
    BY <1>2, <2>1, <2>2, LimitedNumbers
  <2>4. s \in Limited(L)
    BY <1>1, <1>2, <2>1, LimitedText
  <2> QED
    BY <2>3, <2>4
<1>4. Limited(L) = Readable
  BY <1>1, LimitedIsReadable
<1>5. /\ u[1] = "i64" /\ s[1] = "string" /\ t[1] = "u32" /\ x[1] = "u32" /\ o[1] = "u32"
      /\ p[1] = "i64" /\ q[1] = "i64" /\ d[1] = "i64" /\ g[1] = "u64" /\ z[1] = "u64"
      /\ r[1] = "u32"
  BY <1>2 DEF I64, String, U32, U64
<1>6. CASE version < 4
  <2>1. F = <<u, s, t, x, g, z, r>>
    BY <1>1, <1>2, <1>6, EntryHeadList
  <2>2. KindsOf(F) = <<"i64", "string", "u32", "u32", "u64", "u64", "u32">>
    BY <1>5, <2>1 DEF KindsOf
  <2>3. F \in Seq(Limited(L)) /\ Len(F) = 7
    <3> HIDE DEF Limited
    <3> QED
      BY <1>3, <2>1
  <2>4. EntryKinds(version) = KindsOf(F)
    BY <1>6, <2>2, EntryKindsList
  <2> QED
    BY <1>4, <2>3, <2>4
<1>7. CASE version = 4
  <2>1. F = <<u, s, t, x, o, p, q, g, z, r>>
    BY <1>1, <1>2, <1>7, EntryHeadList
  <2>2. KindsOf(F) =
          <<"i64", "string", "u32", "u32", "u32", "i64", "i64", "u64", "u64", "u32">>
    BY <1>5, <2>1 DEF KindsOf
  <2>3. F \in Seq(Limited(L)) /\ Len(F) = 10
    <3> HIDE DEF Limited
    <3> QED
      BY <1>3, <2>1
  <2>4. EntryKinds(version) = KindsOf(F)
    BY <1>7, <2>2, EntryKindsList
  <2> QED
    BY <1>4, <2>3, <2>4
<1>8. CASE version >= 5
  <2>1. F = <<u, s, t, x, o, p, q, d, g, z, r>>
    BY <1>1, <1>2, <1>8, EntryHeadList
  <2>2. KindsOf(F) =
          <<"i64", "string", "u32", "u32", "u32", "i64", "i64", "i64", "u64", "u64", "u32">>
    BY <1>5, <2>1 DEF KindsOf
  <2>3. F \in Seq(Limited(L)) /\ Len(F) = 11
    <3> HIDE DEF Limited
    <3> QED
      BY <1>3, <2>1
  <2>4. EntryKinds(version) = KindsOf(F)
    BY <1>8, <2>2, EntryKindsList
  <2> QED
    BY <1>4, <2>3, <2>4
<1> QED
  BY <1>6, <1>7, <1>8

LEMMA EntryValues ==
  ASSUME NEW a \in ArgumentRecord, NEW version \in Nat, Expressed(a, version),
         NEW v, Valued(v, EntryHead(a, version))
  PROVE  v[Len(v)] = Len(a.dims) /\ ArgumentOf(v, a.dims, a.strides, version) = a
<1>1. PICK n, F : n = Len(a.dims) /\ F = EntryHead(a, version)
  OBVIOUS
<1>2. PICK b : b = ArgumentOf(v, a.dims, a.strides, version)
  OBVIOUS
<1>3. a = [uid |-> a.uid, name |-> a.name, type |-> a.type, access |-> a.access,
           storage |-> a.storage, offsetUid |-> a.offsetUid, sequenceUid |-> a.sequenceUid,
           divisor |-> a.divisor, alignment |-> a.alignment, size |-> a.size,
           dims |-> a.dims, strides |-> a.strides]
  BY DEF ArgumentRecord
<1>4. Len(v) = Len(F) /\ \A k \in 1..Len(F) : v[k] = F[k][2]
  BY <1>1 DEF Valued
<1>5. CASE version < 4
  <2>1. F = <<I64(a.uid), String(a.name), U32(a.type), U32(a.access),
              U64(a.alignment), U64(a.size), U32(n)>>
    BY <1>1, <1>5, EntryHeadList
  <2>2. Len(F) = 7
    BY <2>1
  <2>3. /\ Len(v) = 7
        /\ v[1] = a.uid /\ v[2] = a.name /\ v[3] = a.type /\ v[4] = a.access
        /\ v[5] = a.alignment /\ v[6] = a.size /\ v[7] = n
    BY <1>4, <2>1, <2>2 DEF I64, String, U32, U64
  <2>4. /\ a.divisor = 1 /\ a.storage = 0 /\ a.offsetUid = 0 /\ a.sequenceUid = 0
    BY <1>5 DEF Expressed
  <2>5. b = a
    BY <1>2, <1>3, <1>5, <2>3, <2>4 DEF ArgumentOf
  <2> QED
    BY <1>1, <1>2, <2>3, <2>5
<1>6. CASE version = 4
  <2>1. F = <<I64(a.uid), String(a.name), U32(a.type), U32(a.access),
              U32(a.storage), I64(a.offsetUid), I64(a.sequenceUid),
              U64(a.alignment), U64(a.size), U32(n)>>
    BY <1>1, <1>6, EntryHeadList
  <2>2. Len(F) = 10
    BY <2>1
  <2>3. /\ Len(v) = 10
        /\ v[1] = a.uid /\ v[2] = a.name /\ v[3] = a.type /\ v[4] = a.access
        /\ v[5] = a.storage /\ v[6] = a.offsetUid /\ v[7] = a.sequenceUid
        /\ v[8] = a.alignment /\ v[9] = a.size /\ v[10] = n
    BY <1>4, <2>1, <2>2 DEF I64, String, U32, U64
  <2>4. a.divisor = 1
    BY <1>6 DEF Expressed
  <2>5. b = a
    BY <1>2, <1>3, <1>6, <2>3, <2>4 DEF ArgumentOf
  <2> QED
    BY <1>1, <1>2, <2>3, <2>5
<1>7. CASE version >= 5
  <2>1. F = <<I64(a.uid), String(a.name), U32(a.type), U32(a.access),
              U32(a.storage), I64(a.offsetUid), I64(a.sequenceUid), I64(a.divisor),
              U64(a.alignment), U64(a.size), U32(n)>>
    BY <1>1, <1>7, EntryHeadList
  <2>2. Len(F) = 11
    BY <2>1
  <2>3. /\ Len(v) = 11
        /\ v[1] = a.uid /\ v[2] = a.name /\ v[3] = a.type /\ v[4] = a.access
        /\ v[5] = a.storage /\ v[6] = a.offsetUid /\ v[7] = a.sequenceUid
        /\ v[8] = a.divisor /\ v[9] = a.alignment /\ v[10] = a.size /\ v[11] = n
    BY <1>4, <2>1, <2>2 DEF I64, String, U32, U64
  <2>4. b = a
    BY <1>2, <1>3, <1>7, <2>3 DEF ArgumentOf
  <2> QED
    BY <1>1, <1>2, <2>3, <2>4
<1> QED
  BY <1>5, <1>6, <1>7

(* The two halves of a list.                                               *)
BothHalves(list, a, b) ==
  SubSeq(list, 1, Len(a)) = a /\ SubSeq(list, Len(a) + 1, 2 * Len(a)) = b

LEMMA HalvesOfList ==
  ASSUME NEW S, NEW a \in Seq(S), NEW b \in Seq(S), NEW n \in Nat, Len(a) = n, Len(b) = n,
         n >= 1, NEW list, list = a \o b, NEW m, m = n + 1, NEW l, l = 2 * n
  PROVE  BothHalves(list, a, b) /\ list \in Seq(S) /\ Len(list) = l
<1>1. /\ list \in Seq(S) /\ Len(list) = 2 * n
      /\ \A i \in 1..(2 * n) : list[i] = IF i <= n THEN a[i] ELSE b[i - n]
  <2>1. /\ a \o b \in Seq(S) /\ Len(a \o b) = Len(a) + Len(b)
        /\ \A i \in 1..(Len(a) + Len(b)) :
             (a \o b)[i] = IF i <= Len(a) THEN a[i] ELSE b[i - Len(a)]
    BY ConcatProperties
  <2>2. Len(a) + Len(b) = 2 * n
    OBVIOUS
  <2> QED
    BY <2>1, <2>2
<1>2. \A i \in 1..(2 * n) : list[i] \in S
  BY <1>1, ElementOfSeq
<1>3. PICK s : s = SubSeq(list, 1, n)
  OBVIOUS
<1>4. /\ s \in Seq(S) /\ Len(s) = n /\ \A i \in 1..n : s[i] = list[i]
  <2>1. \A i \in 1..n : list[i] \in S
    BY <1>2
  <2> QED
    BY <1>1, <1>3, Prefix
<1>5. s = a
  <2>1. \A i \in 1..n : s[i] = a[i]
    BY <1>1, <1>4
  <2> QED
    BY <1>4, <2>1, SeqEqual
<1>6. m = n + 1 /\ l = 2 * n
  OBVIOUS
<1>7. PICK t : t = SubSeq(list, m, l)
  OBVIOUS
<1>8. /\ t \in Seq(S) /\ Len(t) = n /\ \A i \in 1..n : t[i] = list[n + i]
  <2>1. m \in Int /\ l \in Int /\ m <= l /\ l - m + 1 = n
    BY <1>6
  <2>2. \A i \in m..l : list[i] \in S
    BY <1>2, <1>6
  <2>3. m \in 1..Len(list) /\ l \in m..Len(list)
    BY <1>1, <1>6
  <2>4. t \in [1..n -> S]
    BY <1>1, <1>7, <2>1, <2>3, PartOfList
  <2>5. t \in Seq(S) /\ Len(t) = n
    BY <2>4, ListOfArray
  <2>6. list \in Seq(S)
    BY <1>1
  <2>7. \A i \in 1..n : t[i] = list[m + i - 1]
    BY <1>7, <2>1, <2>2, <2>3, <2>6, SubSeqProperties
  <2>8. \A i \in 1..n : m + i - 1 = n + i
    BY <1>6
  <2> QED
    BY <2>5, <2>7, <2>8
<1>9. t = b
  <2>1. \A i \in 1..n : n + i \in 1..(2 * n) /\ ~(n + i <= n) /\ (n + i) - n = i
    OBVIOUS
  <2>2. \A i \in 1..n : t[i] = b[i]
    BY <1>1, <1>8, <2>1
  <2> QED
    BY <1>8, <2>2, SeqEqual
<1> QED
  BY <1>1, <1>3, <1>5, <1>6, <1>7, <1>9 DEF BothHalves

LEMMA Halved ==
  ASSUME NEW S, NEW a \in Seq(S), NEW b \in Seq(S), Len(a) = Len(b), Len(a) # 0
  PROVE  BothHalves(a \o b, a, b)
<1>1. PICK n, list, m, l : n = Len(a) /\ list = a \o b /\ m = n + 1 /\ l = 2 * n
  OBVIOUS
<1>2. n \in Nat /\ n >= 1 /\ Len(a) = n /\ Len(b) = n
  BY <1>1, LenProperties
<1>3. BothHalves(list, a, b)
  BY <1>1, <1>2, HalvesOfList
<1> QED
  BY <1>1, <1>3

(* An entry that stands in the units is read.                              *)
LEMMA EntryComplete ==
  ASSUME NEW units \in Seq(Units), NEW from \in Nat, NEW version \in Nat,
         NEW a \in ArgumentRecord, Len(a.name) <= MaxStringSize,
         Len(a.dims) \in 1..MaxEntries, Len(a.strides) = Len(a.dims), Expressed(a, version),
         NEW G \in Seq(Field), Remains(units, from, Argument(a, version) \o G),
         NEW read, read = ReadEntry(units, from, version)
  PROVE  /\ read.ok /\ read.value = a /\ Remains(units, read.at, G)
<1>1. PICK F, n, list : F = EntryHead(a, version) /\ n = Len(a.dims) /\ list = a.dims \o a.strides
  OBVIOUS
<1>2. /\ a.dims \in Seq(Signed) /\ a.strides \in Seq(Signed) /\ Len(a.dims) \in Units
      /\ n \in Nat /\ n >= 1 /\ n \in 1..MaxEntries
  <2>1. a.dims \in Lists(Signed) /\ a.strides \in Lists(Signed)
    BY DEF ArgumentRecord
  <2> QED
    BY <1>1, <2>1, UnitsFacts DEF Lists
<1>3. /\ list \in Seq(Signed) /\ Len(list) = 2 * n
      /\ SubSeq(list, 1, n) = a.dims /\ SubSeq(list, n + 1, 2 * n) = a.strides
  <2>1. PICK d, s : d = a.dims /\ s = a.strides
    OBVIOUS
  <2>2. d \in Seq(Signed) /\ s \in Seq(Signed) /\ Len(d) = n /\ Len(s) = n /\ list = d \o s
    BY <1>1, <1>2, <2>1
  <2>3. PICK V : V = Signed
    OBVIOUS
  <2>4. d \in Seq(V) /\ s \in Seq(V)
    BY <2>2, <2>3
  <2>5. Len(d) = n /\ Len(s) = n /\ list = d \o s
    BY <2>2
  <2>6. n \in Nat /\ n >= 1
    BY <1>2
  <2>7. BothHalves(d \o s, d, s)
    BY <2>4, <2>5, <2>6, Halved
  <2>8. d \o s \in Seq(V) /\ Len(d \o s) = Len(d) + Len(s)
    BY <2>4, ConcatLengths
  <2>9. Len(d) + Len(s) = 2 * n
    BY <2>5, <2>6
  <2> QED
    BY <2>1, <2>3, <2>5, <2>7, <2>8, <2>9 DEF BothHalves
<1>4. /\ F \in Seq(Readable) /\ KindsOf(F) = EntryKinds(version) /\ Len(F) >= 7
  BY <1>1, <1>2, EntryHeadFields
<1>5. PICK N : N = I64s(list)
  OBVIOUS
<1>6. PICK H : H = N \o G
  OBVIOUS
<1>7. F \in Seq(Field) /\ N \in Seq(Field) /\ H \in Seq(Field)
  <2>1. F \in Seq(Field) /\ N \in Seq(Field)
    BY <1>3, <1>4, <1>5, SignedList, LimitedIsField, ReadableLists
  <2> QED
    BY <1>6, <2>1, ConcatProperties
<1>8. Remains(units, from, F \o H)
  <2>1. PICK d, s : d = I64s(a.dims) /\ s = I64s(a.strides)
    OBVIOUS
  <2>2. d \in Seq(Field) /\ s \in Seq(Field)
    BY <1>2, <2>1, SignedList, LimitedIsField
  <2>3. N = d \o s
    BY <1>1, <1>2, <1>5, <2>1, SignedConcat
  <2>4. Argument(a, version) = (F \o d) \o s
    BY <1>1, <2>1, EntryIsArgument
  <2>5. (F \o d) \o s = F \o N
    <3>1. F \in Seq(Field) /\ d \in Seq(Field) /\ s \in Seq(Field)
      BY <1>7, <2>2
    <3>2. Regroups(F, d, s)
      BY <3>1, Regrouped
    <3> QED
      BY <2>3, <3>2 DEF Regroups
  <2>6. PICK V : V = Field
    OBVIOUS
  <2>7. F \in Seq(V) /\ N \in Seq(V) /\ G \in Seq(V)
    BY <1>7, <2>6
  <2>8. (F \o N) \o G = F \o (N \o G)
    <3>1. Regroups(F, N, G)
      BY <2>7, Regrouped
    <3> QED
      BY <3>1 DEF Regroups
  <2> QED
    BY <1>6, <2>4, <2>5, <2>8
<1>9. PICK head : head = ArgumentHead(units, from, version)
  OBVIOUS
<1>10. head = ReadAll(units, from, EntryKinds(version))
  BY <1>9 DEF ArgumentHead, EntryKinds
<1>11. /\ head.ok /\ Valued(head.value, F) /\ Remains(units, head.at, H)
       /\ head.at \in 0..Len(units)
  BY <1>4, <1>7, <1>8, <1>10, FieldsComplete
<1>12. head.at \in Nat
  BY <1>11, LenProperties
<1>13. /\ head.value[Len(head.value)] = n
       /\ ArgumentOf(head.value, a.dims, a.strides, version) = a
  BY <1>1, <1>11, EntryValues
<1>14. PICK m : m = 2 * n
  OBVIOUS
<1>15. PICK lists : lists = ReadI64s(units, head.at, m)
  OBVIOUS
<1>16. /\ lists.ok /\ lists.value = list /\ Remains(units, lists.at, G)
       /\ lists = [ok |-> TRUE, value |-> lists.value, at |-> lists.at]
  <2>1. Remains(units, head.at, I64s(list) \o G)
    BY <1>5, <1>6, <1>11
  <2>2. m = Len(list)
    BY <1>3, <1>14
  <2>3. PICK next : next = head.at
    OBVIOUS
  <2>4. next \in Nat /\ Remains(units, next, I64s(list) \o G) /\ lists = ReadI64s(units, next, m)
    BY <1>12, <1>15, <2>1, <2>3
  <2>5. list \in Seq(Signed)
    BY <1>3
  <2> QED
    BY <2>2, <2>4, <2>5, NumbersComplete
<1>17. read = [lists EXCEPT !.value = a]
  <2>1. head.value[Len(head.value)] \in 1..MaxEntries
    BY <1>2, <1>13
  <2>2. lists = ReadI64s(units, head.at, 2 * n)
    BY <1>14, <1>15
  <2>3. read = [lists EXCEPT !.value =
                  ArgumentOf(head.value, SubSeq(lists.value, 1, n),
                             SubSeq(lists.value, n + 1, 2 * n), version)]
    BY <1>9, <1>11, <1>13, <1>16, <2>1, <2>2 DEF ReadEntry
  <2> QED
    BY <1>3, <1>13, <1>16, <2>3
<1>18. read = [ok |-> TRUE, value |-> a, at |-> lists.at]
  BY <1>16, <1>17
<1> QED
  BY <1>16, <1>18

(* The entries of a compiled artifact are ones a reader takes.             *)
LEMMA ArgumentFacts ==
  ASSUME NEW c \in Artifact, ContractValid(c), Expressible(c, c.version),
         NEW k \in 1..Len(c.arguments), NEW a, a = c.arguments[k]
  PROVE  /\ a \in ArgumentRecord /\ ArgumentValid(a)
         /\ Len(a.dims) \in 1..MaxEntries /\ Len(a.strides) = Len(a.dims)
         /\ Expressed(a, c.version) /\ a.divisor > 0
<1>1. c.arguments \in Seq(ArgumentRecord)
  BY ArtifactParts DEF Lists
<1>2. a \in ArgumentRecord /\ a \in Items(c.arguments)
  BY <1>1, ElementOfSeq DEF Items
<1>3. ArgumentValid(a) /\ (a.storage = kRaggedBatchPrefix =>
                             RaggedReferencesValid(c.arguments, a))
  BY <1>2 DEF ContractValid, TableValid
<1>4. Len(a.dims) \in 1..MaxEntries /\ Len(a.strides) = Len(a.dims)
  BY <1>3 DEF ArgumentValid
<1>5. a.storage # kRaggedBatchPrefix => a.offsetUid = 0 /\ a.sequenceUid = 0 /\ a.divisor = 1
  BY <1>3 DEF ArgumentValid
<1>6. a.divisor > 0
  BY <1>3, <1>5 DEF RaggedReferencesValid
<1>7. Expressed(a, c.version)
  <2>1. c.version < 5 => a.divisor = 1
    BY <1>2 DEF Expressible
  <2>2. c.version < 4 => a.storage = 0
    BY <1>2 DEF Expressible
  <2> QED
    BY <1>5, <2>1, <2>2 DEF Expressed, kRaggedBatchPrefix
<1> QED
  BY <1>2, <1>3, <1>4, <1>6, <1>7

LEMMA PrefixGrows ==
  ASSUME NEW S, NEW list \in Seq(S), NEW k \in 1..Len(list), NEW before, before = k - 1,
         NEW x, x = list[k]
  PROVE  Append(SubSeq(list, 1, before), x) = SubSeq(list, 1, k)
<1>1. PICK n : n = Len(list)
  OBVIOUS
<1>2. n \in Nat /\ k \in 1..n /\ before \in 0..n /\ k \in 0..n
  BY <1>1, LenProperties
<1>3. PICK s, t : s = SubSeq(list, 1, before) /\ t = SubSeq(list, 1, k)
  OBVIOUS
<1>4. s \in Seq(S) /\ Len(s) = before /\ \A i \in 1..before : s[i] = list[i]
  BY <1>1, <1>2, <1>3, Prefix
<1>5. t \in Seq(S) /\ Len(t) = k /\ \A i \in 1..k : t[i] = list[i]
  BY <1>1, <1>2, <1>3, Prefix
<1>6. x \in S
  BY ElementOfSeq
<1>7. PICK u : u = Append(s, x)
  OBVIOUS
<1>8. /\ u \in Seq(S) /\ Len(u) = before + 1
      /\ \A i \in 1..before : u[i] = s[i]
      /\ u[before + 1] = x
  BY <1>4, <1>6, <1>7, AppendProperties
<1>9. Len(u) = k
  BY <1>2, <1>8
<1>10. \A i \in 1..k : u[i] = t[i]
  <2>1. u[k] = x
    BY <1>2, <1>8
  <2>2. t[k] = list[k]
    BY <1>2, <1>5
  <2>3. \A i \in 1..before : u[i] = t[i]
    BY <1>2, <1>4, <1>5, <1>8
  <2>4. \A i \in 1..k : i = k \/ i \in 1..before
    BY <1>2
  <2> QED
    BY <2>1, <2>2, <2>3, <2>4
<1>11. u = t
  BY <1>5, <1>8, <1>9, <1>10, SeqEqual
<1> QED
  BY <1>3, <1>7, <1>11

LEMMA WholePrefix ==
  ASSUME NEW S, NEW list \in Seq(S)
  PROVE  SubSeq(list, 1, Len(list)) = list
<1>1. Len(list) \in Nat
  BY LenProperties
<1>2. /\ SubSeq(list, 1, Len(list)) \in Seq(S)
      /\ Len(SubSeq(list, 1, Len(list))) = Len(list)
      /\ \A i \in 1..Len(list) : SubSeq(list, 1, Len(list))[i] = list[i]
  BY <1>1, Prefix
<1> QED
  BY <1>2, SeqEqual

(* The pieces that are left, when one of them is read.                     *)
LEMMA NextArgument ==
  ASSUME NEW order, Reading(order), NEW k \in 1..Len(compiled.arguments),
         NEW next, next = k + 1, NEW fields,
         fields = Argument(compiled.arguments[k], compiled.version)
  PROVE  /\ FromArgument(order, k) = fields \o FromArgument(order, next)
         /\ FromArgument(order, next) \in Seq(Field)
         /\ k = Len(compiled.arguments) => FromArgument(order, next) = FromAdapter(order)
<1>1. PICK E, t, g : /\ E = Entries(compiled) /\ t = FromAdapter(order)
                     /\ g = From(E, next)
  OBVIOUS
<1>2. /\ E \in Seq(Seq(Readable)) /\ Len(E) = Len(compiled.arguments) /\ E[k] = fields
      /\ Len(E) \in Nat
  BY <1>1, ReadingFacts, ReadablePieces
<1>3. t \in Seq(Readable)
  BY <1>1, ReadingFacts, LeftFields
<1>4. next \in 1..(Len(E) + 1) /\ k \in 1..Len(E)
  BY <1>2
<1>5. g \in Seq(Readable)
  BY <1>1, <1>2, <1>4, FromIsList
<1>6. fields \in Seq(Readable)
  <2>1. \A i \in 1..Len(E) : E[i] \in Seq(Readable)
    BY <1>2, ElementOfSeq
  <2> QED
    BY <1>2, <1>4, <2>1
<1>7. From(E, k) = fields \o g
  BY <1>1, <1>2, <1>4, FromNext
<1>8. (fields \o g) \o t = fields \o (g \o t) /\ g \o t \in Seq(Readable)
  <2>1. PICK S : S = Readable
    OBVIOUS
  <2>2. fields \in Seq(S) /\ g \in Seq(S) /\ t \in Seq(S)
    BY <1>3, <1>5, <1>6, <2>1
  <2>3. (fields \o g) \o t = fields \o (g \o t)
    <3>1. Regroups(fields, g, t)
      BY <2>2, Regrouped
    <3> QED
      BY <3>1 DEF Regroups
  <2>4. g \o t \in Seq(S)
    BY <2>2, ConcatLengths
  <2> QED
    BY <2>1, <2>3, <2>4
<1>9. g \o t \in Seq(Field)
  BY <1>8, ReadableLists
<1>10. k = Len(compiled.arguments) => g \o t = t
  <2>1. ASSUME k = Len(compiled.arguments)
        PROVE  g \o t = t
    <3>1. g = <<>>
      BY <1>1, <1>2, <2>1, FromNone
    <3> QED
      BY <1>3, <3>1, ConcatEmptySeq
  <2> QED
    BY <2>1
<1>11. FromArgument(order, k) = From(E, k) \o t /\ FromArgument(order, next) = g \o t
  BY <1>1 DEF FromArgument
<1> QED
  BY <1>1, <1>7, <1>8, <1>9, <1>10, <1>11

LEMMA ArgumentReads ==
  ASSUME NEW order, Reading(order), ReadArgument, ReadInv'
  PROVE  Follows(order)'
<1>1. PICK n, k, next : n = Len(compiled.arguments) /\ k = n - left + 1 /\ next = k + 1
  OBVIOUS
<1>2. PICK a : a = compiled.arguments[k]
  OBVIOUS
<1>3. PICK read : read = ReadEntry(file.payload, at, restored.version)
  OBVIOUS
<1>4. PICK fields, G :
        fields = Argument(a, compiled.version) /\ G = FromArgument(order, next)
  OBVIOUS
<1>5. /\ phase = "argument" /\ seen = <<>> /\ HeaderAlike /\ OverridesAlike
      /\ left \in Nat /\ left > 0 /\ left <= n
      /\ restored.arguments = SubSeq(compiled.arguments, 1, n - left)
      /\ restored.version = compiled.version /\ compiled.version \in Nat
  <2>1. phase = "argument"
    BY DEF ReadArgument
  <2>2. seen = <<>> /\ left \in Nat /\ left > 0
    BY <2>1, ReadingFacts DEF PlaceInv, Before
  <2>3. HeaderAlike /\ OverridesAlike /\ ArgumentsAlike(n - left)
    BY <1>1, <2>1, ReadingFacts DEF Alike
  <2> QED
    BY <1>1, <2>1, <2>2, <2>3, ReadingFacts DEF ArgumentsAlike, HeaderAlike
<1>6. compiled.arguments \in Seq(ArgumentRecord) /\ n \in Nat
  <2>1. compiled.arguments \in Lists(ArgumentRecord)
    BY ReadingFacts, ArtifactParts
  <2> QED
    BY <1>1, <2>1, LenProperties DEF Lists
<1>7. k \in 1..n /\ k - 1 = n - left /\ (left = 1 => k = n)
  BY <1>1, <1>5, <1>6
<1>8. /\ a \in ArgumentRecord /\ ArgumentValid(a)
      /\ Len(a.dims) \in 1..MaxEntries /\ Len(a.strides) = Len(a.dims)
      /\ Expressed(a, compiled.version) /\ a.divisor > 0
  <2>1. k \in 1..Len(compiled.arguments)
    BY <1>1, <1>7
  <2> QED
    BY <1>2, <2>1, ReadingFacts, ArgumentFacts
<1>9. Len(a.name) <= MaxStringSize
  <2>1. a \in Items(compiled.arguments)
    BY <1>1, <1>2, <1>6, <1>7 DEF Items
  <2>2. a.name \in TextsOf(compiled)
    BY <2>1 DEF TextsOf
  <2> QED
    BY <2>2, ReadingFacts DEF ShortTexts
<1>10. /\ FromArgument(order, k) = fields \o G /\ G \in Seq(Field)
       /\ left = 1 => G = FromAdapter(order)
  <2>1. k \in 1..Len(compiled.arguments) /\ (left = 1 => k = Len(compiled.arguments))
    BY <1>1, <1>7
  <2>2. next = k + 1 /\ fields = Argument(compiled.arguments[k], compiled.version)
    BY <1>1, <1>2, <1>4
  <2>3. /\ FromArgument(order, k) = fields \o FromArgument(order, next)
        /\ FromArgument(order, next) \in Seq(Field)
        /\ k = Len(compiled.arguments) => FromArgument(order, next) = FromAdapter(order)
    BY <2>1, <2>2, NextArgument
  <2> QED
    BY <1>4, <2>1, <2>3
<1>11. Remains(file.payload, at, fields \o G)
  <2>1. FieldsToRead(order) = FromArgument(order, k)
    BY <1>1, <1>5 DEF FieldsToRead
  <2> QED
    BY <1>10, <2>1, ReadingFacts
<1>12. read.ok /\ read.value = a /\ Remains(file.payload, read.at, G)
  <2>1. PICK units, from, version :
          units = file.payload /\ from = at /\ version = compiled.version
    OBVIOUS
  <2>2. /\ units \in Seq(Units) /\ from \in Nat /\ version \in Nat
        /\ Expressed(a, version)
    BY <1>5, <1>8, <2>1, ReadingFacts
  <2>3. read = ReadEntry(units, from, version)
    BY <1>3, <1>5, <2>1
  <2>4. Remains(units, from, Argument(a, version) \o G)
    BY <1>4, <1>11, <2>1
  <2>5. /\ a \in ArgumentRecord /\ Len(a.name) <= MaxStringSize
        /\ Len(a.dims) \in 1..MaxEntries /\ Len(a.strides) = Len(a.dims)
    BY <1>8, <1>9
  <2>6. G \in Seq(Field)
    BY <1>10
  <2>7. read.ok /\ read.value = a /\ Remains(units, read.at, G)
    BY <2>2, <2>3, <2>4, <2>5, <2>6, EntryComplete
  <2> QED
    BY <2>1, <2>7
<1>13. /\ a.type < 20 /\ a.access <= kReadWrite
       /\ a.storage <= kRaggedBatchPrefix /\ a.divisor > 0
  BY <1>8 DEF ArgumentRecord, kReadWrite, kRead, kWrite, kRaggedBatchPrefix
<1>14. /\ at' = read.at /\ file' = file /\ compiled' = compiled /\ seen' = seen
       /\ restored' = [restored EXCEPT !.arguments = Append(@, a)]
       /\ phase' = (IF left = 1 THEN "adapter" ELSE "argument")
       /\ left' = (IF left = 1 THEN 0 ELSE left - 1)
  BY <1>3, <1>12, <1>13 DEF ReadArgument, Took, Goto
<1>15. restored'.arguments = SubSeq(compiled.arguments, 1, k)
  <2>1. Append(SubSeq(compiled.arguments, 1, n - left), a) = SubSeq(compiled.arguments, 1, k)
    <3>1. PICK list, before : list = compiled.arguments /\ before = n - left
      OBVIOUS
    <3>2. list \in Seq(ArgumentRecord) /\ k \in 1..Len(list) /\ before = k - 1 /\ a = list[k]
      BY <1>1, <1>2, <1>6, <1>7, <3>1
    <3>3. Append(SubSeq(list, 1, before), a) = SubSeq(list, 1, k)
      BY <3>2, PrefixGrows
    <3> QED
      BY <3>1, <3>3
  <2>2. restored'.arguments = Append(restored.arguments, a)
    BY <1>14, ReadingFacts DEF Readout
  <2> QED
    BY <1>5, <2>1, <2>2
<1>16. HeaderAlike' /\ OverridesAlike'
  BY <1>5, <1>14, ReadingFacts DEF HeaderAlike, OverridesAlike, Readout
<1>17. Alike' /\ FieldsToRead(order)' = G
  <2>1. CASE left = 1
    <3>1. restored'.arguments = compiled'.arguments
      BY <1>1, <1>6, <1>7, <1>14, <1>15, <2>1, WholePrefix
    <3>2. Alike'
      BY <1>14, <1>16, <2>1, <3>1 DEF Alike, Planning, Ending
    <3>3. FieldsToRead(order)' = FromAdapter(order)
      BY <1>14, <2>1 DEF FieldsToRead, FromAdapter, FromPlan, FromAllocation, FromNumeric,
                         FromVariant
    <3> QED
      BY <1>10, <2>1, <3>2, <3>3
  <2>2. CASE left # 1
    <3>1. left' <= Len(compiled.arguments)' /\ (Len(compiled.arguments) - left)' = k
          /\ (Len(compiled.arguments) - left + 1)' = next
      BY <1>1, <1>5, <1>6, <1>14, <2>2
    <3>2. ArgumentsAlike(Len(compiled.arguments) - left)'
      BY <1>14, <1>15, <3>1 DEF ArgumentsAlike
    <3>3. Alike'
      BY <1>14, <1>16, <2>2, <3>2 DEF Alike, Planning, Ending
    <3>4. FieldsToRead(order)' = FromArgument(order, Len(compiled.arguments) - left + 1)'
      BY <1>14, <2>2 DEF FieldsToRead
    <3>5. FromArgument(order, Len(compiled.arguments) - left + 1)' = FromArgument(order, next)
      BY <1>14, <3>1 DEF FromArgument, FromAdapter, FromPlan, FromAllocation, FromNumeric,
                         FromVariant
    <3> QED
      BY <1>4, <3>3, <3>4, <3>5
  <2> QED
    BY <2>1, <2>2
<1>18. seen' = SubSeq(order, 1, Len(seen))'
  BY <1>14 DEF Reading, Follows
<1>19. phase' # "refused"
  BY <1>14
<1> QED
  BY <1>12, <1>14, <1>17, <1>18, <1>19 DEF Follows

(* Where a part stands in a list, the list has that part.                  *)
Part(list, m, n) == SubSeq(list, m, n)
Spans(part, from, m, n) == m = from + 1 /\ n = from + Len(part)

LEMMA PartThere ==
  ASSUME NEW S, NEW list \in Seq(S), NEW part \in Seq(S), NEW from \in Nat,
         StandsAt(part, list, from), Len(part) >= 1,
         NEW m, NEW n, Spans(part, from, m, n)
  PROVE  Part(list, m, n) = part
<1>1. PICK k : k = Len(part)
  OBVIOUS
<1>2. /\ k \in Nat /\ k >= 1 /\ Len(list) \in Nat /\ n <= Len(list) /\ m \in Nat /\ n \in Nat
      /\ n = from + k /\ k = n - m + 1
  <2>1. k \in Nat /\ Len(list) \in Nat
    BY <1>1, LenProperties
  <2>2. from + k <= Len(list)
    BY <1>1 DEF StandsAt
  <2> QED
    BY <1>1, <2>1, <2>2 DEF Spans
<1>3. PICK t : t = SubSeq(list, m, n)
  OBVIOUS
<1>4. m \in 1..Len(list) /\ n \in m..Len(list)
  BY <1>2
<1>5. t \in Seq(S) /\ Len(t) = k
  <2>1. t \in [1..k -> S]
    BY <1>2, <1>3, <1>4, PartOfList
  <2> QED
    BY <1>2, <2>1, ListOfArray
<1>6. \A i \in 1..k : t[i] = list[m + i - 1]
  <2>1. \A i \in m..n : list[i] \in S
    BY <1>4, ElementOfSeq
  <2> QED
    BY <1>2, <1>3, <1>4, <2>1, SubSeqProperties
<1>7. \A i \in 1..k : m + i - 1 = from + i
  BY <1>2
<1>8. \A i \in 1..k : list[from + i] = part[i]
  BY <1>1 DEF StandsAt
<1>9. \A i \in 1..k : t[i] = part[i]
  BY <1>6, <1>7, <1>8
<1> QED
  BY <1>1, <1>3, <1>5, <1>9, SeqEqual DEF Part

LEMMA StandsParts ==
  ASSUME NEW S, NEW list \in Seq(S), NEW p \in Seq(S), NEW q \in Seq(S),
         NEW both, both = p \o q, StandsAt(both, list, 0), NEW n, Len(p) = n
  PROVE  StandsAt(p, list, 0) /\ StandsAt(q, list, n)
<1>1. StandsAt(p \o q, list, 0)
  OBVIOUS
<1>2. StandsAt(p, list, 0) /\ StandsAt(q, list, 0 + Len(p))
  BY <1>1, StandsConcat
<1>3. Len(p) \in Nat
  BY LenProperties
<1> QED
  BY <1>2, <1>3

(* A convolution is taken from the list it is written as.                  *)
LEMMA ConvolutionBack ==
  ASSUME NEW conv \in ConvolutionRecord, NEW list, list = ConvolutionList(conv)
  PROVE  ConvolutionOf(list) = conv
<1>1. PICK a1, a2, a3, a4, a5, a6, a7, a8, a9 :
        /\ a1 = conv.uids /\ a2 = conv.x /\ a3 = conv.w /\ a4 = conv.y /\ a5 = conv.padded
        /\ a6 = conv.pre /\ a7 = conv.post /\ a8 = conv.stride /\ a9 = conv.dilation
  OBVIOUS
<1>2. /\ a1 \in [1..3 -> Signed] /\ a2 \in [1..4 -> Signed] /\ a3 \in [1..4 -> Signed]
      /\ a4 \in [1..4 -> Signed] /\ a5 \in [1..4 -> Signed] /\ a6 \in [1..2 -> Signed]
      /\ a7 \in [1..2 -> Signed] /\ a8 \in [1..2 -> Signed] /\ a9 \in [1..2 -> Signed]
      /\ conv = [uids |-> a1, x |-> a2, w |-> a3, y |-> a4, padded |-> a5,
                 pre |-> a6, post |-> a7, stride |-> a8, dilation |-> a9]
  BY <1>1 DEF ConvolutionRecord, Shape, Pair
<1>3. PICK S : S = Signed
  OBVIOUS
<1>4. /\ a1 \in Seq(S) /\ Len(a1) = 3 /\ a2 \in Seq(S) /\ Len(a2) = 4
      /\ a3 \in Seq(S) /\ Len(a3) = 4 /\ a4 \in Seq(S) /\ Len(a4) = 4
      /\ a5 \in Seq(S) /\ Len(a5) = 4 /\ a6 \in Seq(S) /\ Len(a6) = 2
      /\ a7 \in Seq(S) /\ Len(a7) = 2 /\ a8 \in Seq(S) /\ Len(a8) = 2
      /\ a9 \in Seq(S) /\ Len(a9) = 2
  BY <1>2, <1>3, ShortArrays
<1>5. PICK l2 : l2 = a1 \o a2
  OBVIOUS
<1>6. PICK l3 : l3 = l2 \o a3
  OBVIOUS
<1>7. PICK l4 : l4 = l3 \o a4
  OBVIOUS
<1>8. PICK l5 : l5 = l4 \o a5
  OBVIOUS
<1>9. PICK l6 : l6 = l5 \o a6
  OBVIOUS
<1>10. PICK l7 : l7 = l6 \o a7
  OBVIOUS
<1>11. PICK l8 : l8 = l7 \o a8
  OBVIOUS
<1>12. PICK l9 : l9 = l8 \o a9
  OBVIOUS
<1>13. l2 \in Seq(S) /\ Len(l2) = 7
  <2>1. a1 \in Seq(S) /\ a2 \in Seq(S)
    BY <1>4
  <2>2. a1 \o a2 \in Seq(S) /\ Len(a1 \o a2) = Len(a1) + Len(a2)
    BY <2>1, ConcatLengths
  <2> QED
    BY <1>4, <1>5, <2>2
<1>14. l3 \in Seq(S) /\ Len(l3) = 11
  <2>1. l2 \in Seq(S) /\ a3 \in Seq(S)
    BY <1>4, <1>13
  <2>2. l2 \o a3 \in Seq(S) /\ Len(l2 \o a3) = Len(l2) + Len(a3)
    BY <2>1, ConcatLengths
  <2> QED
    BY <1>4, <1>6, <1>13, <2>2
<1>15. l4 \in Seq(S) /\ Len(l4) = 15
  <2>1. l3 \in Seq(S) /\ a4 \in Seq(S)
    BY <1>4, <1>14
  <2>2. l3 \o a4 \in Seq(S) /\ Len(l3 \o a4) = Len(l3) + Len(a4)
    BY <2>1, ConcatLengths
  <2> QED
    BY <1>4, <1>7, <1>14, <2>2
<1>16. l5 \in Seq(S) /\ Len(l5) = 19
  <2>1. l4 \in Seq(S) /\ a5 \in Seq(S)
    BY <1>4, <1>15
  <2>2. l4 \o a5 \in Seq(S) /\ Len(l4 \o a5) = Len(l4) + Len(a5)
    BY <2>1, ConcatLengths
  <2> QED
    BY <1>4, <1>8, <1>15, <2>2
<1>17. l6 \in Seq(S) /\ Len(l6) = 21
  <2>1. l5 \in Seq(S) /\ a6 \in Seq(S)
    BY <1>4, <1>16
  <2>2. l5 \o a6 \in Seq(S) /\ Len(l5 \o a6) = Len(l5) + Len(a6)
    BY <2>1, ConcatLengths
  <2> QED
    BY <1>4, <1>9, <1>16, <2>2
<1>18. l7 \in Seq(S) /\ Len(l7) = 23
  <2>1. l6 \in Seq(S) /\ a7 \in Seq(S)
    BY <1>4, <1>17
  <2>2. l6 \o a7 \in Seq(S) /\ Len(l6 \o a7) = Len(l6) + Len(a7)
    BY <2>1, ConcatLengths
  <2> QED
    BY <1>4, <1>10, <1>17, <2>2
<1>19. l8 \in Seq(S) /\ Len(l8) = 25
  <2>1. l7 \in Seq(S) /\ a8 \in Seq(S)
    BY <1>4, <1>18
  <2>2. l7 \o a8 \in Seq(S) /\ Len(l7 \o a8) = Len(l7) + Len(a8)
    BY <2>1, ConcatLengths
  <2> QED
    BY <1>4, <1>11, <1>18, <2>2
<1>20. list = l9 /\ list \in Seq(S) /\ Len(list) = 27
  <2>1. list = l9
    BY <1>1, <1>5, <1>6, <1>7, <1>8, <1>9, <1>10, <1>11, <1>12 DEF ConvolutionList
  <2> QED
    BY <1>3, <2>1, ConvolutionLists
<1>21. StandsAt(list, list, 0)
  BY <1>20 DEF StandsAt
<1>22. StandsAt(l8, list, 0) /\ Part(list, 26, 27) = a9
  <2>1. /\ l8 \in Seq(S) /\ Len(l8) = 25
        /\ a9 \in Seq(S) /\ Len(a9) = 2 /\ list \in Seq(S)
    BY <1>4, <1>19, <1>20
  <2>2. l9 = l8 \o a9 /\ StandsAt(l9, list, 0)
    BY <1>12, <1>20, <1>21
  <2>3. StandsAt(l8, list, 0) /\ StandsAt(a9, list, 25)
    BY <2>1, <2>2, StandsParts
  <2>4. Spans(a9, 25, 26, 27) /\ 25 \in Nat /\ Len(a9) >= 1
    BY <2>1 DEF Spans
  <2>5. list \in Seq(S) /\ a9 \in Seq(S)
    BY <2>1
  <2>6. Part(list, 26, 27) = a9
    BY <2>3, <2>4, <2>5, PartThere
  <2> QED
    BY <2>3, <2>6
<1>23. StandsAt(l7, list, 0) /\ Part(list, 24, 25) = a8
  <2>1. /\ l7 \in Seq(S) /\ Len(l7) = 23
        /\ a8 \in Seq(S) /\ Len(a8) = 2 /\ list \in Seq(S)
    BY <1>4, <1>18, <1>20
  <2>2. l8 = l7 \o a8 /\ StandsAt(l8, list, 0)
    BY <1>11, <1>22
  <2>3. StandsAt(l7, list, 0) /\ StandsAt(a8, list, 23)
    BY <2>1, <2>2, StandsParts
  <2>4. Spans(a8, 23, 24, 25) /\ 23 \in Nat /\ Len(a8) >= 1
    BY <2>1 DEF Spans
  <2>5. list \in Seq(S) /\ a8 \in Seq(S)
    BY <2>1
  <2>6. Part(list, 24, 25) = a8
    BY <2>3, <2>4, <2>5, PartThere
  <2> QED
    BY <2>3, <2>6
<1>24. StandsAt(l6, list, 0) /\ Part(list, 22, 23) = a7
  <2>1. /\ l6 \in Seq(S) /\ Len(l6) = 21
        /\ a7 \in Seq(S) /\ Len(a7) = 2 /\ list \in Seq(S)
    BY <1>4, <1>17, <1>20
  <2>2. l7 = l6 \o a7 /\ StandsAt(l7, list, 0)
    BY <1>10, <1>23
  <2>3. StandsAt(l6, list, 0) /\ StandsAt(a7, list, 21)
    BY <2>1, <2>2, StandsParts
  <2>4. Spans(a7, 21, 22, 23) /\ 21 \in Nat /\ Len(a7) >= 1
    BY <2>1 DEF Spans
  <2>5. list \in Seq(S) /\ a7 \in Seq(S)
    BY <2>1
  <2>6. Part(list, 22, 23) = a7
    BY <2>3, <2>4, <2>5, PartThere
  <2> QED
    BY <2>3, <2>6
<1>25. StandsAt(l5, list, 0) /\ Part(list, 20, 21) = a6
  <2>1. /\ l5 \in Seq(S) /\ Len(l5) = 19
        /\ a6 \in Seq(S) /\ Len(a6) = 2 /\ list \in Seq(S)
    BY <1>4, <1>16, <1>20
  <2>2. l6 = l5 \o a6 /\ StandsAt(l6, list, 0)
    BY <1>9, <1>24
  <2>3. StandsAt(l5, list, 0) /\ StandsAt(a6, list, 19)
    BY <2>1, <2>2, StandsParts
  <2>4. Spans(a6, 19, 20, 21) /\ 19 \in Nat /\ Len(a6) >= 1
    BY <2>1 DEF Spans
  <2>5. list \in Seq(S) /\ a6 \in Seq(S)
    BY <2>1
  <2>6. Part(list, 20, 21) = a6
    BY <2>3, <2>4, <2>5, PartThere
  <2> QED
    BY <2>3, <2>6
<1>26. StandsAt(l4, list, 0) /\ Part(list, 16, 19) = a5
  <2>1. /\ l4 \in Seq(S) /\ Len(l4) = 15
        /\ a5 \in Seq(S) /\ Len(a5) = 4 /\ list \in Seq(S)
    BY <1>4, <1>15, <1>20
  <2>2. l5 = l4 \o a5 /\ StandsAt(l5, list, 0)
    BY <1>8, <1>25
  <2>3. StandsAt(l4, list, 0) /\ StandsAt(a5, list, 15)
    BY <2>1, <2>2, StandsParts
  <2>4. Spans(a5, 15, 16, 19) /\ 15 \in Nat /\ Len(a5) >= 1
    BY <2>1 DEF Spans
  <2>5. list \in Seq(S) /\ a5 \in Seq(S)
    BY <2>1
  <2>6. Part(list, 16, 19) = a5
    BY <2>3, <2>4, <2>5, PartThere
  <2> QED
    BY <2>3, <2>6
<1>27. StandsAt(l3, list, 0) /\ Part(list, 12, 15) = a4
  <2>1. /\ l3 \in Seq(S) /\ Len(l3) = 11
        /\ a4 \in Seq(S) /\ Len(a4) = 4 /\ list \in Seq(S)
    BY <1>4, <1>14, <1>20
  <2>2. l4 = l3 \o a4 /\ StandsAt(l4, list, 0)
    BY <1>7, <1>26
  <2>3. StandsAt(l3, list, 0) /\ StandsAt(a4, list, 11)
    BY <2>1, <2>2, StandsParts
  <2>4. Spans(a4, 11, 12, 15) /\ 11 \in Nat /\ Len(a4) >= 1
    BY <2>1 DEF Spans
  <2>5. list \in Seq(S) /\ a4 \in Seq(S)
    BY <2>1
  <2>6. Part(list, 12, 15) = a4
    BY <2>3, <2>4, <2>5, PartThere
  <2> QED
    BY <2>3, <2>6
<1>28. StandsAt(l2, list, 0) /\ Part(list, 8, 11) = a3
  <2>1. /\ l2 \in Seq(S) /\ Len(l2) = 7
        /\ a3 \in Seq(S) /\ Len(a3) = 4 /\ list \in Seq(S)
    BY <1>4, <1>13, <1>20
  <2>2. l3 = l2 \o a3 /\ StandsAt(l3, list, 0)
    BY <1>6, <1>27
  <2>3. StandsAt(l2, list, 0) /\ StandsAt(a3, list, 7)
    BY <2>1, <2>2, StandsParts
  <2>4. Spans(a3, 7, 8, 11) /\ 7 \in Nat /\ Len(a3) >= 1
    BY <2>1 DEF Spans
  <2>5. list \in Seq(S) /\ a3 \in Seq(S)
    BY <2>1
  <2>6. Part(list, 8, 11) = a3
    BY <2>3, <2>4, <2>5, PartThere
  <2> QED
    BY <2>3, <2>6
<1>29. StandsAt(a1, list, 0) /\ Part(list, 4, 7) = a2
  <2>1. /\ a1 \in Seq(S) /\ Len(a1) = 3
        /\ a2 \in Seq(S) /\ Len(a2) = 4 /\ list \in Seq(S)
    BY <1>4, <1>20
  <2>2. l2 = a1 \o a2 /\ StandsAt(l2, list, 0)
    BY <1>5, <1>28
  <2>3. StandsAt(a1, list, 0) /\ StandsAt(a2, list, 3)
    BY <2>1, <2>2, StandsParts
  <2>4. Spans(a2, 3, 4, 7) /\ 3 \in Nat /\ Len(a2) >= 1
    BY <2>1 DEF Spans
  <2>5. list \in Seq(S) /\ a2 \in Seq(S)
    BY <2>1
  <2>6. Part(list, 4, 7) = a2
    BY <2>3, <2>4, <2>5, PartThere
  <2> QED
    BY <2>3, <2>6
<1>30. Part(list, 1, 3) = a1
  <2>1. a1 \in Seq(S) /\ Len(a1) = 3 /\ list \in Seq(S) /\ StandsAt(a1, list, 0)
    BY <1>4, <1>20, <1>29
  <2>2. Spans(a1, 0, 1, 3) /\ 0 \in Nat /\ Len(a1) >= 1
    BY <2>1 DEF Spans
  <2>3. list \in Seq(S) /\ a1 \in Seq(S) /\ StandsAt(a1, list, 0)
    BY <2>1
  <2> QED
    BY <2>2, <2>3, PartThere
<1> QED
  BY <1>2, <1>22, <1>23, <1>24, <1>25, <1>26, <1>27, <1>28, <1>29, <1>30 DEF ConvolutionOf, Part

LEMMA RemainsNone ==
  ASSUME NEW units \in Seq(Units), NEW from \in Nat, Remains(units, from, <<>>)
  PROVE  from = Len(units)
<1>1. from + Len(<<>>) = Len(units)
  BY WrittenNone DEF Remains
<1> QED
  BY <1>1, EmptySeq

LEMMA ConvolutionComplete ==
  ASSUME NEW units \in Seq(Units), NEW from \in Nat, NEW conv \in ConvolutionRecord,
         NEW G \in Seq(Field), Remains(units, from, Convolution(conv) \o G),
         NEW read, read = ReadI64s(units, from, ConvolutionFields)
  PROVE  /\ read.ok /\ ConvolutionOf(read.value) = conv
         /\ Remains(units, read.at, G) /\ read.at \in 0..Len(units)
<1>1. PICK list, n : list = ConvolutionList(conv) /\ n = 27
  OBVIOUS
<1>2. list \in Seq(Signed) /\ n = Len(list) /\ Convolution(conv) = I64s(list)
  BY <1>1, ConvolutionLists
<1>3. ConvolutionFields = n
  BY <1>1 DEF ConvolutionFields
<1>4. read = ReadI64s(units, from, n) /\ Remains(units, from, I64s(list) \o G)
  BY <1>2, <1>3
<1>5. /\ read.ok /\ read.value = list
      /\ Remains(units, read.at, G) /\ read.at \in 0..Len(units)
  <2>1. list \in Seq(Signed) /\ n = Len(list)
    BY <1>2
  <2> QED
    BY <1>4, <2>1, NumbersComplete
<1>6. ConvolutionOf(list) = conv
  BY <1>1, ConvolutionBack
<1> QED
  BY <1>5, <1>6

(* The adapter of a convolution is read from its own units.                *)
LEMMA BlobComplete ==
  ASSUME NEW conv \in ConvolutionRecord, NEW blob, blob = WrittenUnits(Convolution(conv)),
         NEW read, read = ReadI64s(blob, 0, ConvolutionFields)
  PROVE  read.ok /\ read.at = Len(blob) /\ ConvolutionOf(read.value) = conv
<1>1. PICK F : F = Convolution(conv)
  OBVIOUS
<1>2. F \in Seq(Field) /\ blob \in Seq(Units)
  <2>1. F \in Seq(Limited(0)) /\ blob \in Seq(Units)
    BY <1>1, ConvolutionFieldsWritten
  <2> QED
    BY <2>1, LimitedIsField
<1>3. Len(blob) \in Nat
  BY <1>2, LenProperties
<1>4. StandsAt(blob, blob, 0) /\ 0 + Len(blob) = Len(blob)
  BY <1>3 DEF StandsAt
<1>5. Remains(blob, 0, F)
  BY <1>1, <1>4 DEF Remains
<1>6. PICK G : G = <<>>
  OBVIOUS
<1>7. G \in Seq(Field) /\ F \o G = F
  BY <1>2, <1>6, ConcatEmptySeq, EmptySeq
<1>8. Remains(blob, 0, Convolution(conv) \o G)
  BY <1>1, <1>5, <1>7
<1>9. /\ read.ok /\ ConvolutionOf(read.value) = conv
      /\ Remains(blob, read.at, G) /\ read.at \in 0..Len(blob)
  BY <1>2, <1>7, <1>8, ConvolutionComplete
<1>10. PICK next : next = read.at
  OBVIOUS
<1>11. next \in Nat /\ Remains(blob, next, <<>>)
  BY <1>3, <1>6, <1>9, <1>10
<1>12. next = Len(blob)
  BY <1>2, <1>11, RemainsNone
<1> QED
  BY <1>9, <1>10, <1>12

LEMMA AdapterReads ==
  ASSUME NEW order, Reading(order), ReadAdapter, ReadInv'
  PROVE  Follows(order)'
<1>1. PICK kinds : kinds = <<"u32", "blob">>
  OBVIOUS
<1>2. PICK read, v : read = ReadAll(file.payload, at, kinds) /\ v = read.value
  OBVIOUS
<1>3. PICK fields : fields = ReadI64s(v[2], 0, ConvolutionFields)
  OBVIOUS
<1>4. PICK conv, adapter, G :
        conv = compiled.conv /\ adapter = compiled.adapter /\ G = FromPlan(order)
  OBVIOUS
<1>5. PICK blob : blob = IF adapter = ConvAdapter THEN WrittenUnits(Convolution(conv)) ELSE <<>>
  OBVIOUS
<1>6. PICK F : F = <<U32(adapter), Blob(blob)>>
  OBVIOUS
<1>7. /\ phase = "adapter" /\ seen = <<>> /\ HeaderAlike /\ OverridesAlike
      /\ restored.arguments = compiled.arguments
      /\ Remains(file.payload, at, F \o G)
      /\ conv \in ConvolutionRecord /\ adapter \in {ConvAdapter, GenericAdapter}
  <2>1. phase = "adapter"
    BY DEF ReadAdapter
  <2>2. seen = <<>>
    BY <2>1, ReadingFacts DEF PlaceInv, Before
  <2>3. HeaderAlike /\ OverridesAlike /\ restored.arguments = compiled.arguments
    BY <2>1, ReadingFacts DEF Alike
  <2>4. Adapter(compiled) = F
    BY <1>4, <1>5, <1>6 DEF Adapter
  <2>5. FieldsToRead(order) = F \o G
    BY <1>4, <2>1, <2>4 DEF FieldsToRead, FromAdapter
  <2>6. conv \in ConvolutionRecord /\ adapter \in {ConvAdapter, GenericAdapter}
    BY <1>4, ReadingFacts, ArtifactParts
  <2> QED
    BY <2>1, <2>2, <2>3, <2>5, <2>6, ReadingFacts
<1>8. F \in Seq(Readable) /\ G \in Seq(Field) /\ KindsOf(F) = kinds
  <2>1. F \in Seq(Readable)
    BY <1>4, <1>5, <1>6, ReadingFacts, ReadableParts DEF Adapter
  <2>2. G \in Seq(Field)
    BY <1>4, ReadingFacts, LeftFields, ReadableLists
  <2>3. KindsOf(F) = kinds
    BY <1>1, <1>6 DEF KindsOf, U32, Blob
  <2> QED
    BY <2>1, <2>2, <2>3
<1>9. read.ok /\ Valued(v, F) /\ Remains(file.payload, read.at, G)
  <2>1. PICK units, from : units = file.payload /\ from = at
    OBVIOUS
  <2>2. /\ units \in Seq(Units) /\ from \in Nat /\ read = ReadAll(units, from, kinds)
        /\ Remains(units, from, F \o G)
    BY <1>2, <1>7, <2>1, ReadingFacts
  <2>3. read.ok /\ Valued(read.value, F) /\ Remains(units, read.at, G)
    BY <1>8, <2>2, FieldsComplete
  <2> QED
    BY <1>2, <2>1, <2>3
<1>10. v[1] = adapter /\ v[2] = blob
  <2>1. Len(F) = 2 /\ F[1][2] = adapter /\ F[2][2] = blob
    BY <1>6 DEF U32, Blob
  <2> QED
    BY <1>9, <2>1 DEF Valued
<1>11. /\ adapter = ConvAdapter => /\ fields.ok /\ fields.at = Len(blob)
                                   /\ ConvolutionOf(fields.value) = conv /\ ShapesValid(conv)
       /\ adapter = GenericAdapter => blob = <<>> /\ conv = NoConvolution
  <2>1. ASSUME adapter = ConvAdapter
        PROVE  /\ fields.ok /\ fields.at = Len(blob)
               /\ ConvolutionOf(fields.value) = conv /\ ShapesValid(conv)
    <3>1. blob = WrittenUnits(Convolution(conv)) /\ fields = ReadI64s(blob, 0, ConvolutionFields)
      BY <1>3, <1>5, <1>10, <2>1
    <3>2. fields.ok /\ fields.at = Len(blob) /\ ConvolutionOf(fields.value) = conv
      BY <1>7, <3>1, BlobComplete
    <3>3. ConvolutionValid(conv)
      BY <1>4, <2>1, ReadingFacts DEF ContractValid
    <3>4. ShapesValid(conv)
      BY <3>3 DEF ConvolutionValid, ShapesValid
    <3> QED
      BY <3>2, <3>4
  <2>2. ASSUME adapter = GenericAdapter
        PROVE  blob = <<>> /\ conv = NoConvolution
    <3>1. adapter # ConvAdapter
      BY <2>2 DEF GenericAdapter, ConvAdapter
    <3>2. conv = NoConvolution
      BY <1>4, <2>2 DEF Reading, CompiledInv
    <3> QED
      BY <1>5, <3>1, <3>2
  <2> QED
    BY <2>1, <2>2
<1>12. /\ adapter \in {ConvAdapter, GenericAdapter}
       /\ at' = read.at /\ file' = file /\ compiled' = compiled /\ seen' = seen
       /\ restored' = WithAdapter(restored, adapter, conv)
       /\ phase' = "plan" /\ left' = 0
  <2>1. CASE adapter = ConvAdapter
    <3>1. adapter # GenericAdapter
      BY <2>1 DEF GenericAdapter, ConvAdapter
    <3>2. /\ Took(read) /\ restored' = [restored EXCEPT !.adapter = v[1], !.conv = conv]
          /\ Goto("plan", 0) /\ UNCHANGED seen
      BY <1>1, <1>2, <1>3, <1>9, <1>10, <1>11, <2>1, <3>1 DEF ReadAdapter
    <3> QED
      BY <1>7, <1>10, <3>2 DEF Took, Goto, WithAdapter
  <2>2. CASE adapter = GenericAdapter
    <3>1. adapter # ConvAdapter
      BY <2>2 DEF GenericAdapter, ConvAdapter
    <3>2. /\ Took(read) /\ restored' = [restored EXCEPT !.adapter = v[1], !.conv = conv]
          /\ Goto("plan", 0) /\ UNCHANGED seen
      BY <1>1, <1>2, <1>9, <1>10, <1>11, <2>2, <3>1 DEF ReadAdapter
    <3> QED
      BY <1>7, <1>10, <3>2 DEF Took, Goto, WithAdapter
  <2> QED
    BY <1>7, <2>1, <2>2
<1>13. Alike'
  <2>1. /\ restored'.version = restored.version /\ restored'.triple = restored.triple
        /\ restored'.function = restored.function /\ restored'.dynamic = restored.dynamic
        /\ restored'.override = restored.override /\ restored'.policy = restored.policy
        /\ restored'.roles = restored.roles /\ restored'.axes = restored.axes
        /\ restored'.arguments = restored.arguments
        /\ restored'.adapter = adapter /\ restored'.conv = conv
    BY <1>12, ReadingFacts DEF WithAdapter, Readout
  <2>2. HeaderAlike' /\ OverridesAlike' /\ AdapterAlike'
    BY <1>4, <1>7, <1>12, <2>1 DEF HeaderAlike, OverridesAlike, AdapterAlike
  <2>3. (restored.arguments = compiled.arguments)'
    BY <1>7, <1>12, <2>1
  <2> QED
    BY <1>12, <2>2, <2>3 DEF Alike, Planning, Ending
<1>14. FieldsToRead(order)' = G
  BY <1>4, <1>12 DEF FieldsToRead, FromPlan, FromAllocation, FromNumeric, FromVariant
<1>15. seen' = SubSeq(order, 1, Len(seen))' /\ phase' # "refused"
  BY <1>12 DEF Reading, Follows
<1> QED
  BY <1>9, <1>12, <1>13, <1>14, <1>15 DEF Follows

(* The tables version 1 did not have are made up again.                    *)
LEMMA LegacyShapes ==
  ASSUME NEW c \in Artifact, ContractValid(c), Expressible(c, c.version), c.version = 1,
         NEW conv, conv = c.conv
  PROVE  /\ c.adapter = ConvAdapter /\ c.arguments = LegacyArguments(conv)
         /\ conv \in ConvolutionRecord /\ ShapesValid(conv)
         /\ \A shape \in {conv.x, conv.w, conv.y} :
              /\ \A k \in 1..4 : shape[k] > 0
              /\ HasStorage("FLOAT", shape, PackedStrides(shape))
<1>1. c.adapter = ConvAdapter /\ c.arguments = LegacyArguments(conv)
  BY DEF Expressible
<1>2. conv \in ConvolutionRecord
  BY ArtifactParts
<1>3. ShapesValid(conv)
  BY <1>1 DEF ContractValid, ConvolutionValid, ShapesValid
<1>4. conv.x \in Shape /\ conv.w \in Shape /\ conv.y \in Shape
  BY <1>2 DEF ConvolutionRecord
<1>5. ASSUME NEW k \in 1..3, NEW shape, shape = <<conv.x, conv.w, conv.y>>[k]
      PROVE  /\ \A i \in 1..4 : shape[i] > 0
             /\ HasStorage("FLOAT", shape, PackedStrides(shape))
  <2>1. PICK a : a = c.arguments[k]
    OBVIOUS
  <2>2. a = SynthesizedArgument(conv, k)
    BY <1>1, <2>1 DEF LegacyArguments
  <2>3. /\ a.dims = shape /\ a.strides = PackedStrides(shape)
        /\ a.storage = 0 /\ a.type = 0
    BY <1>5, <2>2 DEF SynthesizedArgument, Float
  <2>4. k \in 1..Len(c.arguments)
    BY <1>1 DEF LegacyArguments
  <2>5. ArgumentValid(a)
    BY <2>1, <2>4 DEF ContractValid, TableValid
  <2>6. HasStorage(TypeName(a), shape, PackedStrides(shape))
    BY <2>3, <2>5 DEF ArgumentValid, SizeIsStorage, kRaggedBatchPrefix
  <2>7. TypeName(a) = "FLOAT"
    BY <2>3 DEF TypeName, DataTypes
  <2>8. shape \in [1..4 -> Signed]
    BY <1>4, <1>5 DEF Shape
  <2>9. Axes(shape) = 1..4
    BY <2>8, ShortArrays DEF Axes
  <2>10. \A i \in 1..4 : shape[i] > 0
    BY <2>6, <2>9 DEF HasStorage
  <2> QED
    BY <2>6, <2>7, <2>10
<1>6. ASSUME NEW shape \in {conv.x, conv.w, conv.y}
      PROVE  /\ \A k \in 1..4 : shape[k] > 0
             /\ HasStorage("FLOAT", shape, PackedStrides(shape))
  <2>1. \E k \in 1..3 : shape = <<conv.x, conv.w, conv.y>>[k]
    OBVIOUS
  <2> QED
    BY <1>5, <2>1
<1> QED
  BY <1>1, <1>2, <1>3, <1>6

LEMMA LegacyReads ==
  ASSUME NEW order, Reading(order), ReadLegacyConvolution, ReadInv'
  PROVE  Follows(order)'
<1>1. PICK fields : fields = ReadI64s(file.payload, at, ConvolutionFields)
  OBVIOUS
<1>2. PICK conv, G : conv = compiled.conv /\ G = FromPlan(order)
  OBVIOUS
<1>3. /\ phase = "legacy" /\ seen = <<>> /\ HeaderAlike /\ OverridesAlike
      /\ restored.adapter = ConvAdapter /\ compiled.version = 1
      /\ Remains(file.payload, at, Convolution(conv) \o G)
  <2>1. phase = "legacy"
    BY DEF ReadLegacyConvolution
  <2>2. seen = <<>> /\ restored.version = 1
    BY <2>1, ReadingFacts DEF PlaceInv, Before
  <2>3. HeaderAlike /\ OverridesAlike /\ restored.adapter = ConvAdapter
    BY <2>1, ReadingFacts DEF Alike
  <2>4. FieldsToRead(order) = Convolution(conv) \o G
    BY <1>2, <2>1 DEF FieldsToRead, FromLegacy
  <2> QED
    BY <2>1, <2>2, <2>3, <2>4, ReadingFacts DEF HeaderAlike
<1>4. /\ compiled.adapter = ConvAdapter /\ compiled.arguments = LegacyArguments(conv)
      /\ conv \in ConvolutionRecord /\ ShapesValid(conv)
      /\ \A shape \in {conv.x, conv.w, conv.y} :
           /\ \A k \in 1..4 : shape[k] > 0
           /\ HasStorage("FLOAT", shape, PackedStrides(shape))
  <2>1. PICK c : c = compiled
    OBVIOUS
  <2>2. /\ c \in Artifact /\ ContractValid(c) /\ Expressible(c, c.version) /\ c.version = 1
        /\ conv = c.conv
    BY <1>2, <1>3, <2>1, ReadingFacts
  <2>3. /\ c.adapter = ConvAdapter /\ c.arguments = LegacyArguments(conv)
        /\ conv \in ConvolutionRecord /\ ShapesValid(conv)
        /\ \A shape \in {conv.x, conv.w, conv.y} :
             /\ \A k \in 1..4 : shape[k] > 0
             /\ HasStorage("FLOAT", shape, PackedStrides(shape))
    BY <2>2, LegacyShapes
  <2> QED
    BY <2>1, <2>3
<1>5. G \in Seq(Field)
  BY <1>2, ReadingFacts, LeftFields, ReadableLists
<1>6. fields.ok /\ ConvolutionOf(fields.value) = conv /\ Remains(file.payload, fields.at, G)
  <2>1. PICK units, from : units = file.payload /\ from = at
    OBVIOUS
  <2>2. /\ units \in Seq(Units) /\ from \in Nat
        /\ fields = ReadI64s(units, from, ConvolutionFields)
        /\ Remains(units, from, Convolution(conv) \o G)
    BY <1>1, <1>3, <2>1, ReadingFacts
  <2>3. conv \in ConvolutionRecord
    BY <1>4
  <2>4. fields.ok /\ ConvolutionOf(fields.value) = conv /\ Remains(units, fields.at, G)
    BY <1>5, <2>2, <2>3, ConvolutionComplete
  <2> QED
    BY <2>1, <2>4
<1>7. /\ at' = fields.at /\ file' = file /\ compiled' = compiled /\ seen' = seen
      /\ restored' = WithLegacy(restored, conv)
      /\ phase' = "plan" /\ left' = 0
  <2>1. /\ Took(fields) /\ Goto("plan", 0) /\ UNCHANGED seen
        /\ restored' = WithLegacy(restored, conv)
    BY <1>1, <1>4, <1>6 DEF ReadLegacyConvolution, WithLegacy
  <2> QED
    BY <2>1 DEF Took, Goto
<1>8. Alike'
  <2>1. /\ restored'.version = restored.version /\ restored'.triple = restored.triple
        /\ restored'.function = restored.function /\ restored'.dynamic = restored.dynamic
        /\ restored'.override = restored.override /\ restored'.policy = restored.policy
        /\ restored'.roles = restored.roles /\ restored'.axes = restored.axes
        /\ restored'.arguments = LegacyArguments(conv)
        /\ restored'.adapter = restored.adapter /\ restored'.conv = conv
    BY <1>7, ReadingFacts DEF WithLegacy, Readout
  <2>2. HeaderAlike' /\ OverridesAlike' /\ AdapterAlike'
    BY <1>2, <1>3, <1>4, <1>7, <2>1 DEF HeaderAlike, OverridesAlike, AdapterAlike
  <2>3. (restored.arguments = compiled.arguments)'
    BY <1>4, <1>7, <2>1
  <2> QED
    BY <1>7, <2>2, <2>3 DEF Alike, Planning, Ending
<1>9. FieldsToRead(order)' = G
  BY <1>2, <1>7 DEF FieldsToRead, FromPlan, FromAllocation, FromNumeric, FromVariant
<1>10. seen' = SubSeq(order, 1, Len(seen))' /\ phase' # "refused"
  BY <1>7 DEF Reading, Follows
<1> QED
  BY <1>6, <1>7, <1>8, <1>9, <1>10 DEF Follows

(* An allocation takes at least the units the reader counts on.            *)
LEMMA UnitsGrow ==
  ASSUME NEW fields \in Seq(Field), NEW field \in Field
  PROVE  /\ Append(fields, field) \in Seq(Field)
         /\ Len(WrittenUnits(fields)) \in Nat /\ Len(Encoded(field)) \in Nat
         /\ Len(WrittenUnits(Append(fields, field)))
              = Len(WrittenUnits(fields)) + Len(Encoded(field))
<1>1. Append(fields, field) \in Seq(Field)
  BY AppendProperties
<1>2. WrittenUnits(Append(fields, field)) = WrittenUnits(fields) \o Encoded(field)
  BY WrittenAppend
<1>3. WrittenUnits(fields) \in Seq(Units) /\ Encoded(field) \in Seq(Units)
  BY WrittenIsUnits, EncodedIsUnits
<1>4. Len(WrittenUnits(fields) \o Encoded(field))
        = Len(WrittenUnits(fields)) + Len(Encoded(field))
  BY <1>3, ConcatLengths
<1>5. Len(WrittenUnits(fields)) \in Nat /\ Len(Encoded(field)) \in Nat
  BY <1>3, LenProperties
<1> QED
  BY <1>1, <1>2, <1>4, <1>5

LEMMA FieldUnits ==
  /\ \A n \in Unsigned : U64(n) \in Field /\ Len(Encoded(U64(n))) >= 2
  /\ \A text \in Texts : String(text) \in Field /\ Len(Encoded(String(text))) >= 1
<1>1. ASSUME NEW n \in Unsigned
      PROVE  U64(n) \in Field /\ Len(Encoded(U64(n))) >= 2
  <2>1. U64(n) \in Field
    BY FieldTypes DEF U64
  <2>2. Encoded(U64(n)) = Halves(n)
    BY EncodedOfKind DEF U64
  <2>3. Len(Halves(n)) = 2
    BY DEF Halves
  <2> QED
    BY <2>1, <2>2, <2>3
<1>2. ASSUME NEW text \in Texts
      PROVE  String(text) \in Field /\ Len(Encoded(String(text))) >= 1
  <2>1. String(text) \in Field
    BY FieldTypes DEF String
  <2>2. Encoded(String(text)) = <<Len(text)>> \o text
    BY EncodedOfKind DEF String
  <2>3. PICK one : one = <<Len(text)>>
    OBVIOUS
  <2>4. one \in Seq(Units) /\ Len(one) = 1 /\ text \in Seq(Units)
    BY <2>3 DEF Texts
  <2>5. Len(one \o text) = Len(one) + Len(text) /\ Len(text) \in Nat
    BY <2>4, ConcatLengths, LenProperties
  <2>6. Len(one \o text) >= 1
    BY <2>4, <2>5
  <2> QED
    BY <2>1, <2>2, <2>3, <2>6
<1> QED
  BY <1>1, <1>2

LEMMA AllocationUnits ==
  ASSUME NEW a \in AllocationRecord
  PROVE  Allocation(a) \in Seq(Field) /\ Len(WrittenUnits(Allocation(a))) >= 11
<1>1. PICK f1, f2, f3, f4, f5, f6 :
        /\ f1 = String(a.name) /\ f2 = U64(a.offset) /\ f3 = U64(a.size)
        /\ f4 = U64(a.alignment) /\ f5 = U64(a.start) /\ f6 = U64(a.end)
  OBVIOUS
<1>2. /\ f1 \in Field /\ f2 \in Field /\ f3 \in Field /\ f4 \in Field /\ f5 \in Field
      /\ f6 \in Field /\ Len(Encoded(f1)) >= 1 /\ Len(Encoded(f2)) >= 2
      /\ Len(Encoded(f3)) >= 2 /\ Len(Encoded(f4)) >= 2 /\ Len(Encoded(f5)) >= 2
      /\ Len(Encoded(f6)) >= 2
  BY <1>1, FieldUnits DEF AllocationRecord
<1>3. PICK g0, g1, g2, g3, g4, g5, g6 :
        /\ g0 = <<>> /\ g1 = <<f1>> /\ g2 = <<f1, f2>> /\ g3 = <<f1, f2, f3>>
        /\ g4 = <<f1, f2, f3, f4>> /\ g5 = <<f1, f2, f3, f4, f5>>
        /\ g6 = <<f1, f2, f3, f4, f5, f6>>
  OBVIOUS
<1>4. /\ g1 = Append(g0, f1) /\ g2 = Append(g1, f2) /\ g3 = Append(g2, f3)
      /\ g4 = Append(g3, f4) /\ g5 = Append(g4, f5) /\ g6 = Append(g5, f6)
  BY <1>3
<1>5. g0 \in Seq(Field) /\ Len(WrittenUnits(g0)) >= 0
  BY <1>3, WrittenNone, EmptySeq
<1>6. g1 \in Seq(Field) /\ Len(WrittenUnits(g1)) >= 1
  <2>1. g0 \in Seq(Field) /\ f1 \in Field /\ g1 = Append(g0, f1)
    BY <1>2, <1>4, <1>5
  <2>2. /\ g1 \in Seq(Field)
        /\ Len(WrittenUnits(g0)) \in Nat /\ Len(Encoded(f1)) \in Nat
        /\ Len(WrittenUnits(g1)) = Len(WrittenUnits(g0)) + Len(Encoded(f1))
    BY <2>1, UnitsGrow
  <2> QED
    BY <1>2, <1>5, <2>2
<1>7. g2 \in Seq(Field) /\ Len(WrittenUnits(g2)) >= 3
  <2>1. g1 \in Seq(Field) /\ f2 \in Field /\ g2 = Append(g1, f2)
    BY <1>2, <1>4, <1>6
  <2>2. /\ g2 \in Seq(Field)
        /\ Len(WrittenUnits(g1)) \in Nat /\ Len(Encoded(f2)) \in Nat
        /\ Len(WrittenUnits(g2)) = Len(WrittenUnits(g1)) + Len(Encoded(f2))
    BY <2>1, UnitsGrow
  <2> QED
    BY <1>2, <1>6, <2>2
<1>8. g3 \in Seq(Field) /\ Len(WrittenUnits(g3)) >= 5
  <2>1. g2 \in Seq(Field) /\ f3 \in Field /\ g3 = Append(g2, f3)
    BY <1>2, <1>4, <1>7
  <2>2. /\ g3 \in Seq(Field)
        /\ Len(WrittenUnits(g2)) \in Nat /\ Len(Encoded(f3)) \in Nat
        /\ Len(WrittenUnits(g3)) = Len(WrittenUnits(g2)) + Len(Encoded(f3))
    BY <2>1, UnitsGrow
  <2> QED
    BY <1>2, <1>7, <2>2
<1>9. g4 \in Seq(Field) /\ Len(WrittenUnits(g4)) >= 7
  <2>1. g3 \in Seq(Field) /\ f4 \in Field /\ g4 = Append(g3, f4)
    BY <1>2, <1>4, <1>8
  <2>2. /\ g4 \in Seq(Field)
        /\ Len(WrittenUnits(g3)) \in Nat /\ Len(Encoded(f4)) \in Nat
        /\ Len(WrittenUnits(g4)) = Len(WrittenUnits(g3)) + Len(Encoded(f4))
    BY <2>1, UnitsGrow
  <2> QED
    BY <1>2, <1>8, <2>2
<1>10. g5 \in Seq(Field) /\ Len(WrittenUnits(g5)) >= 9
  <2>1. g4 \in Seq(Field) /\ f5 \in Field /\ g5 = Append(g4, f5)
    BY <1>2, <1>4, <1>9
  <2>2. /\ g5 \in Seq(Field)
        /\ Len(WrittenUnits(g4)) \in Nat /\ Len(Encoded(f5)) \in Nat
        /\ Len(WrittenUnits(g5)) = Len(WrittenUnits(g4)) + Len(Encoded(f5))
    BY <2>1, UnitsGrow
  <2> QED
    BY <1>2, <1>9, <2>2
<1>11. g6 \in Seq(Field) /\ Len(WrittenUnits(g6)) >= 11
  <2>1. g5 \in Seq(Field) /\ f6 \in Field /\ g6 = Append(g5, f6)
    BY <1>2, <1>4, <1>10
  <2>2. /\ g6 \in Seq(Field)
        /\ Len(WrittenUnits(g5)) \in Nat /\ Len(Encoded(f6)) \in Nat
        /\ Len(WrittenUnits(g6)) = Len(WrittenUnits(g5)) + Len(Encoded(f6))
    BY <2>1, UnitsGrow
  <2> QED
    BY <1>2, <1>10, <2>2
<1> QED
  BY <1>1, <1>3, <1>11 DEF Allocation

LEMMA AllocationsUnits ==
  ASSUME NEW plan, plan.allocations \in Seq(AllocationRecord), NEW n,
         n = Len(plan.allocations), NEW fields, fields = Joint(Allocated(plan))
  PROVE  fields \in Seq(Field) /\ Len(WrittenUnits(fields)) >= 11 * n
<1>1. PICK pieces : pieces = Allocated(plan)
  OBVIOUS
<1>2. PICK list : list = plan.allocations
  OBVIOUS
<1>3. pieces \in Seq(Seq(Field)) /\ Len(pieces) = n /\ fields \in Seq(Field)
  BY <1>1, AllocationPieces
<1>4. /\ n \in Nat /\ DOMAIN list = 1..n
      /\ \A k \in 1..n : list[k] \in AllocationRecord
  BY <1>2, LenProperties, ElementOfSeq
<1>5. \A k \in 1..n : pieces[k] \in Seq(Field) /\ Len(WrittenUnits(pieces[k])) >= 11
  <2>1. \A k \in 1..n : pieces[k] = Allocation(list[k])
    BY <1>1, <1>2, <1>4 DEF Allocated
  <2> QED
    BY <1>4, <2>1, AllocationUnits
<1> DEFINE U(k) == Len(WrittenUnits(JointUpTo(pieces)[k]))
           G == {k \in 0..n : U(k) >= 11 * k}
<1>6. 0 \in G
  <2>1. JointUpTo(pieces)[0] = <<>>
    BY <1>3, JointStarts
  <2>2. U(0) = 0
    BY <2>1, WrittenNone, EmptySeq
  <2>3. 0 \in 0..n
    BY <1>4
  <2> HIDE DEF U
  <2> QED
    BY <2>2, <2>3
<1>7. ASSUME NEW k \in 1..n, k - 1 \in G
      PROVE  k \in G
  <2>1. PICK before, piece : before = JointUpTo(pieces)[k - 1] /\ piece = pieces[k]
    OBVIOUS
  <2>2. before \in Seq(Field) /\ piece \in Seq(Field) /\ Len(WrittenUnits(piece)) >= 11
    <3>1. k - 1 \in 0..Len(pieces)
      BY <1>3, <1>4
    <3> QED
      BY <1>3, <1>5, <2>1, <3>1, JointUpToIsList
  <2>3. JointUpTo(pieces)[k] = before \o piece
    BY <1>3, <2>1, JointGoesOn
  <2>4. WrittenUnits(before \o piece) = WrittenUnits(before) \o WrittenUnits(piece)
    BY <2>2, WrittenConcat
  <2>5. WrittenUnits(before) \in Seq(Units) /\ WrittenUnits(piece) \in Seq(Units)
    BY <2>2, WrittenIsUnits
  <2>6. Len(WrittenUnits(before) \o WrittenUnits(piece))
          = Len(WrittenUnits(before)) + Len(WrittenUnits(piece))
    BY <2>5, ConcatLengths
  <2>7. Len(WrittenUnits(before)) >= 11 * (k - 1)
    BY <1>7, <2>1
  <2>8. Len(WrittenUnits(before)) \in Nat /\ Len(WrittenUnits(piece)) \in Nat
    BY <2>5, LenProperties
  <2>9. U(k) = Len(WrittenUnits(before)) + Len(WrittenUnits(piece))
    BY <2>3, <2>4, <2>6
  <2>10. 11 * (k - 1) + 11 = 11 * k /\ k \in 0..n
    BY <1>4
  <2> HIDE DEF U
  <2> QED
    BY <2>2, <2>7, <2>8, <2>9, <2>10
<1>8. n \in G
  <2> HIDE DEF G
  <2>1. Inductive(G, n)
    BY <1>6, <1>7 DEF Inductive
  <2>2. 0..n \subseteq G
    BY <1>4, <2>1, NumberInduction
  <2> QED
    BY <1>4, <2>2
<1>9. fields = JointUpTo(pieces)[n]
  BY <1>1, <1>3, JointStarts
<1> QED
  BY <1>3, <1>8, <1>9

LEMMA SamePlan ==
  ASSUME NEW p \in PlanRecord, NEW q \in PlanRecord, p.size = q.size,
         p.alignment = q.alignment, p.allocations = q.allocations
  PROVE  p = q
BY DEF PlanRecord

LEMMA NextAllocation ==
  ASSUME NEW order, Reading(order), NEW k \in 1..Len(compiled.plan.allocations),
         NEW next, next = k + 1, NEW fields,
         fields = Allocation(compiled.plan.allocations[k])
  PROVE  /\ FromAllocation(order, k) = fields \o FromAllocation(order, next)
         /\ FromAllocation(order, next) \in Seq(Field) /\ fields \in Seq(Readable)
         /\ k = Len(compiled.plan.allocations) =>
              FromAllocation(order, next) = FromNumeric(order)
<1>1. PICK E, t, g : /\ E = Allocated(compiled.plan) /\ t = FromNumeric(order)
                     /\ g = From(E, next)
  OBVIOUS
<1>2. /\ E \in Seq(Seq(Readable)) /\ Len(E) = Len(compiled.plan.allocations)
      /\ E[k] = fields /\ Len(E) \in Nat
  BY <1>1, ReadingFacts, ReadablePieces
<1>3. t \in Seq(Readable)
  BY <1>1, ReadingFacts, LeftFields
<1>4. next \in 1..(Len(E) + 1) /\ k \in 1..Len(E)
  BY <1>2
<1>5. g \in Seq(Readable)
  BY <1>1, <1>2, <1>4, FromIsList
<1>6. fields \in Seq(Readable)
  <2>1. \A i \in 1..Len(E) : E[i] \in Seq(Readable)
    BY <1>2, ElementOfSeq
  <2> QED
    BY <1>2, <1>4, <2>1
<1>7. From(E, k) = fields \o g
  BY <1>1, <1>2, <1>4, FromNext
<1>8. (fields \o g) \o t = fields \o (g \o t) /\ g \o t \in Seq(Readable)
  <2>1. PICK S : S = Readable
    OBVIOUS
  <2>2. fields \in Seq(S) /\ g \in Seq(S) /\ t \in Seq(S)
    BY <1>3, <1>5, <1>6, <2>1
  <2>3. (fields \o g) \o t = fields \o (g \o t)
    <3>1. Regroups(fields, g, t)
      BY <2>2, Regrouped
    <3> QED
      BY <3>1 DEF Regroups
  <2>4. g \o t \in Seq(S)
    BY <2>2, ConcatLengths
  <2> QED
    BY <2>1, <2>3, <2>4
<1>9. g \o t \in Seq(Field)
  BY <1>8, ReadableLists
<1>10. k = Len(compiled.plan.allocations) => g \o t = t
  <2>1. ASSUME k = Len(compiled.plan.allocations)
        PROVE  g \o t = t
    <3>1. g = <<>>
      BY <1>1, <1>2, <2>1, FromNone
    <3> QED
      BY <1>3, <3>1, ConcatEmptySeq
  <2> QED
    BY <2>1
<1>11. FromAllocation(order, k) = From(E, k) \o t /\ FromAllocation(order, next) = g \o t
  BY <1>1 DEF FromAllocation
<1> QED
  BY <1>1, <1>6, <1>7, <1>8, <1>9, <1>10, <1>11

(* What is left of the units is enough for the allocations.                *)
LEMMA RoomForAllocations ==
  ASSUME NEW order, Reading(order), NEW n, n = Len(compiled.plan.allocations),
         NEW from \in Nat, Remains(file.payload, from, FromAllocation(order, 1))
  PROVE  /\ n <= (Len(file.payload) - from) \div (1 + 5 * 2)
         /\ n = 0 => FromAllocation(order, 1) = FromNumeric(order)
<1>1. PICK E, t, g : /\ E = Allocated(compiled.plan) /\ t = FromNumeric(order)
                     /\ g = Joint(E)
  OBVIOUS
<1>2. compiled.plan.allocations \in Seq(AllocationRecord) /\ n \in Nat
  <2>1. compiled.plan \in PlanRecord
    BY ReadingFacts, ArtifactParts
  <2> QED
    BY <2>1, LenProperties DEF PlanRecord, Lists
<1>3. E \in Seq(Seq(Readable)) /\ Len(E) = n
  BY <1>1, ReadingFacts, ReadablePieces
<1>4. FromAllocation(order, 1) = g \o t
  BY <1>1, <1>3, FromAll DEF FromAllocation
<1>5. t \in Seq(Field)
  BY <1>1, ReadingFacts, LeftFields, ReadableLists
<1>6. g \in Seq(Field) /\ Len(WrittenUnits(g)) >= 11 * n
  <2>1. PICK plan : plan = compiled.plan
    OBVIOUS
  <2>2. plan.allocations \in Seq(AllocationRecord) /\ n = Len(plan.allocations)
        /\ g = Joint(Allocated(plan))
    BY <1>1, <1>2, <2>1
  <2> QED
    BY <2>2, AllocationsUnits
<1>7. PICK l, m, units : /\ l = Len(WrittenUnits(g)) /\ m = Len(units)
                         /\ units = file.payload
  OBVIOUS
<1>8. l \in Nat /\ from + l \in 0..m /\ m \in Nat
  <2>1. units \in Seq(Units) /\ Remains(units, from, g \o t)
    BY <1>4, <1>7, ReadingFacts
  <2>2. Len(WrittenUnits(g)) \in Nat /\ from + Len(WrittenUnits(g)) \in 0..Len(units)
    BY <1>5, <1>6, <2>1, RemainsSplit
  <2> QED
    BY <1>7, <2>1, <2>2, LenProperties
<1>9. 11 * n <= m - from
  BY <1>2, <1>6, <1>7, <1>8
<1>10. n <= (m - from) \div 11
  BY <1>2, <1>8, <1>9
<1>11. n = 0 => g \o t = t
  <2>1. ASSUME n = 0
        PROVE  g \o t = t
    <3>1. compiled.plan.allocations = <<>>
      BY <1>2, <2>1, EmptySeq
    <3>2. g = <<>>
      BY <1>1, <3>1, NoAllocations
    <3> QED
      BY <1>5, <3>2, ConcatEmptySeq
  <2> QED
    BY <2>1
<1>12. 1 + 5 * 2 = 11
  OBVIOUS
<1> QED
  BY <1>1, <1>4, <1>7, <1>10, <1>11, <1>12

LEMMA PlanReads ==
  ASSUME NEW order, Reading(order), ReadPlan, ReadInv'
  PROVE  Follows(order)'
<1>1. PICK kinds : kinds = <<"u64", "u64", "u32">>
  OBVIOUS
<1>2. PICK read, v : read = ReadAll(file.payload, at, kinds) /\ v = read.value
  OBVIOUS
<1>3. PICK plan, n, G, F : /\ plan = compiled.plan /\ n = Len(plan.allocations)
                           /\ G = FromAllocation(order, 1) /\ F = PlanHead(plan, n)
  OBVIOUS
<1>4. /\ phase = "plan" /\ seen = <<>> /\ HeaderAlike /\ OverridesAlike /\ AdapterAlike
      /\ restored.arguments = compiled.arguments /\ restored.plan.allocations = <<>>
      /\ Remains(file.payload, at, F \o G)
  <2>1. phase = "plan"
    BY DEF ReadPlan
  <2>2. seen = <<>> /\ restored.plan.allocations = <<>>
    BY <2>1, ReadingFacts DEF PlaceInv, Before
  <2>3. /\ HeaderAlike /\ OverridesAlike /\ AdapterAlike
        /\ restored.arguments = compiled.arguments
    BY <2>1, ReadingFacts DEF Alike, Planning
  <2>4. FieldsToRead(order) = F \o G
    BY <1>3, <2>1 DEF FieldsToRead, FromPlan
  <2> QED
    BY <2>1, <2>2, <2>3, <2>4, ReadingFacts
<1>5. plan \in PlanRecord /\ plan.allocations \in Seq(AllocationRecord) /\ n \in Nat
  <2>1. plan \in PlanRecord
    BY <1>3, ReadingFacts, ArtifactParts
  <2> QED
    BY <1>3, <2>1, LenProperties DEF PlanRecord, Lists
<1>6. F \in Seq(Readable) /\ G \in Seq(Field) /\ KindsOf(F) = kinds
  <2>1. F \in Seq(Readable)
    BY <1>3, ReadingFacts, ReadableParts
  <2>2. G \in Seq(Field)
    <3>1. 1 \in 1..(Len(compiled.plan.allocations) + 1)
      BY <1>3, <1>5
    <3>2. G \in Seq(Readable)
      BY <1>3, <3>1, ReadingFacts, LeftFields
    <3> QED
      BY <3>2, ReadableLists
  <2>3. KindsOf(F) = kinds
    BY <1>1, <1>3 DEF KindsOf, PlanHead, U32, U64
  <2> QED
    BY <2>1, <2>2, <2>3
<1>7. /\ read.ok /\ Valued(v, F) /\ Remains(file.payload, read.at, G)
      /\ read.at \in Nat
  <2>1. PICK units, from : units = file.payload /\ from = at
    OBVIOUS
  <2>2. /\ units \in Seq(Units) /\ from \in Nat /\ read = ReadAll(units, from, kinds)
        /\ Remains(units, from, F \o G)
    BY <1>2, <1>4, <2>1, ReadingFacts
  <2>3. /\ read.ok /\ Valued(read.value, F) /\ Remains(units, read.at, G)
        /\ read.at \in 0..Len(units)
    BY <1>6, <2>2, FieldsComplete
  <2>4. read.at \in Nat
    BY <2>2, <2>3, LenProperties
  <2> QED
    BY <1>2, <2>1, <2>3, <2>4
<1>8. v[1] = plan.size /\ v[2] = plan.alignment /\ v[3] = n
  <2>1. Len(F) = 3 /\ F[1][2] = plan.size /\ F[2][2] = plan.alignment /\ F[3][2] = n
    BY <1>3 DEF PlanHead, U32, U64
  <2> QED
    BY <1>7, <2>1 DEF Valued
<1>9. /\ n <= (Len(file.payload) - read.at) \div (1 + 5 * 2)
      /\ n = 0 => G = FromNumeric(order)
  <2>1. PICK from : from = read.at
    OBVIOUS
  <2>2. from \in Nat /\ Remains(file.payload, from, FromAllocation(order, 1))
    BY <1>3, <1>7, <2>1
  <2>3. n = Len(compiled.plan.allocations)
    BY <1>3
  <2>4. /\ n <= (Len(file.payload) - from) \div (1 + 5 * 2)
        /\ n = 0 => FromAllocation(order, 1) = FromNumeric(order)
    BY <2>2, <2>3, RoomForAllocations
  <2> QED
    BY <1>3, <2>1, <2>4
<1>10. /\ at' = read.at /\ file' = file /\ compiled' = compiled /\ seen' = seen
       /\ restored' = WithPlan(restored, v[1], v[2])
       /\ phase' = (IF n = 0 THEN "numeric" ELSE "allocation") /\ left' = n
  <2>1. /\ Took(read) /\ UNCHANGED seen
        /\ restored' = WithPlan(restored, v[1], v[2])
        /\ IF n = 0 THEN Goto("numeric", 0) ELSE Goto("allocation", n)
    BY <1>1, <1>2, <1>7, <1>8, <1>9 DEF ReadPlan, WithPlan
  <2> QED
    BY <2>1 DEF Took, Goto
<1>11. /\ restored'.plan.size = plan.size /\ restored'.plan.alignment = plan.alignment
       /\ restored'.plan.allocations = <<>> /\ restored'.plan \in PlanRecord
       /\ restored'.version = restored.version /\ restored'.triple = restored.triple
       /\ restored'.function = restored.function /\ restored'.dynamic = restored.dynamic
       /\ restored'.override = restored.override /\ restored'.policy = restored.policy
       /\ restored'.roles = restored.roles /\ restored'.axes = restored.axes
       /\ restored'.arguments = restored.arguments
       /\ restored'.adapter = restored.adapter /\ restored'.conv = restored.conv
  <2>1. v[1] \in Unsigned /\ v[2] \in Unsigned
    BY <1>5, <1>8 DEF PlanRecord
  <2>2. PICK c : c = restored
    OBVIOUS
  <2>3. c \in Readout /\ restored' = WithPlan(c, v[1], v[2]) /\ c.plan.allocations = <<>>
    BY <1>4, <1>10, <2>2, ReadingFacts
  <2>4. /\ restored' \in Readout /\ restored'.plan.size = v[1]
        /\ restored'.plan.alignment = v[2]
        /\ restored'.plan.allocations = c.plan.allocations
    BY <2>1, <2>3, PlanReplaced
  <2>5. restored'.plan \in PlanRecord
    BY <2>4, ReadoutParts
  <2>6. /\ restored'.version = c.version /\ restored'.triple = c.triple
        /\ restored'.function = c.function /\ restored'.dynamic = c.dynamic
        /\ restored'.override = c.override /\ restored'.policy = c.policy
        /\ restored'.roles = c.roles /\ restored'.axes = c.axes
        /\ restored'.arguments = c.arguments
        /\ restored'.adapter = c.adapter /\ restored'.conv = c.conv
    BY <2>3 DEF WithPlan, Readout
  <2> QED
    BY <1>8, <2>2, <2>3, <2>4, <2>5, <2>6
<1>12. HeaderAlike' /\ OverridesAlike' /\ AdapterAlike'
       /\ (restored.arguments = compiled.arguments)'
  BY <1>4, <1>10, <1>11 DEF HeaderAlike, OverridesAlike, AdapterAlike
<1>13. Alike' /\ FieldsToRead(order)' = G
  <2>1. CASE n = 0
    <3>1. plan.allocations = <<>>
      BY <1>3, <1>5, <2>1, EmptySeq
    <3>2. restored'.plan = plan
      BY <1>5, <1>11, <3>1, SamePlan
    <3>3. (restored.plan = compiled.plan)'
      BY <1>3, <1>10, <3>2
    <3>4. Alike'
      BY <1>10, <1>12, <2>1, <3>3 DEF Alike, Planning, Ending
    <3>5. FieldsToRead(order)' = FromNumeric(order)
      BY <1>10, <2>1 DEF FieldsToRead, FromNumeric, FromVariant
    <3> QED
      BY <1>9, <2>1, <3>4, <3>5
  <2>2. CASE n # 0
    <3>1. (Len(compiled.plan.allocations) - left)' = 0
          /\ (Len(compiled.plan.allocations) - left + 1)' = 1
          /\ left' <= Len(compiled.plan.allocations)'
      BY <1>3, <1>5, <1>10
    <3>2. SubSeq(plan.allocations, 1, 0) = <<>>
      BY SubSeqEmpty
    <3>3. PlanAlike(Len(compiled.plan.allocations) - left)'
      BY <1>3, <1>10, <1>11, <3>1, <3>2 DEF PlanAlike
    <3>4. Alike'
      BY <1>10, <1>12, <2>2, <3>3 DEF Alike, Planning, Ending
    <3>5. FieldsToRead(order)' = FromAllocation(order, Len(compiled.plan.allocations) - left + 1)'
      BY <1>10, <2>2 DEF FieldsToRead
    <3>6. FromAllocation(order, Len(compiled.plan.allocations) - left + 1)'
            = FromAllocation(order, 1)
      BY <1>10, <3>1 DEF FromAllocation, FromNumeric, FromVariant
    <3> QED
      BY <1>3, <3>4, <3>5, <3>6
  <2> QED
    BY <2>1, <2>2
<1>14. seen' = SubSeq(order, 1, Len(seen))' /\ phase' # "refused"
  BY <1>10 DEF Reading, Follows
<1> QED
  BY <1>7, <1>10, <1>13, <1>14 DEF Follows

LEMMA AllocationReads ==
  ASSUME NEW order, Reading(order), ReadAllocation, ReadInv'
  PROVE  Follows(order)'
<1>1. PICK kinds : kinds = <<"string", "u64", "u64", "u64", "u64", "u64">>
  OBVIOUS
<1>2. PICK list, n, k, next : /\ list = compiled.plan.allocations /\ n = Len(list)
                              /\ k = n - left + 1 /\ next = k + 1
  OBVIOUS
<1>3. PICK a : a = list[k]
  OBVIOUS
<1>4. PICK fields, G : fields = Allocation(a) /\ G = FromAllocation(order, next)
  OBVIOUS
<1>5. PICK read, v : read = ReadAll(file.payload, at, kinds) /\ v = read.value
  OBVIOUS
<1>6. /\ phase = "allocation" /\ seen = <<>> /\ HeaderAlike /\ OverridesAlike /\ AdapterAlike
      /\ restored.arguments = compiled.arguments
      /\ left \in Nat /\ left > 0 /\ left <= n
      /\ restored.plan.size = compiled.plan.size
      /\ restored.plan.alignment = compiled.plan.alignment
      /\ restored.plan.allocations = SubSeq(list, 1, n - left)
  <2>1. phase = "allocation"
    BY DEF ReadAllocation
  <2>2. seen = <<>> /\ left \in Nat /\ left > 0
    BY <2>1, ReadingFacts DEF PlaceInv, Before
  <2>3. /\ HeaderAlike /\ OverridesAlike /\ AdapterAlike
        /\ restored.arguments = compiled.arguments /\ PlanAlike(n - left)
    BY <1>2, <2>1, ReadingFacts DEF Alike, Planning
  <2> QED
    BY <1>2, <2>1, <2>2, <2>3 DEF PlanAlike
<1>7. compiled.plan \in PlanRecord /\ list \in Seq(AllocationRecord) /\ n \in Nat
      /\ n \in Units
  <2>1. compiled.plan \in PlanRecord
    BY ReadingFacts, ArtifactParts
  <2> QED
    BY <1>2, <2>1, LenProperties DEF PlanRecord, Lists
<1>8. k \in 1..n /\ k - 1 = n - left /\ (left = 1 => k = n)
  BY <1>2, <1>6, <1>7
<1>9. a \in AllocationRecord
  BY <1>2, <1>3, <1>7, <1>8, ElementOfSeq
<1>10. /\ FromAllocation(order, k) = fields \o G /\ G \in Seq(Field)
       /\ fields \in Seq(Readable) /\ (left = 1 => G = FromNumeric(order))
  <2>1. /\ k \in 1..Len(compiled.plan.allocations)
        /\ (left = 1 => k = Len(compiled.plan.allocations))
    BY <1>2, <1>8
  <2>2. next = k + 1 /\ fields = Allocation(compiled.plan.allocations[k])
    BY <1>2, <1>3, <1>4
  <2>3. /\ FromAllocation(order, k) = fields \o FromAllocation(order, next)
        /\ FromAllocation(order, next) \in Seq(Field) /\ fields \in Seq(Readable)
        /\ k = Len(compiled.plan.allocations) =>
             FromAllocation(order, next) = FromNumeric(order)
    BY <2>1, <2>2, NextAllocation
  <2> QED
    BY <1>4, <2>1, <2>3
<1>11. KindsOf(fields) = kinds
  BY <1>1, <1>4 DEF KindsOf, Allocation, U64, String
<1>12. /\ read.ok /\ Valued(v, fields) /\ Remains(file.payload, read.at, G)
  <2>1. PICK units, from : units = file.payload /\ from = at
    OBVIOUS
  <2>2. FieldsToRead(order) = FromAllocation(order, k)
    BY <1>2, <1>6 DEF FieldsToRead
  <2>3. /\ units \in Seq(Units) /\ from \in Nat /\ read = ReadAll(units, from, kinds)
        /\ Remains(units, from, fields \o G)
    BY <1>5, <1>10, <2>1, <2>2, ReadingFacts
  <2>4. /\ read.ok /\ Valued(read.value, fields) /\ Remains(units, read.at, G)
    BY <1>10, <1>11, <2>3, FieldsComplete
  <2> QED
    BY <1>5, <2>1, <2>4
<1>13. a = [name |-> v[1], offset |-> v[2], size |-> v[3], alignment |-> v[4],
            start |-> v[5], end |-> v[6]]
  <2>1. /\ Len(fields) = 6 /\ fields[1][2] = a.name /\ fields[2][2] = a.offset
        /\ fields[3][2] = a.size /\ fields[4][2] = a.alignment
        /\ fields[5][2] = a.start /\ fields[6][2] = a.end
    BY <1>4 DEF Allocation, U64, String
  <2>2. /\ v[1] = a.name /\ v[2] = a.offset /\ v[3] = a.size /\ v[4] = a.alignment
        /\ v[5] = a.start /\ v[6] = a.end
    BY <1>12, <2>1 DEF Valued
  <2> QED
    BY <1>9, <2>2 DEF AllocationRecord
<1>14. /\ at' = read.at /\ file' = file /\ compiled' = compiled /\ seen' = seen
       /\ restored' = WithAllocation(restored, a)
       /\ phase' = (IF left = 1 THEN "numeric" ELSE "allocation")
       /\ left' = (IF left = 1 THEN 0 ELSE left - 1)
  <2>1. /\ Took(read) /\ UNCHANGED seen
        /\ restored' = WithAllocation(restored, a)
        /\ IF left = 1 THEN Goto("numeric", 0) ELSE Goto("allocation", left - 1)
    BY <1>1, <1>5, <1>12, <1>13 DEF ReadAllocation, WithAllocation
  <2> QED
    BY <2>1 DEF Took, Goto
<1>15. /\ restored'.plan \in PlanRecord /\ restored'.plan.size = compiled.plan.size
       /\ restored'.plan.alignment = compiled.plan.alignment
       /\ restored'.plan.allocations = SubSeq(list, 1, k)
       /\ restored'.version = restored.version /\ restored'.triple = restored.triple
       /\ restored'.function = restored.function /\ restored'.dynamic = restored.dynamic
       /\ restored'.override = restored.override /\ restored'.policy = restored.policy
       /\ restored'.roles = restored.roles /\ restored'.axes = restored.axes
       /\ restored'.arguments = restored.arguments
       /\ restored'.adapter = restored.adapter /\ restored'.conv = restored.conv
  <2>1. PICK c, d, m : c = restored /\ d = restored' /\ m = n - left
    OBVIOUS
  <2>2. c \in Readout /\ d = WithAllocation(c, a)
    BY <1>14, <2>1, ReadingFacts
  <2>3. Len(c.plan.allocations) + 1 \in Units
    <3>1. m \in 0..n
      BY <1>6, <1>7, <2>1
    <3>2. PICK s : s = SubSeq(list, 1, m)
      OBVIOUS
    <3>3. m \in 0..Len(list)
      BY <1>2, <3>1
    <3>4. Len(s) = m
      BY <1>7, <3>2, <3>3, Prefix
    <3>5. c.plan.allocations = s
      BY <1>6, <2>1, <3>2
    <3>6. m + 1 \in Units
      BY <1>6, <1>7, <2>1, UnitsFacts DEF Units
    <3> QED
      BY <3>4, <3>5, <3>6
  <2>4. /\ d \in Readout /\ d.plan.allocations = Append(c.plan.allocations, a)
        /\ d.plan.size = c.plan.size /\ d.plan.alignment = c.plan.alignment
    BY <1>9, <2>2, <2>3, AllocationAdded
  <2>5. d.plan.allocations = SubSeq(list, 1, k)
    <3>1. k \in 1..Len(list) /\ m = k - 1 /\ a = list[k]
      BY <1>2, <1>3, <1>8, <2>1
    <3>2. Append(SubSeq(list, 1, m), a) = SubSeq(list, 1, k)
      BY <1>7, <3>1, PrefixGrows
    <3> QED
      BY <1>6, <2>1, <2>4, <3>2
  <2>6. /\ d.version = c.version /\ d.triple = c.triple
        /\ d.function = c.function /\ d.dynamic = c.dynamic
        /\ d.override = c.override /\ d.policy = c.policy
        /\ d.roles = c.roles /\ d.axes = c.axes
        /\ d.arguments = c.arguments
        /\ d.adapter = c.adapter /\ d.conv = c.conv
    BY <2>2 DEF WithAllocation, Readout
  <2>7. d.plan \in PlanRecord
    BY <2>4, ReadoutParts
  <2> QED
    BY <1>6, <2>1, <2>4, <2>5, <2>6, <2>7
<1>16. HeaderAlike' /\ OverridesAlike' /\ AdapterAlike'
       /\ (restored.arguments = compiled.arguments)'
  BY <1>6, <1>14, <1>15 DEF HeaderAlike, OverridesAlike, AdapterAlike
<1>17. Alike' /\ FieldsToRead(order)' = G
  <2>1. CASE left = 1
    <3>1. restored'.plan.allocations = compiled.plan.allocations
      <4>1. SubSeq(list, 1, Len(list)) = list
        BY <1>7, WholePrefix
      <4> QED
        BY <1>2, <1>8, <1>15, <2>1, <4>1
    <3>2. restored'.plan = compiled.plan
      BY <1>7, <1>15, <3>1, SamePlan
    <3>3. (restored.plan = compiled.plan)'
      BY <1>14, <3>2
    <3>4. Alike'
      BY <1>14, <1>16, <2>1, <3>3 DEF Alike, Planning, Ending
    <3>5. FieldsToRead(order)' = FromNumeric(order)
      BY <1>14, <2>1 DEF FieldsToRead, FromNumeric, FromVariant
    <3> QED
      BY <1>10, <2>1, <3>4, <3>5
  <2>2. CASE left # 1
    <3>1. /\ left' <= Len(compiled.plan.allocations)'
          /\ (Len(compiled.plan.allocations) - left)' = k
          /\ (Len(compiled.plan.allocations) - left + 1)' = next
      BY <1>2, <1>6, <1>7, <1>14, <2>2
    <3>2. PlanAlike(Len(compiled.plan.allocations) - left)'
      BY <1>2, <1>14, <1>15, <3>1 DEF PlanAlike
    <3>3. Alike'
      BY <1>14, <1>16, <2>2, <3>2 DEF Alike, Planning, Ending
    <3>4. FieldsToRead(order)'
            = FromAllocation(order, Len(compiled.plan.allocations) - left + 1)'
      BY <1>14, <2>2 DEF FieldsToRead
    <3>5. FromAllocation(order, Len(compiled.plan.allocations) - left + 1)'
            = FromAllocation(order, next)
      BY <1>14, <3>1 DEF FromAllocation, FromNumeric, FromVariant
    <3> QED
      BY <1>4, <3>3, <3>4, <3>5
  <2> QED
    BY <2>1, <2>2
<1>18. seen' = SubSeq(order, 1, Len(seen))' /\ phase' # "refused"
  BY <1>14 DEF Reading, Follows
<1> QED
  BY <1>12, <1>14, <1>17, <1>18 DEF Follows

LEMMA NumericReads ==
  ASSUME NEW order, Reading(order), ReadNumericContract, ReadInv'
  PROVE  Follows(order)'
<1>1. PICK kinds : kinds = <<"u64", "u64", "u32">>
  OBVIOUS
<1>2. PICK read, v : read = ReadAll(file.payload, at, kinds) /\ v = read.value
  OBVIOUS
<1>3. PICK F, G : F = NumericContract /\ G = FromVariant(order, 1)
  OBVIOUS
<1>4. /\ phase = "numeric" /\ seen = <<>> /\ HeaderAlike /\ OverridesAlike /\ AdapterAlike
      /\ restored.arguments = compiled.arguments /\ restored.plan = compiled.plan
      /\ Remains(file.payload, at, F \o G)
  <2>1. phase = "numeric"
    BY DEF ReadNumericContract
  <2>2. seen = <<>>
    BY <2>1, ReadingFacts DEF PlaceInv, Before
  <2>3. /\ HeaderAlike /\ OverridesAlike /\ AdapterAlike
        /\ restored.arguments = compiled.arguments /\ restored.plan = compiled.plan
    BY <2>1, ReadingFacts DEF Alike, Planning
  <2>4. FieldsToRead(order) = F \o G
    BY <1>3, <2>1 DEF FieldsToRead, FromNumeric
  <2> QED
    BY <2>1, <2>2, <2>3, <2>4, ReadingFacts
<1>5. F \in Seq(Readable) /\ G \in Seq(Field) /\ KindsOf(F) = kinds
  <2>1. F \in Seq(Readable)
    BY <1>3, ReadingFacts, ReadableParts
  <2>2. G \in Seq(Field)
    <3>1. 1 \in 1..4
      OBVIOUS
    <3>2. G \in Seq(Readable)
      BY <1>3, <3>1, ReadingFacts, LeftFields
    <3> QED
      BY <3>2, ReadableLists
  <2>3. KindsOf(F) = kinds
    BY <1>1, <1>3 DEF KindsOf, NumericContract, U32, U64
  <2> QED
    BY <2>1, <2>2, <2>3
<1>6. read.ok /\ Valued(v, F) /\ Remains(file.payload, read.at, G)
  <2>1. PICK units, from : units = file.payload /\ from = at
    OBVIOUS
  <2>2. /\ units \in Seq(Units) /\ from \in Nat /\ read = ReadAll(units, from, kinds)
        /\ Remains(units, from, F \o G)
    BY <1>2, <1>4, <2>1, ReadingFacts
  <2>3. read.ok /\ Valued(read.value, F) /\ Remains(units, read.at, G)
    BY <1>5, <2>2, FieldsComplete
  <2> QED
    BY <1>2, <2>1, <2>3
<1>7. v = Append(Tolerances, 3)
  <2>1. PICK contract : contract = <<1, 2, 3>>
    OBVIOUS
  <2>2. /\ contract \in Seq(Nat) /\ Len(contract) = 3
        /\ contract[1] = 1 /\ contract[2] = 2 /\ contract[3] = 3
        /\ contract = Append(Tolerances, 3)
    BY <2>1 DEF Tolerances
  <2>3. /\ Len(F) = 3 /\ F[1][2] = 1 /\ F[2][2] = 2 /\ F[3][2] = 3
    BY <1>3 DEF NumericContract, U32, U64, Tolerances
  <2>4. /\ Len(v) = 3 /\ v[1] = 1 /\ v[2] = 2 /\ v[3] = 3
    BY <1>6, <2>3 DEF Valued
  <2>5. v \in Seq(Values)
    <3>1. PICK units, from : units = file.payload /\ from = at
      OBVIOUS
    <3>2. /\ units \in Seq(Units) /\ from \in 0..Len(units) /\ kinds \in Seq(Kinds)
          /\ read = ReadAll(units, from, kinds) /\ read.ok
      BY <1>1, <1>2, <1>6, <3>1, ReadingFacts DEF Kinds
    <3> QED
      BY <1>2, <3>2, ReadTaken
  <2>6. \A k \in 1..3 : v[k] = contract[k]
    <3>1. \A k \in 1..3 : k = 1 \/ k = 2 \/ k = 3
      OBVIOUS
    <3> QED
      BY <2>2, <2>4, <3>1
  <2>7. v = contract
    <3>1. \A k \in 1..3 : v[k] \in Values
      BY <2>4, <2>5, ElementOfSeq
    <3>2. 1 \in 1..3 /\ 2 \in 1..3 /\ 3 \in 1..3
      OBVIOUS
    <3>3. 1 \in Values /\ 2 \in Values /\ 3 \in Values
      BY <2>4, <3>1, <3>2
    <3>4. contract \in Seq(Values)
      <4> HIDE DEF Values
      <4> QED
        BY <2>1, <3>3
    <3> QED
      BY <2>2, <2>4, <2>5, <2>6, <3>4, SeqEqual
  <2> QED
    BY <2>2, <2>7
<1>8. /\ at' = read.at /\ file' = file /\ compiled' = compiled /\ seen' = seen
      /\ restored' = restored /\ phase' = "variant" /\ left' = 3
  <2>1. Took(read) /\ Goto("variant", 3) /\ UNCHANGED <<seen, restored>>
    BY <1>1, <1>2, <1>6, <1>7 DEF ReadNumericContract
  <2> QED
    BY <2>1 DEF Took, Goto
<1>9. Len(seen) = 0 /\ Items(seen) = {}
  BY <1>4 DEF Items
<1>10. Alike'
  <2>1. HeaderAlike' /\ OverridesAlike' /\ AdapterAlike'
        /\ (restored.arguments = compiled.arguments)' /\ (restored.plan = compiled.plan)'
    BY <1>4, <1>8 DEF HeaderAlike, OverridesAlike, AdapterAlike
  <2>2. (\A w \in Items(seen) : restored.variants[w] = compiled.variants[w])'
    BY <1>8, <1>9
  <2> QED
    BY <1>8, <2>1, <2>2 DEF Alike, Planning, Ending
<1>11. FieldsToRead(order)' = G
  <2>1. FieldsToRead(order)' = FromVariant(order, Len(seen) + 1)'
    BY <1>8 DEF FieldsToRead
  <2>2. (Len(seen) + 1)' = 1
    BY <1>8, <1>9
  <2>3. FromVariant(order, Len(seen) + 1)' = FromVariant(order, 1)
    BY <1>8, <2>2 DEF FromVariant
  <2> QED
    BY <1>3, <2>1, <2>3
<1>12. seen' = SubSeq(order, 1, Len(seen))' /\ phase' # "refused"
  BY <1>8 DEF Reading, Follows
<1> QED
  BY <1>6, <1>8, <1>10, <1>11, <1>12 DEF Follows

LEMMA OrderFacts ==
  ASSUME NEW order \in Orderings
  PROVE  /\ order \in Seq(1..3) /\ Len(order) = 3
         /\ \A i, j \in 1..3 : order[i] = order[j] => i = j
<1>1. order \in [1..3 -> 1..3] /\ Items(order) = 1..3
  BY DEF Orderings
<1>2. order \in Seq(1..3) /\ Len(order) = 3
  BY <1>1, ShortArrays
<1>3. PICK x, y, z : x = order[1] /\ y = order[2] /\ z = order[3]
  OBVIOUS
<1>4. x \in 1..3 /\ y \in 1..3 /\ z \in 1..3
  BY <1>1, <1>3
<1>5. \A n \in 1..3 : n = x \/ n = y \/ n = z
  <2>1. \A n \in 1..3 : \E i \in 1..3 : order[i] = n
    <3>1. Len(order) = 3
      BY <1>2
    <3>2. PICK places : places = 1..3
      OBVIOUS
    <3>3. Items(order) = {order[i] : i \in places}
      BY <3>1, <3>2 DEF Items
    <3>4. \A n \in places : n \in {order[i] : i \in places}
      BY <1>1, <3>2, <3>3
    <3>5. \A n \in places : \E i \in places : order[i] = n
      BY <3>4
    <3> QED
      BY <3>2, <3>5
  <2>2. \A i \in 1..3 : i = 1 \/ i = 2 \/ i = 3
    OBVIOUS
  <2> QED
    BY <1>3, <2>1, <2>2
<1>6. x # y /\ y # z /\ x # z
  <2>1. (1 = x \/ 1 = y \/ 1 = z) /\ (2 = x \/ 2 = y \/ 2 = z) /\ (3 = x \/ 3 = y \/ 3 = z)
    BY <1>5
  <2> QED
    BY <2>1
<1>7. \A i, j \in 1..3 : order[i] = order[j] => i = j
  <2>1. \A i \in 1..3 : i = 1 \/ i = 2 \/ i = 3
    OBVIOUS
  <2> QED
    BY <1>3, <1>6, <2>1
<1> QED
  BY <1>2, <1>7

LEMMA NextVariant ==
  ASSUME NEW order, Reading(order), NEW k \in 1..3, NEW next, next = k + 1,
         NEW fields, fields = Variant(compiled, order[k])
  PROVE  /\ FromVariant(order, k) = fields \o FromVariant(order, next)
         /\ FromVariant(order, next) \in Seq(Field) /\ fields \in Seq(Readable)
         /\ k = 3 => FromVariant(order, next) = <<>>
<1>1. PICK E, g : E = VariantsOf(compiled, order) /\ g = From(E, next)
  OBVIOUS
<1>2. E \in Seq(Seq(Readable)) /\ Len(E) = 3 /\ E[k] = fields
  BY <1>1, ReadingFacts, ReadablePieces
<1>3. next \in 1..(Len(E) + 1) /\ k \in 1..Len(E)
  BY <1>2
<1>4. g \in Seq(Readable)
  BY <1>1, <1>2, <1>3, FromIsList
<1>5. fields \in Seq(Readable)
  <2>1. \A i \in 1..Len(E) : E[i] \in Seq(Readable)
    BY <1>2, ElementOfSeq
  <2> QED
    BY <1>2, <1>3, <2>1
<1>6. From(E, k) = fields \o g
  BY <1>1, <1>2, <1>3, FromNext
<1>7. g \in Seq(Field)
  BY <1>4, ReadableLists
<1>8. k = 3 => g = <<>>
  BY <1>1, <1>2, FromNone
<1>9. FromVariant(order, k) = From(E, k) /\ FromVariant(order, next) = g
  BY <1>1 DEF FromVariant
<1> QED
  BY <1>5, <1>6, <1>7, <1>8, <1>9

(* What the contract says of a variant.                                    *)
LEMMA VariantFacts ==
  ASSUME NEW c \in Artifact, ContractValid(c), NEW v \in 1..3, NEW r, r = c.variants[v]
  PROVE  r \in VariantRecord /\ r.symbol # <<>> /\ r.features # <<>> /\ r.object # <<>>
<1>1. r \in VariantRecord
  BY ArtifactParts
<1>2. /\ r.symbol = c.function \o Suffixes[v] /\ r.features = Features[v]
      /\ r.object # <<>>
  BY DEF ContractValid, VariantsValid
<1>3. v = 1 \/ v = 2 \/ v = 3
  OBVIOUS
<1>4. PICK suffix : suffix = Suffixes[v]
  OBVIOUS
<1>5. suffix \in Seq(Nat) /\ Len(suffix) = 1
  <2>1. suffix = <<v>>
    BY <1>3, <1>4 DEF Suffixes
  <2>2. v \in Nat
    OBVIOUS
  <2> QED
    BY <2>1, <2>2
<1>6. PICK function, symbol : function = c.function /\ symbol = r.symbol
  OBVIOUS
<1>7. function \in Seq(Nat) /\ Len(function) \in Nat
  <2>1. function \in Seq(Units) /\ Units \subseteq Nat
    BY <1>6, ArtifactParts, UnitsFacts DEF Texts, Units
  <2>2. \A i \in 1..Len(function) : function[i] \in Nat
    BY <2>1, ElementOfSeq
  <2>3. Len(function) \in Nat /\ DOMAIN function = 1..Len(function)
    BY <2>1, LenProperties
  <2>4. function = [i \in DOMAIN function |-> function[i]]
    BY <2>1
  <2>5. function \in [1..Len(function) -> Nat]
    BY <2>2, <2>3, <2>4
  <2> QED
    BY <2>3, <2>5, ListOfArray
<1>8. Len(function \o suffix) = Len(function) + Len(suffix)
  BY <1>5, <1>7, ConcatLengths
<1>9. symbol = function \o suffix
  BY <1>2, <1>4, <1>6
<1>10. symbol # <<>>
  <2>1. Len(symbol) = Len(function) + 1
    BY <1>5, <1>8, <1>9
  <2> QED
    BY <1>7, <2>1, EmptySeq
<1>11. r.features # <<>>
  BY <1>2, <1>3 DEF Features
<1> QED
  BY <1>1, <1>2, <1>6, <1>10, <1>11

LEMMA VariantReads ==
  ASSUME NEW order, Reading(order), ReadVariant, ReadInv'
  PROVE  Follows(order)'
<1>1. PICK kinds : kinds = <<"u32", "string", "string", "blob">>
  OBVIOUS
<1>2. PICK before, k, next, place :
        before = Len(seen) /\ k = before + 1 /\ next = k + 1 /\ place = order[k]
  OBVIOUS
<1>3. PICK r : r = compiled.variants[place]
  OBVIOUS
<1>4. PICK fields, G :
        fields = Variant(compiled, order[k]) /\ G = FromVariant(order, next)
  OBVIOUS
<1>5. PICK read, v : read = ReadAll(file.payload, at, kinds) /\ v = read.value
  OBVIOUS
<1>6. /\ phase = "variant" /\ HeaderAlike /\ OverridesAlike /\ AdapterAlike
      /\ restored.arguments = compiled.arguments /\ restored.plan = compiled.plan
      /\ \A w \in Items(seen) : restored.variants[w] = compiled.variants[w]
      /\ left \in Nat /\ left > 0 /\ Len(seen) + left = 3
      /\ seen = SubSeq(order, 1, before) /\ before \in Nat
  <2>1. phase = "variant"
    BY DEF ReadVariant
  <2>2. left \in Nat /\ left > 0 /\ Len(seen) + left = 3
    BY <2>1, ReadingFacts DEF PlaceInv
  <2>3. /\ HeaderAlike /\ OverridesAlike /\ AdapterAlike
        /\ restored.arguments = compiled.arguments /\ restored.plan = compiled.plan
        /\ \A w \in Items(seen) : restored.variants[w] = compiled.variants[w]
    BY <2>1, ReadingFacts DEF Alike, Planning, Ending
  <2>4. seen = SubSeq(order, 1, before)
    BY <1>2 DEF Reading, Follows
  <2>5. before \in Nat
    BY <1>2, ReadingFacts, LenProperties
  <2> QED
    BY <2>1, <2>2, <2>3, <2>4, <2>5
<1>7. k \in 1..3 /\ before = k - 1 /\ (left = 1 => k = 3) /\ before + left = 3
  BY <1>2, <1>6
<1>8. /\ order \in Seq(1..3) /\ Len(order) = 3
      /\ \A i, j \in 1..3 : order[i] = order[j] => i = j
  <2>1. order \in Orderings
    BY DEF Reading
  <2> QED
    BY <2>1, OrderFacts
<1>9. place \in 1..3 /\ place \notin Items(seen)
  <2>1. place \in 1..3
    BY <1>2, <1>7, ReadingFacts
  <2>2. PICK s : s = SubSeq(order, 1, before)
    OBVIOUS
  <2>3. before \in 0..Len(order)
    BY <1>7, <1>8
  <2>4. Len(s) = before /\ \A i \in 1..before : s[i] = order[i]
    BY <1>8, <2>2, <2>3, Prefix
  <2>5. \A i \in 1..before : i \in 1..3 /\ i # k
    BY <1>7
  <2>6. \A i \in 1..before : s[i] # place
    BY <1>2, <1>7, <1>8, <2>4, <2>5
  <2>7. seen = s
    BY <1>6, <2>2
  <2> QED
    BY <2>1, <2>4, <2>6, <2>7 DEF Items
<1>10. r \in VariantRecord /\ r.symbol # <<>> /\ r.features # <<>> /\ r.object # <<>>
  <2>1. PICK c : c = compiled
    OBVIOUS
  <2>2. c \in Artifact /\ ContractValid(c) /\ r = c.variants[place]
    BY <1>3, <2>1, ReadingFacts
  <2> QED
    BY <1>9, <2>2, VariantFacts
<1>11. /\ FromVariant(order, k) = fields \o G /\ G \in Seq(Field)
       /\ fields \in Seq(Readable) /\ (left = 1 => G = <<>>)
  <2>1. /\ FromVariant(order, k) = fields \o FromVariant(order, next)
        /\ FromVariant(order, next) \in Seq(Field) /\ fields \in Seq(Readable)
        /\ k = 3 => FromVariant(order, next) = <<>>
    BY <1>2, <1>4, <1>7, NextVariant
  <2> QED
    BY <1>4, <1>7, <2>1
<1>12. fields = <<U32(place - 1), String(r.symbol), String(r.features), Blob(r.object)>>
  BY <1>2, <1>3, <1>4 DEF Variant
<1>13. KindsOf(fields) = kinds
  BY <1>1, <1>12 DEF KindsOf, U32, String, Blob
<1>14. /\ read.ok /\ Valued(v, fields) /\ Remains(file.payload, read.at, G)
  <2>1. PICK units, from : units = file.payload /\ from = at
    OBVIOUS
  <2>2. FieldsToRead(order) = FromVariant(order, k)
    BY <1>2, <1>6 DEF FieldsToRead
  <2>3. /\ units \in Seq(Units) /\ from \in Nat /\ read = ReadAll(units, from, kinds)
        /\ Remains(units, from, fields \o G)
    BY <1>5, <1>11, <2>1, <2>2, ReadingFacts
  <2>4. /\ read.ok /\ Valued(read.value, fields) /\ Remains(units, read.at, G)
    BY <1>11, <1>13, <2>3, FieldsComplete
  <2> QED
    BY <1>5, <2>1, <2>4
<1>15. /\ v[1] = place - 1 /\ v[2] = r.symbol /\ v[3] = r.features /\ v[4] = r.object
  <2>1. /\ Len(fields) = 4 /\ fields[1][2] = place - 1 /\ fields[2][2] = r.symbol
        /\ fields[3][2] = r.features /\ fields[4][2] = r.object
    BY <1>12 DEF U32, String, Blob
  <2> QED
    BY <1>14, <2>1 DEF Valued
<1>16. v[1] < 3 /\ v[1] + 1 = place
  BY <1>9, <1>15
<1>17. r = [symbol |-> v[2], features |-> v[3], object |-> v[4]]
  BY <1>10, <1>15 DEF VariantRecord
<1>18. /\ at' = read.at /\ file' = file /\ compiled' = compiled
       /\ seen' = Append(seen, place) /\ restored' = WithVariant(restored, place, r)
       /\ phase' = (IF left = 1 THEN "contract" ELSE "variant")
       /\ left' = (IF left = 1 THEN 0 ELSE left - 1)
  <2>1. /\ v[1] < 3 /\ v[1] + 1 \notin Items(seen)
        /\ v[2] # <<>> /\ v[3] # <<>> /\ v[4] # <<>>
    BY <1>9, <1>10, <1>15, <1>16
  <2>2. /\ Took(read) /\ seen' = Append(seen, v[1] + 1)
        /\ restored' = WithVariant(restored, v[1] + 1, r)
        /\ IF left = 1 THEN Goto("contract", 0) ELSE Goto("variant", left - 1)
    BY <1>1, <1>5, <1>14, <1>17, <2>1 DEF ReadVariant, WithVariant
  <2> QED
    BY <1>16, <2>2 DEF Took, Goto
<1>19. /\ restored'.variants[place] = r
       /\ \A w \in 1..3 : w # place => restored'.variants[w] = restored.variants[w]
       /\ restored'.plan = restored.plan
       /\ restored'.version = restored.version /\ restored'.triple = restored.triple
       /\ restored'.function = restored.function /\ restored'.dynamic = restored.dynamic
       /\ restored'.override = restored.override /\ restored'.policy = restored.policy
       /\ restored'.roles = restored.roles /\ restored'.axes = restored.axes
       /\ restored'.arguments = restored.arguments
       /\ restored'.adapter = restored.adapter /\ restored'.conv = restored.conv
  <2>1. PICK c, d : c = restored /\ d = restored'
    OBVIOUS
  <2>2. c \in Readout /\ d = WithVariant(c, place, r)
    BY <1>18, <2>1, ReadingFacts
  <2>3. d.variants = [c.variants EXCEPT ![place] = r] /\ d.plan = c.plan
    BY <1>9, <1>10, <2>2, VariantReplaced
  <2>4. c.variants \in [1..3 -> VariantRecord]
    BY <2>2, ReadoutParts
  <2>5. /\ d.variants[place] = r
        /\ \A w \in 1..3 : w # place => d.variants[w] = c.variants[w]
    BY <1>9, <2>3, <2>4
  <2>6. /\ d.version = c.version /\ d.triple = c.triple
        /\ d.function = c.function /\ d.dynamic = c.dynamic
        /\ d.override = c.override /\ d.policy = c.policy
        /\ d.roles = c.roles /\ d.axes = c.axes
        /\ d.arguments = c.arguments
        /\ d.adapter = c.adapter /\ d.conv = c.conv
    BY <2>2 DEF WithVariant, Readout
  <2> QED
    BY <2>1, <2>3, <2>5, <2>6
<1>20. seen' = SubSeq(order, 1, k) /\ Len(seen') = k
  <2>1. Append(SubSeq(order, 1, before), place) = SubSeq(order, 1, k)
    <3>1. k \in 1..Len(order)
      BY <1>7, <1>8
    <3> QED
      BY <1>2, <1>7, <1>8, <3>1, PrefixGrows
  <2>2. seen' = SubSeq(order, 1, k)
    BY <1>6, <1>18, <2>1
  <2>3. k \in 0..Len(order)
    BY <1>7, <1>8
  <2>4. PICK s : s = SubSeq(order, 1, k)
    OBVIOUS
  <2>5. Len(s) = k
    BY <1>8, <2>3, <2>4, Prefix
  <2> QED
    BY <2>2, <2>4, <2>5
<1>21. \A w \in Items(seen') : restored'.variants[w] = compiled'.variants[w]
  <2>1. \A w \in Items(seen') : w = place \/ (w \in Items(seen) /\ w \in 1..3)
    <3>1. \A i \in 1..Len(seen) : seen[i] \in 1..3
      BY ReadingFacts, ElementOfSeq
    <3>2. PICK s : s = Append(seen, place)
      OBVIOUS
    <3>3. /\ Len(s) = before + 1 /\ s[before + 1] = place
          /\ \A i \in 1..before : s[i] = seen[i]
      BY <1>2, <1>9, <3>2, ReadingFacts, AppendProperties
    <3>4. \A i \in 1..Len(s) : i = before + 1 \/ i \in 1..before
      BY <1>6, <3>3
    <3>5. \A i \in 1..Len(s) : s[i] = place \/ (s[i] \in Items(seen) /\ s[i] \in 1..3)
      <4>1. \A i \in 1..before : seen[i] \in Items(seen) /\ seen[i] \in 1..3
        BY <1>2, <3>1 DEF Items
      <4> SUFFICES ASSUME NEW i \in 1..Len(s)
                   PROVE  s[i] = place \/ (s[i] \in Items(seen) /\ s[i] \in 1..3)
        OBVIOUS
      <4>2. CASE i = before + 1
        BY <3>3, <4>2
      <4>3. CASE i \in 1..before
        <5>1. s[i] = seen[i]
          BY <3>3, <4>3
        <5>2. seen[i] \in Items(seen) /\ seen[i] \in 1..3
          BY <4>1, <4>3
        <5> QED
          BY <5>1, <5>2
      <4> QED
        BY <3>4, <4>2, <4>3
    <3> QED
      BY <1>18, <3>2, <3>5 DEF Items
  <2>2. \A w \in Items(seen) : w # place
    BY <1>9
  <2> QED
    BY <1>3, <1>6, <1>18, <1>19, <2>1, <2>2
<1>22. HeaderAlike' /\ OverridesAlike' /\ AdapterAlike'
       /\ (restored.arguments = compiled.arguments)' /\ (restored.plan = compiled.plan)'
  BY <1>6, <1>18, <1>19 DEF HeaderAlike, OverridesAlike, AdapterAlike
<1>23. Alike'
  BY <1>7, <1>18, <1>20, <1>21, <1>22 DEF Alike, Planning, Ending
<1>24. FieldsToRead(order)' = G
  <2>1. CASE left = 1
    BY <1>11, <1>18, <2>1 DEF FieldsToRead
  <2>2. CASE left # 1
    <3>1. FieldsToRead(order)' = FromVariant(order, Len(seen) + 1)'
      BY <1>18, <2>2 DEF FieldsToRead
    <3>2. (Len(seen) + 1)' = next
      BY <1>2, <1>20
    <3>3. FromVariant(order, Len(seen) + 1)' = FromVariant(order, next)
      BY <1>18, <3>2 DEF FromVariant
    <3> QED
      BY <1>4, <3>1, <3>3
  <2> QED
    BY <2>1, <2>2
<1>25. seen' = SubSeq(order, 1, Len(seen))' /\ phase' # "refused"
  BY <1>18, <1>20
<1> QED
  BY <1>14, <1>18, <1>23, <1>24, <1>25 DEF Follows

LEMMA SameArtifact ==
  ASSUME NEW c \in Readout, NEW d \in Artifact,
         c.version = d.version, c.triple = d.triple, c.function = d.function,
         c.dynamic = d.dynamic, c.override = d.override, c.policy = d.policy,
         c.roles = d.roles, c.axes = d.axes, c.arguments = d.arguments,
         c.adapter = d.adapter, c.conv = d.conv, c.plan = d.plan,
         c.variants = d.variants
  PROVE  c = d
<1>1. PICK args : args = Lists(ArgumentRecord) \cup LegacyTables
  OBVIOUS
<1>2. PICK adapters : adapters = {ConvAdapter, GenericAdapter}
  OBVIOUS
<1>3. c = [version |-> c.version, triple |-> c.triple, function |-> c.function,
           dynamic |-> c.dynamic, override |-> c.override, policy |-> c.policy,
           roles |-> c.roles, axes |-> c.axes, arguments |-> c.arguments,
           adapter |-> c.adapter, conv |-> c.conv, plan |-> c.plan,
           variants |-> c.variants]
  BY DEF Readout
<1>4. d = [version |-> d.version, triple |-> d.triple, function |-> d.function,
           dynamic |-> d.dynamic, override |-> d.override, policy |-> d.policy,
           roles |-> d.roles, axes |-> d.axes, arguments |-> d.arguments,
           adapter |-> d.adapter, conv |-> d.conv, plan |-> d.plan,
           variants |-> d.variants]
  BY DEF Artifact
<1> QED
  BY <1>3, <1>4

(* When all is read, what was read is what was compiled.                   *)
LEMMA AllRead ==
  ASSUME NEW order, Reading(order), phase \in {"contract", "accepted"}
  PROVE  restored = compiled /\ at = Len(file.payload)
<1>1. /\ HeaderAlike /\ OverridesAlike /\ AdapterAlike
      /\ restored.arguments = compiled.arguments /\ restored.plan = compiled.plan
      /\ \A v \in Items(seen) : restored.variants[v] = compiled.variants[v]
      /\ Len(seen) = 3
  BY ReadingFacts DEF Alike, Planning, Ending
<1>2. order \in Seq(1..3) /\ Len(order) = 3 /\ Items(order) = 1..3
  <2>1. order \in Orderings
    BY DEF Reading
  <2> QED
    BY <2>1, OrderFacts, ReadingFacts
<1>3. seen = order
  <2>1. SubSeq(order, 1, Len(order)) = order
    BY <1>2, WholePrefix
  <2>2. seen = SubSeq(order, 1, Len(seen))
    BY DEF Reading, Follows
  <2> QED
    BY <1>1, <1>2, <2>1, <2>2
<1>4. restored.variants = compiled.variants
  <2>1. \A v \in 1..3 : restored.variants[v] = compiled.variants[v]
    BY <1>1, <1>2, <1>3
  <2>2. /\ restored.variants \in [1..3 -> VariantRecord]
        /\ compiled.variants \in [1..3 -> VariantRecord]
    BY ReadingFacts, ReadoutParts, ArtifactParts
  <2> QED
    BY <2>1, <2>2
<1>5. restored = compiled
  <2>1. PICK c, d : c = restored /\ d = compiled
    OBVIOUS
  <2>2. c \in Readout /\ d \in Artifact
    BY <2>1, ReadingFacts
  <2>3. /\ c.version = d.version /\ c.triple = d.triple /\ c.function = d.function
        /\ c.dynamic = d.dynamic /\ c.override = d.override /\ c.policy = d.policy
        /\ c.roles = d.roles /\ c.axes = d.axes /\ c.arguments = d.arguments
        /\ c.adapter = d.adapter /\ c.conv = d.conv /\ c.plan = d.plan
        /\ c.variants = d.variants
    BY <1>1, <1>4, <2>1 DEF HeaderAlike, OverridesAlike, AdapterAlike
  <2>4. c = d
    BY <2>2, <2>3, SameArtifact
  <2> QED
    BY <2>1, <2>4
<1>6. at = Len(file.payload)
  <2>1. FieldsToRead(order) = <<>>
    BY DEF FieldsToRead
  <2>2. Remains(file.payload, at, <<>>)
    BY <2>1, ReadingFacts
  <2>3. PICK units, from : units = file.payload /\ from = at
    OBVIOUS
  <2>4. units \in Seq(Units) /\ from \in Nat /\ Remains(units, from, <<>>)
    BY <2>2, <2>3, ReadingFacts
  <2>5. from = Len(units)
    BY <2>4, RemainsNone
  <2> QED
    BY <2>3, <2>5
<1> QED
  BY <1>5, <1>6

LEMMA FinishReads ==
  ASSUME NEW order, Reading(order), FinishParse, ReadInv'
  PROVE  Follows(order)'
<1>1. phase = "contract"
  BY DEF FinishParse
<1>2. restored = compiled /\ at = Len(file.payload)
  BY <1>1, AllRead
<1>3. ContractValid(restored)
  BY <1>2, ReadingFacts
<1>4. /\ phase' = "accepted" /\ left' = 0
      /\ UNCHANGED <<compiled, damage, file, at, seen, restored>>
  BY <1>2, <1>3 DEF FinishParse, Goto
<1>5. Alike /\ Remains(file.payload, at, FieldsToRead(order))
      /\ seen = SubSeq(order, 1, Len(seen))
  BY DEF Reading, Follows
<1>6. Alike'
  BY <1>1, <1>4, <1>5 DEF Alike, Planning, Ending, HeaderAlike, OverridesAlike, AdapterAlike
<1>7. FieldsToRead(order) = <<>> /\ FieldsToRead(order)' = <<>>
  BY <1>1, <1>4 DEF FieldsToRead
<1>8. Remains(file.payload, at, FieldsToRead(order))'
  BY <1>4, <1>5, <1>7
<1> QED
  BY <1>4, <1>5, <1>6, <1>8 DEF Follows

FromTheRight(a, b, c, d) == ((a \o b) \o c) \o d = a \o (b \o (c \o d))

LEMMA FourJoined ==
  ASSUME NEW S, NEW a \in Seq(S), NEW b \in Seq(S), NEW c \in Seq(S), NEW d \in Seq(S)
  PROVE  FromTheRight(a, b, c, d)
<1>1. PICK ab, cd : ab = a \o b /\ cd = c \o d
  OBVIOUS
<1>2. ab \in Seq(S) /\ cd \in Seq(S)
  BY <1>1, ConcatLengths
<1>3. (ab \o c) \o d = ab \o (c \o d)
  <2>1. Regroups(ab, c, d)
    BY <1>2, Regrouped
  <2> QED
    BY <2>1 DEF Regroups
<1>4. (a \o b) \o cd = a \o (b \o cd)
  <2>1. Regroups(a, b, cd)
    BY <1>2, Regrouped
  <2> QED
    BY <2>1 DEF Regroups
<1> QED
  BY <1>1, <1>3, <1>4 DEF FromTheRight

(* A file as the reader of its sections sees it.                           *)
LEMMA FileInSections ==
  ASSUME compiled \in Artifact, ShortTexts(compiled, MaxStringSize), NEW order \in [1..3 -> 1..3]
  PROVE  Everything(compiled, compiled.version, order)
           = Header(compiled, compiled.version) \o AfterHeader(order)
<1>1. PICK S : S = Readable
  OBVIOUS
<1>2. PICK version : version = compiled.version
  OBVIOUS
<1>3. PICK h, o, e, a, l : /\ h = Header(compiled, version) /\ o = Overrides(compiled, version)
                           /\ e = Joint(Entries(compiled)) /\ a = Adapter(compiled)
                           /\ l = Convolution(compiled.conv)
  OBVIOUS
<1>4. PICK n, p, q, w, v : /\ n = <<U32(Len(compiled.arguments))>>
                           /\ p = PlanHead(compiled.plan, Len(compiled.plan.allocations))
                           /\ q = Joint(Allocated(compiled.plan)) /\ w = NumericContract
                           /\ v = Joint(VariantsOf(compiled, order))
  OBVIOUS
<1>5. /\ h \in Seq(S) /\ o \in Seq(S) /\ a \in Seq(S) /\ l \in Seq(S)
      /\ n \in Seq(S) /\ p \in Seq(S) /\ w \in Seq(S)
  BY <1>1, <1>2, <1>3, <1>4, ReadableParts
<1>6. e \in Seq(S) /\ q \in Seq(S) /\ v \in Seq(S)
  <2>1. /\ Entries(compiled) \in Seq(Seq(S)) /\ Allocated(compiled.plan) \in Seq(Seq(S))
        /\ VariantsOf(compiled, order) \in Seq(Seq(S))
    BY <1>1, ReadablePieces
  <2> QED
    BY <1>3, <1>4, <2>1, JointIsList
<1>7. FromVariant(order, 1) = v
  <2>1. VariantsOf(compiled, order) \in Seq(Seq(S))
    BY <1>1, ReadablePieces
  <2> QED
    BY <1>4, <2>1, FromAll DEF FromVariant
<1>8. PICK tail, rest : tail = FromNumeric(order) /\ rest = FromPlan(order)
  OBVIOUS
<1>9. tail = w \o v /\ tail \in Seq(S)
  BY <1>4, <1>5, <1>6, <1>7, <1>8, ConcatLengths DEF FromNumeric
<1>10. rest = p \o (q \o tail) /\ rest \in Seq(S)
  <2>1. Allocated(compiled.plan) \in Seq(Seq(S))
    BY <1>1, ReadablePieces
  <2>2. From(Allocated(compiled.plan), 1) = q
    BY <1>4, <2>1, FromAll
  <2>3. FromAllocation(order, 1) = q \o tail
    BY <1>8, <2>2 DEF FromAllocation
  <2>4. q \o tail \in Seq(S)
    BY <1>6, <1>9, ConcatLengths
  <2>5. PICK qt : qt = q \o tail
    OBVIOUS
  <2>6. p \o qt \in Seq(S)
    BY <1>5, <2>4, <2>5, ConcatLengths
  <2>7. rest = p \o qt
    BY <1>4, <1>8, <2>3, <2>5 DEF FromPlan
  <2> QED
    BY <2>5, <2>6, <2>7
<1>11. PICK meta, whole : /\ meta = Metadata(compiled, version)
                          /\ whole = Everything(compiled, version, order)
  OBVIOUS
<1>12. Plan(compiled.plan) = p \o q
  <2>1. PICK plan : plan = compiled.plan
    OBVIOUS
  <2> QED
    BY <1>4, <2>1, PlanIsHead
<1>13. whole = ((meta \o (p \o q)) \o w) \o v
  <2>1. VariantsWritten(compiled, order) = v
    BY <1>4 DEF VariantsWritten, VariantsOf
  <2> QED
    BY <1>4, <1>11, <1>12, <2>1 DEF Everything
<1>14. ASSUME meta \in Seq(S)
       PROVE  whole = meta \o rest
  <2>1. PICK pq : pq = p \o q
    OBVIOUS
  <2>2. pq \in Seq(S)
    BY <1>5, <1>6, <2>1, ConcatLengths
  <2>3. ((meta \o pq) \o w) \o v = meta \o (pq \o (w \o v))
    <3>1. meta \in Seq(S) /\ pq \in Seq(S) /\ w \in Seq(S) /\ v \in Seq(S)
      BY <1>5, <1>6, <1>14, <2>2
    <3>2. FromTheRight(meta, pq, w, v)
      BY <3>1, FourJoined
    <3> QED
      BY <3>2 DEF FromTheRight
  <2>4. (p \o q) \o tail = p \o (q \o tail)
    <3>1. p \in Seq(S) /\ q \in Seq(S) /\ tail \in Seq(S)
      BY <1>5, <1>6, <1>9
    <3>2. Regroups(p, q, tail)
      BY <3>1, Regrouped
    <3> QED
      BY <3>2 DEF Regroups
  <2> QED
    BY <1>9, <1>10, <1>13, <2>1, <2>3, <2>4
<1>15. PICK next : next = AfterHeader(order)
  OBVIOUS
<1>16. CASE version = 1
  <2>1. meta = h \o l
    BY <1>2, <1>3, <1>11, <1>16 DEF Metadata
  <2>2. meta \in Seq(S)
    BY <1>5, <2>1, ConcatLengths
  <2>3. next = l \o rest
    BY <1>2, <1>3, <1>8, <1>15, <1>16 DEF AfterHeader, FromLegacy
  <2>4. (h \o l) \o rest = h \o (l \o rest)
    <3>1. h \in Seq(S) /\ l \in Seq(S) /\ rest \in Seq(S)
      BY <1>5, <1>10
    <3>2. Regroups(h, l, rest)
      BY <3>1, Regrouped
    <3> QED
      BY <3>2 DEF Regroups
  <2>5. whole = meta \o rest
    BY <1>14, <2>2
  <2> QED
    BY <1>2, <1>3, <1>11, <1>15, <2>1, <2>3, <2>4, <2>5
<1>17. CASE version # 1
  <2>1. PICK s, t, body : /\ s = Since(3, version, o) /\ t = n \o e
                          /\ body = (s \o t) \o a
    OBVIOUS
  <2>2. meta = h \o body
    <3>1. ArgumentTable(compiled, version) = t
      BY <1>2, <1>3, <1>4, <2>1 DEF ArgumentTable, Entries
    <3> QED
      BY <1>3, <1>11, <1>17, <2>1, <3>1 DEF Metadata
  <2>3. s \in Seq(S) /\ t \in Seq(S)
    BY <1>5, <1>6, <2>1, ConcatLengths, EmptySeq DEF Since
  <2>4. body \in Seq(S)
    <3>1. PICK st : st = s \o t
      OBVIOUS
    <3>2. st \in Seq(S)
      BY <2>3, <3>1, ConcatLengths
    <3>3. st \o a \in Seq(S)
      BY <1>5, <3>2, ConcatLengths
    <3> QED
      BY <2>1, <3>1, <3>3
  <2>5. meta \in Seq(S)
    BY <1>5, <2>2, <2>4, ConcatLengths
  <2>6. whole = meta \o rest
    BY <1>14, <2>5
  <2>7. (h \o body) \o rest = h \o (body \o rest)
    <3>1. h \in Seq(S) /\ body \in Seq(S) /\ rest \in Seq(S)
      BY <1>5, <1>10, <2>4
    <3>2. Regroups(h, body, rest)
      BY <3>1, Regrouped
    <3> QED
      BY <3>2 DEF Regroups
  <2>8. PICK fa, fs : fa = FromAdapter(order) /\ fs = FromArguments(order)
    OBVIOUS
  <2>9. fa = a \o rest /\ fa \in Seq(S)
    BY <1>3, <1>5, <1>8, <1>10, <2>8, ConcatLengths DEF FromAdapter
  <2>10. fs = t \o fa
    <3>1. Entries(compiled) \in Seq(Seq(S))
      BY <1>1, ReadablePieces
    <3>2. From(Entries(compiled), 1) = e
      BY <1>3, <3>1, FromAll
    <3>3. fs = n \o (e \o fa)
      BY <1>4, <2>8, <3>2 DEF FromArguments, FromArgument
    <3>4. (n \o e) \o fa = n \o (e \o fa)
      <4>1. n \in Seq(S) /\ e \in Seq(S) /\ fa \in Seq(S)
        BY <1>5, <1>6, <2>9
      <4>2. Regroups(n, e, fa)
        BY <4>1, Regrouped
      <4> QED
        BY <4>2 DEF Regroups
    <3> QED
      BY <2>1, <3>3, <3>4
  <2>11. body \o rest = s \o fs
    <3>1. ((s \o t) \o a) \o rest = s \o (t \o (a \o rest))
      <4>1. s \in Seq(S) /\ t \in Seq(S) /\ a \in Seq(S) /\ rest \in Seq(S)
        BY <1>5, <1>10, <2>3
      <4>2. FromTheRight(s, t, a, rest)
        BY <4>1, FourJoined
      <4> QED
        BY <4>2 DEF FromTheRight
    <3> QED
      BY <2>1, <2>9, <2>10, <3>1
  <2>12. fs \in Seq(S)
    BY <2>3, <2>9, <2>10, ConcatLengths
  <2>13. next = s \o fs
    <3>1. version \in 1..kArtifactFormatVersion
      BY <1>2, ArtifactParts
    <3>2. CASE version = 2
      <4>1. s = <<>>
        BY <2>1, <3>2 DEF Since
      <4>2. <<>> \o fs = fs
        BY <2>12, ConcatEmptySeq
      <4>3. next = fs
        BY <1>2, <1>15, <2>8, <3>2 DEF AfterHeader
      <4> QED
        BY <4>1, <4>2, <4>3
    <3>3. CASE version # 2
      <4>1. s = o
        BY <1>17, <2>1, <3>1, <3>3 DEF Since, kArtifactFormatVersion
      <4>2. next = o \o fs
        BY <1>2, <1>3, <1>15, <1>17, <2>8, <3>3 DEF AfterHeader, FromOverrides
      <4> QED
        BY <4>1, <4>2
    <3> QED
      BY <3>2, <3>3
  <2> QED
    BY <1>2, <1>3, <1>11, <1>15, <2>2, <2>6, <2>7, <2>11, <2>13
<1> QED
  BY <1>16, <1>17

LEMMA WholeStarts ==
  ASSUME FormatInit
  PROVE  CompiledInv /\ WholeInv
<1>1. CompiledInv
  BY FilesWritten DEF CompiledInv
<1>2. ASSUME Whole
      PROVE  \E order \in Orderings : Follows(order)
  <2>1. compiled \in Artifact /\ ShortTexts(compiled, MaxStringSize) /\ damage = "none"
    BY <1>1, <1>2 DEF CompiledInv, Whole
  <2>2. PICK order \in [1..3 -> 1..3] :
          /\ Items(order) = 1..3
          /\ file.payload = Serialized(compiled, compiled.version, order)
    BY <2>1, FilesWritten
  <2>3. order \in Orderings
    BY <2>2 DEF Orderings
  <2>4. order \in Seq(1..3) /\ compiled.version \in 1..kArtifactFormatVersion
    BY <2>1, <2>3, OrderFacts, ArtifactParts
  <2>5. PICK units, fields :
          units = file.payload /\ fields = Everything(compiled, compiled.version, order)
    OBVIOUS
  <2>6. units = WrittenUnits(fields) /\ units \in Seq(Units)
    BY <2>1, <2>2, <2>4, <2>5, SerializedUnits
  <2>7. /\ at = 0 /\ left = 0 /\ seen = <<>> /\ phase = "header" /\ restored = EmptyInfo
    BY DEF FormatInit
  <2>8. Remains(units, 0, fields)
    <3>1. Len(units) \in Nat
      BY <2>6, LenProperties
    <3>2. StandsAt(units, units, 0)
      BY <3>1 DEF StandsAt
    <3> QED
      BY <2>6, <3>1, <3>2 DEF Remains
  <2>9. FieldsToRead(order) = fields
    <3>1. fields = Header(compiled, compiled.version) \o AfterHeader(order)
      BY <2>1, <2>5, FileInSections
    <3> QED
      BY <2>7, <3>1 DEF FieldsToRead
  <2>10. Remains(file.payload, at, FieldsToRead(order))
    BY <2>5, <2>7, <2>8, <2>9
  <2>11. seen = SubSeq(order, 1, Len(seen))
    <3>1. Len(seen) = 0 /\ SubSeq(order, 1, 0) = <<>>
      BY <2>7, EmptySeq, SubSeqEmpty
    <3> QED
      BY <2>7, <3>1
  <2>12. Alike
    BY <2>7 DEF Alike, Planning, Ending
  <2>13. Follows(order)
    BY <2>7, <2>10, <2>11, <2>12 DEF Follows
  <2> QED
    BY <2>3, <2>13
<1> QED
  BY <1>1, <1>2 DEF WholeInv

LEMMA FileStays ==
  ASSUME [FormatNext]_formatVars
  PROVE  compiled' = compiled /\ damage' = damage /\ file' = file
<1>1. CASE ReadHeader
  BY <1>1 DEF ReadHeader, Took, Refuse
<1>2. CASE ReadOverrides
  BY <1>2 DEF ReadOverrides, Took, Refuse
<1>3. CASE ReadArgumentCount
  BY <1>3 DEF ReadArgumentCount, Took, Refuse
<1>4. CASE ReadArgument
  BY <1>4 DEF ReadArgument, Took, Refuse
<1>5. CASE ReadAdapter
  BY <1>5 DEF ReadAdapter, Took, Refuse
<1>6. CASE ReadLegacyConvolution
  BY <1>6 DEF ReadLegacyConvolution, Took, Refuse
<1>7. CASE ReadPlan
  BY <1>7 DEF ReadPlan, Took, Refuse
<1>8. CASE ReadAllocation
  BY <1>8 DEF ReadAllocation, Took, Refuse
<1>9. CASE ReadNumericContract
  BY <1>9 DEF ReadNumericContract, Took, Refuse
<1>10. CASE ReadVariant
  BY <1>10 DEF ReadVariant, Took, Refuse
<1>11. CASE FinishParse
  BY <1>11 DEF FinishParse, Took, Refuse
<1>12. CASE UNCHANGED formatVars
  BY <1>12 DEF formatVars
<1> QED
  BY <1>1, <1>2, <1>3, <1>4, <1>5, <1>6, <1>7, <1>8, <1>9, <1>10, <1>11, <1>12 DEF FormatNext

LEMMA WholeKeeps ==
  ASSUME ReadInv, ReadInv', CompiledInv, WholeInv, [FormatNext]_formatVars
  PROVE  CompiledInv' /\ WholeInv'
<1>1. compiled' = compiled /\ damage' = damage /\ file' = file
  BY FileStays
<1>2. CompiledInv'
  BY <1>1 DEF CompiledInv
<1>3. Whole' => Whole
  BY <1>1 DEF Whole, ShortTexts
<1>4. ASSUME Whole
      PROVE  \E order \in Orderings : Follows(order)'
  <2>1. PICK order \in Orderings : Follows(order)
    BY <1>4 DEF WholeInv
  <2>2. Reading(order)
    BY <1>4, <2>1 DEF Reading
  <2>3. CASE ReadHeader
    BY <2>2, <2>3, HeaderReads
  <2>4. CASE ReadOverrides
    BY <2>2, <2>4, OverridesReads
  <2>5. CASE ReadArgumentCount
    BY <2>2, <2>5, CountReads
  <2>6. CASE ReadArgument
    BY <2>2, <2>6, ArgumentReads
  <2>7. CASE ReadAdapter
    BY <2>2, <2>7, AdapterReads
  <2>8. CASE ReadLegacyConvolution
    BY <2>2, <2>8, LegacyReads
  <2>9. CASE ReadPlan
    BY <2>2, <2>9, PlanReads
  <2>10. CASE ReadAllocation
    BY <2>2, <2>10, AllocationReads
  <2>11. CASE ReadNumericContract
    BY <2>2, <2>11, NumericReads
  <2>12. CASE ReadVariant
    BY <2>2, <2>12, VariantReads
  <2>13. CASE FinishParse
    BY <2>2, <2>13, FinishReads
  <2>14. CASE UNCHANGED formatVars
    <3>1. /\ file' = file /\ at' = at /\ phase' = phase /\ left' = left /\ seen' = seen
          /\ restored' = restored /\ compiled' = compiled
      BY <2>14 DEF formatVars
    <3>2. Alike'
      BY <2>1, <3>1 DEF Follows, Alike, HeaderAlike, OverridesAlike, ArgumentsAlike,
                        AdapterAlike, PlanAlike
    <3>3. FieldsToRead(order)' = FieldsToRead(order)
      BY <3>1 DEF FieldsToRead, AfterHeader, FromLegacy, FromOverrides, FromArguments,
                  FromArgument, FromAdapter, FromPlan, FromAllocation, FromNumeric,
                  FromVariant
    <3>4. Remains(file.payload, at, FieldsToRead(order))'
      BY <2>1, <3>1, <3>3 DEF Follows
    <3>5. (seen = SubSeq(order, 1, Len(seen)))' /\ phase' # "refused"
      BY <2>1, <3>1 DEF Follows
    <3> QED
      BY <3>2, <3>4, <3>5 DEF Follows
  <2>15. \/ ReadHeader \/ ReadOverrides \/ ReadArgumentCount \/ ReadArgument
         \/ ReadAdapter \/ ReadLegacyConvolution \/ ReadPlan \/ ReadAllocation
         \/ ReadNumericContract \/ ReadVariant \/ FinishParse \/ UNCHANGED formatVars
    BY DEF FormatNext
  <2> QED
    BY <2>3, <2>4, <2>5, <2>6, <2>7, <2>8, <2>9, <2>10, <2>11, <2>12, <2>13, <2>14, <2>15
<1>5. Orderings' = Orderings
  BY DEF Orderings
<1> QED
  BY <1>2, <1>3, <1>4, <1>5 DEF WholeInv

(* A whole file of any version and variant order, whose texts are no       *)
(* longer than a reader takes, is never refused, and what it gives back is *)
(* the artifact that was compiled (parse_artifact of serialize_artifact).  *)
THEOREM WrittenGivesBack ==
  FormatSpec => []WrittenIsRead
<1>1. FormatInit => CompiledInv /\ WholeInv
  BY WholeStarts
<1>2. /\ ReadInv /\ ReadInv' /\ CompiledInv /\ WholeInv /\ [FormatNext]_formatVars
      => CompiledInv' /\ WholeInv'
  BY WholeKeeps
<1>3. ReadInv /\ CompiledInv /\ WholeInv => WrittenIsRead
  <2> SUFFICES ASSUME ReadInv, CompiledInv, WholeInv, damage = "none",
                      \A text \in TextsOf(compiled) : Len(text) <= MaxStringSize
               PROVE  phase # "refused" /\ (phase = "accepted" => restored = compiled)
    BY DEF WrittenIsRead
  <2>1. Whole
    BY DEF Whole, ShortTexts
  <2>2. PICK order \in Orderings : Follows(order)
    BY <2>1 DEF WholeInv
  <2>3. Reading(order)
    BY <2>1, <2>2 DEF Reading
  <2> QED
    BY <2>2, <2>3, AllRead DEF Follows
<1>4. FormatSpec => [](CompiledInv /\ WholeInv)
  BY <1>1, <1>2, ReadInvHolds, PTL DEF FormatSpec
<1> QED
  BY <1>3, <1>4, ReadInvHolds, PTL
===============================================================================
