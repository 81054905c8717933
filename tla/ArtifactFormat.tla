--------------------------- MODULE ArtifactFormat ---------------------------
(***************************************************************************)
(* The bytes of an artifact: what serialize_artifact and the writers of    *)
(* the eleven older versions put in a file, and parse_artifact reading it  *)
(* section by section (Artifact.cpp), after the file was left whole,       *)
(* changed, cut or extended.                                               *)
(*                                                                         *)
(* A file is a payload of units and a checksum, which is the payload it    *)
(* was computed from.  A std::uint32_t is one unit, a std::uint64_t two,   *)
(* the low one first; a letter of a text is one unit.                      *)
(***************************************************************************)
EXTENDS ArtifactContract

CONSTANTS
  Base,           (* number of values of a unit, the root of MaxU64 + 1    *)
  MaxStringSize,  (* kMaximumStringSize: the longest text a reader takes   *)
  Contracts,      (* the artifacts compiled                                *)
  Orders(_),      (* the orders the variants of an artifact are written in *)
  NewUnits(_)     (* what a changed unit may become                        *)

VARIABLES
  compiled, (* the artifact that was serialized                            *)
  damage,   (* what happened to the file, "absent" when there is none      *)
  file,     (* [payload, sum]                                              *)
  at,       (* units read                                                  *)
  phase,    (* the section to read next, "accepted" or "refused"           *)
  left,     (* entries left to read in the section                         *)
  seen,     (* variants read, in the order of the file                     *)
  restored  (* what has been read                                          *)

formatVars == <<compiled, damage, file, at, phase, left, seen, restored>>

Units == 0..(Base - 1)

kArtifactFormatVersion == 12
Magic == 1
EndianMarker == 2
Producers == <<<<1>>, <<2>>, <<3>>>>
Tolerances == <<1, 2>>

(* Largest override policy a version can say.                              *)
MaximumPolicy(version) ==
  CASE version \in 3..5 -> 1
    [] version = 6 -> 2
    [] version \in 7..12 -> version - 4
    [] OTHER -> 0

(***************************************************************************)
(* Writing: an artifact is a sequence of fields <<kind, value>>.           *)
(***************************************************************************)
U32(n) == <<"u32", n>>
U64(n) == <<"u64", n>>
I64(n) == <<"i64", n>>
String(text) == <<"string", text>>
Blob(units) == <<"blob", units>>

U32s(values) == [k \in DOMAIN values |-> U32(values[k])]
I64s(values) == [k \in DOMAIN values |-> I64(values[k])]
Strings(texts) == [k \in DOMAIN texts |-> String(texts[k])]

Halves(n) == <<n % Base, n \div Base>>

Encoded(field) ==
  LET value == field[2]
  IN CASE field[1] = "u32" -> <<value>>
       [] field[1] = "u64" -> Halves(value)
       [] field[1] = "i64" -> Halves(IF value < 0 THEN value + MaxU64 + 1 ELSE value)
       [] field[1] = "string" -> <<Len(value)>> \o value
       [] field[1] = "blob" -> Halves(Len(value)) \o value

Joint(pieces) ==
  LET upTo[k \in 0..Len(pieces)] == IF k = 0 THEN <<>> ELSE upTo[k - 1] \o pieces[k]
  IN upTo[Len(pieces)]

WrittenUnits(fields) == Joint([k \in DOMAIN fields |-> Encoded(fields[k])])

(* The parts a version lacks are left out.                                 *)
Since(first, version, fields) == IF version >= first THEN fields ELSE <<>>

Header(c, version) ==
  U32s(<<Magic, version, EndianMarker>>) \o Strings(Producers \o <<c.triple, c.function>>)

Overrides(c, version) ==
  U32s(<<IF c.dynamic THEN 1 ELSE 0, IF c.override THEN 1 ELSE 0, c.policy>>)
    \o Since(6, version, <<U32(Len(c.roles))>> \o I64s(c.roles))
    \o Since(10, version, <<U32(Len(c.axes))>> \o I64s(c.axes))

Argument(a, version) ==
  <<I64(a.uid), String(a.name), U32(a.type), U32(a.access)>>
    \o Since(4, version, <<U32(a.storage), I64(a.offsetUid), I64(a.sequenceUid)>>)
    \o Since(5, version, <<I64(a.divisor)>>)
    \o <<U64(a.alignment), U64(a.size), U32(Len(a.dims))>>
    \o I64s(a.dims) \o I64s(a.strides)

Convolution(conv) ==
  I64s(conv.uids \o conv.x \o conv.w \o conv.y \o conv.padded
         \o conv.pre \o conv.post \o conv.stride \o conv.dilation)

ArgumentTable(c, version) ==
  LET entries == c.arguments
  IN <<U32(Len(entries))>>
       \o Joint([k \in DOMAIN entries |-> Argument(entries[k], version)])

Adapter(c) ==
  <<U32(c.adapter),
    Blob(IF c.adapter = ConvAdapter THEN WrittenUnits(Convolution(c.conv)) ELSE <<>>)>>

Allocation(a) ==
  <<String(a.name), U64(a.offset), U64(a.size), U64(a.alignment), U64(a.start), U64(a.end)>>

Plan(plan) ==
  <<U64(plan.size), U64(plan.alignment), U32(Len(plan.allocations))>>
    \o Joint([k \in DOMAIN plan.allocations |-> Allocation(plan.allocations[k])])

NumericContract == <<U64(Tolerances[1]), U64(Tolerances[2]), U32(3)>>

Variant(c, v) ==
  <<U32(v - 1), String(c.variants[v].symbol), String(c.variants[v].features),
    Blob(c.variants[v].object)>>

(* What comes before the plan.  Version 1 was for convolutions alone.      *)
Metadata(c, version) ==
  Header(c, version)
    \o (IF version = 1 THEN Convolution(c.conv)
         ELSE Since(3, version, Overrides(c, version))
                \o ArgumentTable(c, version) \o Adapter(c))

Serialized(c, version, order) ==
  WrittenUnits(Metadata(c, version) \o Plan(c.plan) \o NumericContract
                 \o Joint([k \in DOMAIN order |-> Variant(c, order[k])]))

(* The argument table version 1 did not have.                              *)
SynthesizedArgument(conv, k) ==
  LET dims == <<conv.x, conv.w, conv.y>>[k]
      strides == PackedStrides(dims)
  IN [uid |-> conv.uids[k], name |-> ConvNames[k], type |-> Float,
      access |-> IF k = 3 THEN kWrite ELSE kRead, storage |-> 0,
      offsetUid |-> 0, sequenceUid |-> 0, divisor |-> 1, alignment |-> 4,
      size |-> StorageBytes("FLOAT", dims, strides), dims |-> dims, strides |-> strides]

LegacyArguments(conv) == [k \in 1..3 |-> SynthesizedArgument(conv, k)]

(* What a version has a place for.                                         *)
Expressible(c, version) ==
  /\ version < 10 => c.axes = <<>>
  /\ version < 6 => c.roles = <<>>
  /\ version < 5 => \A a \in Items(c.arguments) : a.divisor = 1
  /\ version < 4 => \A a \in Items(c.arguments) : a.storage = 0
  /\ version < 3 => ~c.dynamic /\ ~c.override
  /\ version < 2 => c.adapter = ConvAdapter /\ c.arguments = LegacyArguments(c.conv)
  /\ c.policy <= MaximumPolicy(version)

(***************************************************************************)
(* Reading units: [ok, value, at], at being the units read so far.         *)
(***************************************************************************)
Short == [ok |-> FALSE, value |-> 0, at |-> 0]
Has(units, from, n) == from + n <= Len(units)

ReadUnsigned(units, from, width) ==
  IF ~Has(units, from, width) THEN Short
  ELSE [ok |-> TRUE, at |-> from + width,
        value |-> IF width = 1 THEN units[from + 1]
                  ELSE units[from + 1] + Base * units[from + 2]]

ReadSigned(units, from) ==
  LET bits == ReadUnsigned(units, from, 2)
  IN IF bits.ok /\ bits.value > MaxI64
     THEN [bits EXCEPT !.value = @ - MaxU64 - 1] ELSE bits

ReadSized(units, size, limit) ==
  IF size.ok /\ size.value <= limit /\ Has(units, size.at, size.value)
  THEN [ok |-> TRUE, at |-> size.at + size.value,
        value |-> SubSeq(units, size.at + 1, size.at + size.value)]
  ELSE Short

Read1(units, from, kind) ==
  CASE kind = "u32" -> ReadUnsigned(units, from, 1)
    [] kind = "u64" -> ReadUnsigned(units, from, 2)
    [] kind = "i64" -> ReadSigned(units, from)
    [] kind = "string" -> ReadSized(units, ReadUnsigned(units, from, 1), MaxStringSize)
    [] kind = "blob" -> ReadSized(units, ReadUnsigned(units, from, 2), MaxU64)

(* The values of these kinds one after another.                            *)
NothingRead(from) == [ok |-> TRUE, value |-> <<>>, at |-> from]

ReadNext(units, before, kind) ==
  LET one == Read1(units, before.at, kind)
  IN IF before.ok /\ one.ok
     THEN [ok |-> TRUE, value |-> Append(before.value, one.value), at |-> one.at]
     ELSE Short

ReadAll(units, from, kinds) ==
  LET upTo[k \in 0..Len(kinds)] ==
        IF k = 0 THEN NothingRead(from) ELSE ReadNext(units, upTo[k - 1], kinds[k])
  IN upTo[Len(kinds)]

ReadI64s(units, from, n) == ReadAll(units, from, [k \in 1..n |-> "i64"])

(***************************************************************************)
(* The file.                                                               *)
(***************************************************************************)
Damages(units) ==
  {[kind |-> "none", payload |-> units, sum |-> units],
   [kind |-> "cut", payload |-> SubSeq(units, 1, Len(units) - 1), sum |-> units],
   [kind |-> "extended", payload |-> Append(units, 0), sum |-> Append(units, 0)]}
  \cup {[kind |-> "flipped", payload |-> [units EXCEPT ![k] = Base - 1 - @], sum |-> units] :
          k \in {j \in DOMAIN units : units[j] # Base - 1 - units[j]}}
  \cup {LET edited == [units EXCEPT ![e[1]] = e[2]]
        IN [kind |-> "edited", payload |-> edited, sum |-> edited] :
          e \in UNION {{<<k, u>> : u \in NewUnits(units[k]) \ {units[k]}} :
                         k \in DOMAIN units}}

(***************************************************************************)
(* What the fields of an artifact can hold, as far as a file has a place   *)
(* for it.                                                                 *)
(***************************************************************************)
Unsigned == 0..MaxU64
Signed == (-1 - MaxI64)..MaxI64
Texts == {text \in Seq(Units) : Len(text) \in Units}
Objects == {units \in Seq(Units) : Len(units) <= MaxU64}
Lists(S) == {list \in Seq(S) : Len(list) \in Units}
Pair == [1..2 -> Signed]
Shape == [1..4 -> Signed]

ArgumentRecord ==
  [uid: Signed, name: Texts, type: 0..19, access: kRead..kReadWrite,
   storage: 0..kRaggedBatchPrefix, offsetUid: Signed, sequenceUid: Signed, divisor: Signed,
   alignment: Unsigned, size: Unsigned, dims: Lists(Signed), strides: Lists(Signed)]

ConvolutionRecord ==
  [uids: [1..3 -> Signed], x: Shape, w: Shape, y: Shape, padded: Shape,
   pre: Pair, post: Pair, stride: Pair, dilation: Pair]

AllocationRecord ==
  [name: Texts, offset: Unsigned, size: Unsigned, alignment: Unsigned,
   start: Unsigned, end: Unsigned]

VariantRecord ==
  [symbol: Texts, features: Texts, object: Objects]

Artifact ==
  [version: 1..kArtifactFormatVersion, triple: Texts, function: Texts,
   dynamic: BOOLEAN, override: BOOLEAN, policy: 0..MaximumPolicy(kArtifactFormatVersion),
   roles: Lists(Signed), axes: Lists(Signed), arguments: Lists(ArgumentRecord),
   adapter: {ConvAdapter, GenericAdapter}, conv: ConvolutionRecord,
   plan: [size: Unsigned, alignment: Unsigned, allocations: Lists(AllocationRecord)],
   variants: [1..3 -> VariantRecord]]

NoConvolution ==
  [uids |-> <<0, 0, 0>>, pre |-> <<0, 0>>, post |-> <<0, 0>>,
   x |-> <<0, 0, 0, 0>>, w |-> <<0, 0, 0, 0>>, y |-> <<0, 0, 0, 0>>,
   padded |-> <<0, 0, 0, 0>>, stride |-> <<0, 0>>, dilation |-> <<0, 0>>]

ASSUME UnitsAssumption ==
  /\ Base \in Nat /\ Base > 20 /\ MaxU64 + 1 = Base * Base /\ MaxU64 = 2 * MaxI64 + 1
  /\ MaxStringSize \in Units \ {0} /\ MaxEntries \in 7..(Base - 1)
  /\ \A unit \in Units : NewUnits(unit) \subseteq Units

(* A graph without the adapter leaves the convolution's fields alone.      *)
ASSUME ContractsAssumption ==
  /\ Contracts \subseteq Artifact
  /\ \A c \in Contracts : c.adapter = GenericAdapter => c.conv = NoConvolution
  /\ \A c \in Contracts : \A order \in Orders(c) :
       order \in [1..3 -> 1..3] /\ Items(order) = 1..3

NoVariant == [symbol |-> <<>>, features |-> <<>>, object |-> <<>>]

EmptyInfo ==
  [version |-> kArtifactFormatVersion, triple |-> <<>>, function |-> <<>>,
   dynamic |-> FALSE, override |-> FALSE, policy |-> 0, roles |-> <<>>,
   axes |-> <<>>, arguments |-> <<>>, adapter |-> ConvAdapter,
   conv |-> NoConvolution,
   plan |-> [size |-> 0, alignment |-> kWorkspaceAlignment, allocations |-> <<>>],
   variants |-> [v \in 1..3 |-> NoVariant]]

(* serialize_artifact writes nothing else (validate_compilation).          *)
ValidCompilation(c) == IsText(c.triple) /\ ContractValid(c)

FormatInit ==
  /\ \E c \in Contracts : \E version \in 1..kArtifactFormatVersion, order \in Orders(c) :
       /\ compiled = [c EXCEPT !.version = version]
       /\ ValidCompilation(compiled) /\ Expressible(compiled, version)
       /\ \E d \in Damages(Serialized(compiled, version, order)) :
            /\ damage = d.kind
            /\ file = [payload |-> d.payload, sum |-> d.sum]
  /\ at = 0 /\ left = 0 /\ seen = <<>>
  /\ phase = "header"
  /\ restored = EmptyInfo

(***************************************************************************)
(* Reading: one action for each section.                                   *)
(* What is read is bound by \E over one value, which TLC computes once.    *)
(***************************************************************************)
Goto(section, entries) == phase' = section /\ left' = entries

Refuse ==
  /\ phase' = "refused"
  /\ UNCHANGED <<compiled, damage, file, at, left, seen, restored>>

Took(read) == at' = read.at /\ UNCHANGED <<compiled, damage, file>>

ReadHeader ==
  /\ phase = "header"
  /\ \E read \in {ReadAll(file.payload, 0,
                     <<"u32", "u32", "u32", "string", "string", "string", "string", "string">>)} :
       LET v == read.value
           good == /\ file.sum = file.payload
                   /\ read.ok
                   /\ v[1] = Magic /\ v[2] \in 1..kArtifactFormatVersion
                   /\ v[3] = EndianMarker
                   /\ <<v[4], v[5], v[6]>> = Producers
                   /\ IsText(v[7])
       IN \/ ~good /\ Refuse
          \/ /\ good /\ Took(read)
             /\ restored' = [restored EXCEPT !.version = v[2], !.triple = v[7], !.function = v[8]]
             /\ Goto(IF v[2] >= 3 THEN "overrides"
                     ELSE IF v[2] = 2 THEN "arguments" ELSE "legacy", 0)
             /\ UNCHANGED seen

(* A count and that many signed values, in the versions that have them.    *)
ReadList(from, first) ==
  IF restored.version < first THEN NothingRead(from)
  ELSE LET count == ReadUnsigned(file.payload, from, 1)
       IN IF count.ok /\ count.value <= MaxEntries
          THEN ReadI64s(file.payload, count.at, count.value) ELSE Short

ReadOverrides ==
  /\ phase = "overrides"
  /\ \E flags \in {ReadAll(file.payload, at, <<"u32", "u32", "u32">>)} :
     \E roles \in {ReadList(flags.at, 6)} : \E axes \in {ReadList(roles.at, 10)} :
       LET good == /\ flags.ok
                   /\ flags.value[1] <= 1 /\ flags.value[2] <= 1
                   /\ flags.value[3] <= MaximumPolicy(restored.version)
                   /\ roles.ok /\ axes.ok
       IN \/ ~good /\ Refuse
          \/ /\ good /\ Took(axes)
             /\ restored' = [restored EXCEPT !.dynamic = (flags.value[1] = 1),
                             !.override = (flags.value[2] = 1), !.policy = flags.value[3],
                             !.roles = roles.value, !.axes = axes.value]
             /\ Goto("arguments", 0)
             /\ UNCHANGED seen

ReadArgumentCount ==
  LET count == ReadUnsigned(file.payload, at, 1)
      good == count.ok /\ count.value >= 1 /\ count.value <= 4096
  IN /\ phase = "arguments"
     /\ \/ ~good /\ Refuse
        \/ good /\ Took(count) /\ Goto("argument", count.value) /\ UNCHANGED <<seen, restored>>

(* The fields of an entry of the argument table before its extents; the    *)
(* older versions leave the later ones at their defaults.                  *)
(* Fault: the divisor is taken for a field of version 4 already.           *)
ArgumentHeadEarlyDivisor(units, from, version) ==
  ReadAll(units, from,
    <<"i64", "string", "u32", "u32">>
      \o Since(4, version, <<"u32", "i64", "i64", "i64">>)
      \o <<"u64", "u64", "u32">>)
ArgumentHead(units, from, version) ==
  ReadAll(units, from,
    <<"i64", "string", "u32", "u32">>
      \o Since(4, version, <<"u32", "i64", "i64">>)
      \o Since(5, version, <<"i64">>)
      \o <<"u64", "u64", "u32">>)

ArgumentOf(v, dims, strides, version) ==
  LET n == Len(v)
      From(first, k, default) == IF version >= first THEN v[k] ELSE default
  IN [uid |-> v[1], name |-> v[2], type |-> v[3], access |-> v[4],
      storage |-> From(4, 5, 0), offsetUid |-> From(4, 6, 0),
      sequenceUid |-> From(4, 7, 0), divisor |-> From(5, 8, 1),
      alignment |-> v[n - 2], size |-> v[n - 1],
      dims |-> dims, strides |-> strides]

(* The entry with its extents and strides, as many as its rank says.       *)
ReadEntry(units, from, version) ==
  LET head == ArgumentHead(units, from, version)
      rank == head.value[Len(head.value)]
  IN IF ~head.ok \/ rank \notin 1..MaxEntries THEN Short
     ELSE LET lists == ReadI64s(units, head.at, 2 * rank)
              dims == SubSeq(lists.value, 1, rank)
              strides == SubSeq(lists.value, rank + 1, 2 * rank)
          IN IF ~lists.ok THEN Short
             ELSE [lists EXCEPT !.value = ArgumentOf(head.value, dims, strides, version)]

ReadArgument ==
  /\ phase = "argument"
  /\ \E read \in {ReadEntry(file.payload, at, restored.version)} :
       LET argument == read.value
           good == /\ read.ok
                   /\ argument.type < 20 /\ argument.access <= kReadWrite
                   /\ argument.storage <= kRaggedBatchPrefix /\ argument.divisor > 0
       IN \/ ~good /\ Refuse
          \/ /\ good /\ Took(read)
             /\ restored' = [restored EXCEPT !.arguments = Append(@, argument)]
             /\ IF left = 1 THEN Goto("adapter", 0) ELSE Goto("argument", left - 1)
             /\ UNCHANGED seen

(* Three uids, four shapes and four pairs.                                 *)
ConvolutionFields == 3 + 4 * 4 + 4 * 2

ConvolutionOf(v) ==
  [uids |-> SubSeq(v, 1, 3), x |-> SubSeq(v, 4, 7), w |-> SubSeq(v, 8, 11),
   y |-> SubSeq(v, 12, 15), padded |-> SubSeq(v, 16, 19),
   pre |-> SubSeq(v, 20, 21), post |-> SubSeq(v, 22, 23),
   stride |-> SubSeq(v, 24, 25), dilation |-> SubSeq(v, 26, 27)]

ShapesValid(conv) == \A shape \in {conv.x, conv.w, conv.y, conv.padded} : ShapeValid(shape)

ReadAdapter ==
  /\ phase = "adapter"
  /\ \E read \in {ReadAll(file.payload, at, <<"u32", "blob">>)} :
       LET kind == read.value[1]
           blob == read.value[2]
           As(conv) ==
             /\ Took(read)
             /\ restored' = [restored EXCEPT !.adapter = kind, !.conv = conv]
             /\ Goto("plan", 0)
             /\ UNCHANGED seen
       IN \/ ~read.ok /\ Refuse
          \/ read.ok /\ kind \notin {ConvAdapter, GenericAdapter} /\ Refuse
          \/ /\ read.ok /\ kind = GenericAdapter
             /\ IF blob = <<>> THEN As(NoConvolution) ELSE Refuse
          \/ /\ read.ok /\ kind = ConvAdapter
             /\ \E fields \in {ReadI64s(blob, 0, ConvolutionFields)} :
                  IF /\ fields.ok /\ fields.at = Len(blob)
                     /\ ShapesValid(ConvolutionOf(fields.value))
                  THEN As(ConvolutionOf(fields.value)) ELSE Refuse

ReadLegacyConvolution ==
  /\ phase = "legacy"
  /\ \E fields \in {ReadI64s(file.payload, at, ConvolutionFields)} :
       LET conv == ConvolutionOf(fields.value)
           good == /\ fields.ok
                   /\ \A shape \in {conv.x, conv.w, conv.y} :
                        /\ \A k \in 1..4 : shape[k] > 0
                        /\ HasStorage("FLOAT", shape, PackedStrides(shape))
                   /\ ShapesValid(conv)
       IN \/ ~good /\ Refuse
          \/ /\ good /\ Took(fields)
             /\ restored' = [restored EXCEPT !.conv = conv,
                             !.arguments = LegacyArguments(conv)]
             /\ Goto("plan", 0)
             /\ UNCHANGED seen

(* An allocation takes no fewer units than an empty name and five numbers. *)
ReadPlan ==
  /\ phase = "plan"
  /\ \E read \in {ReadAll(file.payload, at, <<"u64", "u64", "u32">>)} :
       LET count == read.value[3]
           good == read.ok /\ count <= (Len(file.payload) - read.at) \div (1 + 5 * 2)
       IN \/ ~good /\ Refuse
          \/ /\ good /\ Took(read)
             /\ restored' = [restored EXCEPT !.plan.size = read.value[1],
                                         !.plan.alignment = read.value[2]]
             /\ IF count = 0 THEN Goto("numeric", 0) ELSE Goto("allocation", count)
             /\ UNCHANGED seen

ReadAllocation ==
  /\ phase = "allocation"
  /\ \E read \in {ReadAll(file.payload, at, <<"string", "u64", "u64", "u64", "u64", "u64">>)} :
       LET v == read.value
       IN \/ ~read.ok /\ Refuse
          \/ /\ read.ok /\ Took(read)
             /\ restored' = [restored EXCEPT !.plan.allocations = Append(@,
                  [name |-> v[1], offset |-> v[2], size |-> v[3], alignment |-> v[4],
                   start |-> v[5], end |-> v[6]])]
             /\ IF left = 1 THEN Goto("numeric", 0) ELSE Goto("allocation", left - 1)
             /\ UNCHANGED seen

ReadNumericContract ==
  LET read == ReadAll(file.payload, at, <<"u64", "u64", "u32">>)
      good == read.ok /\ read.value = Append(Tolerances, 3)
  IN /\ phase = "numeric"
     /\ \/ ~good /\ Refuse
        \/ good /\ Took(read) /\ Goto("variant", 3) /\ UNCHANGED <<seen, restored>>

ReadVariant ==
  /\ phase = "variant"
  /\ \E read \in {ReadAll(file.payload, at, <<"u32", "string", "string", "blob">>)} :
       LET v == read.value
           good == /\ read.ok
                   /\ v[1] < 3 /\ v[1] + 1 \notin Items(seen)
                   /\ v[2] # <<>> /\ v[3] # <<>> /\ v[4] # <<>>
       IN \/ ~good /\ Refuse
          \/ /\ good /\ Took(read)
             /\ seen' = Append(seen, v[1] + 1)
             /\ restored' = [restored EXCEPT !.variants[v[1] + 1] =
                             [symbol |-> v[2], features |-> v[3], object |-> v[4]]]
             /\ IF left = 1 THEN Goto("contract", 0) ELSE Goto("variant", left - 1)

(* Fault: what follows the last variant is ignored.                        *)
FinishParseLenient ==
  LET good == ContractValid(restored)
  IN /\ phase = "contract"
     /\ \/ ~good /\ Refuse
        \/ good /\ Goto("accepted", 0) /\ UNCHANGED <<compiled, damage, file, at, seen, restored>>

FinishParse ==
  LET good == at = Len(file.payload) /\ ContractValid(restored)
  IN /\ phase = "contract"
     /\ \/ ~good /\ Refuse
        \/ good /\ Goto("accepted", 0) /\ UNCHANGED <<compiled, damage, file, at, seen, restored>>

FormatNext ==
  \/ ReadHeader \/ ReadOverrides \/ ReadArgumentCount \/ ReadArgument
  \/ ReadAdapter \/ ReadLegacyConvolution \/ ReadPlan \/ ReadAllocation
  \/ ReadNumericContract \/ ReadVariant \/ FinishParse

FormatSpec == FormatInit /\ [][FormatNext]_formatVars

(***************************************************************************)
(* Properties.                                                             *)
(***************************************************************************)
TextsOf(artifact) ==
  {artifact.triple, artifact.function}
    \cup {a.name : a \in Items(artifact.arguments)}
    \cup {a.name : a \in Items(artifact.plan.allocations)}
    \cup UNION {{artifact.variants[v].symbol, artifact.variants[v].features} : v \in 1..3}

(* A whole file of any version and variant order gives back, after a       *)
(* restart, exactly the contract, plan and objects that were compiled, the *)
(* parts its version has no place for at their defaults, provided that its *)
(* texts are no longer than a reader takes (parse_artifact).               *)
WrittenIsRead ==
  damage = "none" /\ (\A text \in TextsOf(compiled) : Len(text) <= MaxStringSize) =>
    /\ phase # "refused"
    /\ phase = "accepted" => restored = compiled

(* Nothing in an accepted file goes unread or is read two ways: writing    *)
(* what was read again gives the file, whatever happened to it             *)
(* (parse_artifact against serialize_artifact).                            *)
AcceptedIsCanonical ==
  phase = "accepted" => file.payload = Serialized(restored, restored.version, seen)

(* Whatever file is accepted, no two allocations of its plan that live at  *)
(* one time share a byte, each lies in the workspace the caller is asked   *)
(* for, and the last one ends less than one alignment before its end       *)
(* (validate_contract); in true arithmetic, not the machine's.             *)
AcceptedPlanIsSound ==
  LET plan == restored.plan
      Bytes(a) == a.offset..(a.offset + a.size - 1)
  IN phase = "accepted" =>
       /\ \A a, b \in Items(plan.allocations) :
            a # b /\ a.start..a.end \cap b.start..b.end # {} => Bytes(a) \cap Bytes(b) = {}
       /\ UNION {Bytes(a) : a \in Items(plan.allocations)} \subseteq 0..(plan.size - 1)
       /\ plan.size > 0 =>
            \E a \in Items(plan.allocations) :
              a.offset + a.size > plan.size - kWorkspaceAlignment

(* The claim of the artifact's documentation, that a file stores what is   *)
(* needed to restore the Executable: whatever serialize_artifact returns   *)
(* can be parsed again.                                                    *)
SerializedCanBeRead ==
  damage = "none" /\ compiled.version = kArtifactFormatVersion => phase # "refused"
=============================================================================
