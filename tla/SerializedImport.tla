-------------------------- MODULE SerializedImport --------------------------
(***************************************************************************)
(* SerializedGraphImporter (lib/Import): from the bytes of a file or a     *)
(* buffer to a SerializedGraph, refusal by refusal.                        *)
(*                                                                         *)
(* A JSON value is a pair of its kind and its contents: <<"object", f>>,   *)
(* <<"array", s>>, <<"string", s>>, <<"bool", b>>, <<"int", n>>, <<"float",*)
(* x>>, <<"nonfinite", 0>>, and <<"null">>.  A status is an error code;    *)
(* where the members of an object are visited in the order of their keys,  *)
(* the code may be that of any member at fault.                            *)
(***************************************************************************)
EXTENDS Integers, Sequences, SequencesExt, FiniteSets, TLC

CONSTANTS
  Inputs,        (* what parse_file may be given                           *)
  IntMax,        (* largest std::int64_t                                   *)
  Int32Max,      (* largest std::int32_t                                   *)
  UIntMax,       (* largest std::uint64_t and std::size_t                  *)
  MaximumBytes,  (* kMaximumSerializedGraphBytes                           *)
  MaximumDepth,  (* nesting of a serialized attribute, 64                  *)
  MaximumRank,   (* of a tensor, 64                                        *)
  Numerals,      (* integers an object's key may spell                     *)
  NulStrings,    (* strings that contain NUL                               *)
  HexWords       (* strings of eight hexadecimal digits                    *)

VARIABLES
  input,     (* path, file and format; not changed                         *)
  phase,     (* file, carrier, root, tensors, scalars, nodes, convolution, *)
             (* done                                                       *)
  document,  (* the decoded JSON value                                     *)
  node,      (* the node to parse                                          *)
  tensors,   (* tensors and named_tensors: descriptors by reference        *)
  nodes,     (* the nodes parsed so far                                    *)
  code,      (* of the status                                              *)
  output     (* the caller's graph                                         *)

vars == <<input, phase, document, node, tensors, nodes, code, output>>
-----------------------------------------------------------------------------
(* Statuses.                                                               *)
Ok == "Ok"
Check(holds, error) == IF holds THEN Ok ELSE error
status ?? next == IF status = Ok THEN next ELSE status

(* What a loop over a sequence returns: the first failure.                 *)
FirstFailure(statuses) ==
  LET failed == {i \in DOMAIN statuses : statuses[i] # Ok}
  IN IF failed = {} THEN Ok ELSE statuses[CHOOSE i \in failed : \A j \in failed : i <= j]

(* What a loop over the members of an object may return.                   *)
AnyOf(statuses) == IF statuses \subseteq {Ok} THEN {Ok} ELSE statuses \ {Ok}

IsKind(v, kinds) == v[1] \in kinds
IsNull(v) == v = <<"null">>
Field(v, name, Read(_)) ==
  Check(name \in DOMAIN v[2], "MissingField") ?? Read(v[2][name])
NullOr(v, Read(_)) == IF IsNull(v) THEN Ok ELSE Read(v)

ReadString(v) == Check(IsKind(v, {"string"}), "InvalidFieldType")
ReadName(v) == ReadString(v) ?? Check(v[2] \notin {""} \cup NulStrings, "InvalidValue")
ReadBool(v) == Check(IsKind(v, {"bool"}), "InvalidFieldType")
ReadInt(v) == Check(IsKind(v, {"int"}), "InvalidFieldType") ?? Check(v[2] <= IntMax, "DimensionOverflow")
ReadUnsigned(v) == Check(IsKind(v, {"int"}), "InvalidFieldType") ?? Check(v[2] >= 0, "InvalidValue")
ReadInts(v) ==
  Check(IsKind(v, {"array"}), "InvalidFieldType")
  ?? Check(Len(v[2]) \in 1..MaximumRank, "InvalidValue")
  ?? FirstFailure([i \in DOMAIN v[2] |-> ReadInt(v[2][i])])

FitsInt32(n) == -Int32Max - 1 <= n /\ n <= Int32Max
Integers32(v) == IsKind(v, {"int"}) /\ FitsInt32(v[2])
Contents(v) == [i \in DOMAIN v[2] |-> v[2][i][2]]

(* kDataTypes of Capability.cpp.                                           *)
StorageBits ==
  [FLOAT |-> 32, DOUBLE |-> 64, HALF |-> 16, INT8 |-> 8, INT32 |-> 32, INT8x4 |-> 32, UINT8 |-> 8,
   UINT8x4 |-> 32, INT8x32 |-> 256, BFLOAT16 |-> 16, INT64 |-> 64, BOOLEAN |-> 8, FP8_E4M3 |-> 8,
   FP8_E5M2 |-> 8, FAST_FLOAT_FOR_FP8 |-> 32, FP8_E8M0 |-> 8, FP4_E2M1 |-> 4, INT4 |-> 4,
   COMPLEX_FP32 |-> 64, COMPLEX_FP64 |-> 128]

ReadType(v) == ReadString(v) ?? Check(v[2] \in DOMAIN StorageBits, "UnsupportedDataType")
-----------------------------------------------------------------------------
(* parse_pass_by_value: the alternative of the Frontend's variant must be  *)
(* that of the tensor's type.  A number is kept as the number it is,       *)
(* written with a fraction or not.                                         *)
ScalarIndex == [INT64 |-> 0, INT32 |-> 1, HALF |-> 2, FLOAT |-> 3, DOUBLE |-> 4, BFLOAT16 |-> 5]

ReadScalarValue(v, type) ==
  CASE type \in {"INT64", "INT32"} ->
         ReadInt(v) ?? Check(type = "INT64" \/ FitsInt32(v[2]), "InvalidValue")
    [] type = "FLOAT" -> ReadString(v) ?? Check(v[2] \in HexWords, "InvalidValue")
    [] OTHER -> Check(IsKind(v, {"int", "float", "nonfinite"}), "InvalidFieldType")

ReadScalar(v, type) ==
  Check(IsKind(v, {"object"}), "InvalidFieldType")
  ?? Check(DOMAIN v[2] = {"index", "value"}, "InvalidValue")
  ?? ReadInt(v[2].index)
  ?? Check(type \in DOMAIN ScalarIndex /\ ScalarIndex[type] = v[2].index[2], "InvalidValue")
  ?? ReadScalarValue(v[2].value, type)

ScalarOf(v) == <<v[2].index[2], v[2].value[2]>>
-----------------------------------------------------------------------------
(* parse_tensor.                                                           *)
TensorFields ==
  {"name", "data_type", "dim", "stride", "is_virtual", "pass_by_value", "is_pass_by_value",
   "reordering_type", "uid", "uid_assigned", "ragged_offset_uid", "ragged_offset_name"}

ReadReordering(v) ==
  ReadString(v) ?? Check(v[2] \in {"NONE", "INT8x32", "F16x16", "F8_128x4"}, "InvalidValue")

(* check_tensor_element_size; 0 stands for a count that does not fit.      *)
ElementCount(dim) ==
  FoldLeft(LAMBDA count, d : IF count = 0 \/ count > IntMax \div d THEN 0 ELSE count * d, 1, dim)
CheckElementSize(dim, type) ==
  Check(ElementCount(dim) # 0, "DimensionOverflow")
  ?? Check(ElementCount(dim) <= (UIntMax - 7) \div StorageBits[type], "DimensionOverflow")

CheckExtents(dim, stride) ==
  FirstFailure([i \in DOMAIN dim |->
    Check(dim[i] > 0, "InvalidShape") ?? Check(stride[i] > 0, "InvalidLayout")])

Given(f, name) == name \in DOMAIN f /\ ~ IsNull(f[name])
OptionalField(f, name, Read(_)) == IF Given(f, name) THEN Read(f[name]) ELSE Ok

CheckRagged(f) ==
  OptionalField(f, "ragged_offset_uid", ReadInt)
  ?? OptionalField(f, "ragged_offset_name", ReadString)
  ?? Check(Given(f, "ragged_offset_uid") = Given(f, "ragged_offset_name"), "InvalidValue")

CheckPayload(f) ==
  Check("pass_by_value" \in DOMAIN f, "MissingField")
  ?? NullOr(f.pass_by_value, LAMBDA v : ReadScalar(v, f.data_type[2]))
  ?? Check(IsNull(f.pass_by_value) \/ f.is_pass_by_value[2], "InvalidValue")

CheckTensor(v) ==
  Check(IsKind(v, {"object"}), "InvalidFieldType")
  ?? Check(DOMAIN v[2] \subseteq TensorFields, "InvalidValue")
  ?? Field(v, "name", ReadName)
  ?? Field(v, "data_type", ReadType)
  ?? Field(v, "dim", ReadInts)
  ?? Field(v, "stride", ReadInts)
  ?? Check(Len(v[2].stride[2]) = Len(v[2].dim[2]), "InvalidValue")
  ?? Field(v, "is_virtual", ReadBool)
  ?? Field(v, "is_pass_by_value", ReadBool)
  ?? Field(v, "reordering_type", ReadReordering)
  ?? Check("uid_assigned" \in DOMAIN v[2], "MissingUid")
  ?? ReadBool(v[2].uid_assigned)
  ?? Check("uid" \in DOMAIN v[2], "MissingUid")
  ?? ReadInt(v[2].uid)
  ?? CheckPayload(v[2])
  ?? CheckRagged(v[2])
  ?? CheckExtents(Contents(v[2].dim), Contents(v[2].stride))
  ?? CheckElementSize(Contents(v[2].dim), v[2].data_type[2])

(* The descriptor; <<>> stands for an empty optional.                      *)
Optional(f, name) == IF Given(f, name) THEN <<f[name][2]>> ELSE <<>>
TensorOf(v) ==
  LET f == v[2]
  IN [name |-> f.name[2], data_type |-> f.data_type[2],
      dim |-> Contents(f.dim), stride |-> Contents(f.stride),
      is_virtual |-> f.is_virtual[2], is_pass_by_value |-> f.is_pass_by_value[2],
      pass_by_value |-> IF IsNull(f.pass_by_value) THEN <<>> ELSE ScalarOf(f.pass_by_value),
      reordering_type |-> f.reordering_type[2],
      ragged_offset_uid |-> Optional(f, "ragged_offset_uid"),
      ragged_offset_name |-> Optional(f, "ragged_offset_name"),
      uid |-> f.uid[2], uid_assigned |-> f.uid_assigned[2]]

(* TensorReference.                                                        *)
ByUid(uid) == <<"uid", uid>>
ByName(name) == <<"name", name>>
ReferenceTo(t) == IF t.uid_assigned THEN ByUid(t.uid) ELSE ByName(t.name)
-----------------------------------------------------------------------------
(* The schemas (Schema.cpp), of some of the 39 operations: one with a list *)
(* of tensors, with indexed inputs, with modes, and the convolutions.      *)
Schema(required, inputPorts, outputPorts) ==
  [required |-> required, inputPorts |-> inputPorts, outputPorts |-> outputPorts]
ConvolutionAttributes ==
  <<"compute_data_type", "pre_padding", "post_padding", "stride", "dilation", "math_mode">>

Schemas ==
  [BATCHNORM |->
     Schema(<<"compute_data_type", "peer_stats">>,
            {"X", "SCALE", "BIAS", "EPSILON", "PREV_RUNNING_MEAN", "PREV_RUNNING_VAR", "MOMENTUM"},
            {"Y", "MEAN", "INV_VARIANCE", "NEXT_RUNNING_MEAN", "NEXT_RUNNING_VAR"}),
   CONCATENATE |-> Schema(<<"axis", "in_place_index">>, {}, {"Y"}),
   CONV_FPROP |-> Schema(ConvolutionAttributes, {"X", "W"}, {"Y"}),
   POINTWISE |->
     Schema(<<"compute_data_type", "mode", "axis", "relu_lower_clip", "relu_upper_clip",
              "relu_lower_clip_slope", "swish_beta", "elu_alpha", "softplus_beta">>,
            {"IN_0", "IN_1", "IN_2"}, {"OUT_0"}),
   REDUCTION |-> Schema(<<"compute_data_type", "mode", "is_deterministic">>, {"X"}, {"Y"})]

AllowsIndexed(tag) == tag = "CONCATENATE"

(* Three of the fifty modes of POINTWISE, one for each count of operands.  *)
PointwiseInputs == [RELU_FWD |-> 1, ADD |-> 2, BINARY_SELECT |-> 3]
ReductionModes == {"ADD", "MUL", "MIN", "MAX", "AMAX", "AVG", "NORM1", "NORM2", "MUL_NO_ZEROS"}

(* validate_attribute, of the attributes of these schemas.                 *)
Attribute(v, tag, name) ==
  CASE name = "compute_data_type" -> NullOr(v, ReadType) = Ok
    [] name = "mode" ->
         /\ IsKind(v, {"string"})
         /\ v[2] \in IF tag = "POINTWISE" THEN DOMAIN PointwiseInputs ELSE ReductionModes
    [] name = "math_mode" -> IsKind(v, {"string"}) /\ v[2] \in {"CONVOLUTION", "CROSS_CORRELATION"}
    [] name \in {"pre_padding", "post_padding", "stride", "dilation"} ->
         IsKind(v, {"array"}) /\ \A i \in DOMAIN v[2] : IsKind(v[2][i], {"int"})
    [] name = "peer_stats" -> IsKind(v, {"array"})
    [] name = "is_deterministic" -> IsKind(v, {"bool"})
    [] name \in {"axis", "in_place_index"} -> IsKind(v, {"null", "int"})
    [] OTHER -> IsKind(v, {"null", "int", "float", "nonfinite"})

(* parse_serialized_value: whether a value has a canonical form.           *)
RECURSIVE Serializable(_, _)
Serializable(v, depth) ==
  /\ depth <= MaximumDepth
  /\ ~ IsKind(v, {"nonfinite"})
  /\ IsKind(v, {"string"}) => v[2] \notin NulStrings
  /\ IsKind(v, {"object"}) => DOMAIN v[2] \cap NulStrings = {}
  /\ IsKind(v, {"array", "object"}) => \A i \in DOMAIN v[2] : Serializable(v[2][i], depth + 1)

CheckAttribute(v, tag, name) ==
  Check(Attribute(v, tag, name), "InvalidFieldType") ?? Check(Serializable(v, 0), "InvalidValue")
-----------------------------------------------------------------------------
(* read_document up to the tensors.                                        *)
ContextTypes == {"compute_data_type", "intermediate_data_type", "io_data_type"}
ContextFields ==
  ContextTypes \cup {"name", "sm_count", "is_dynamic_shape_enabled", "is_override_shape_enabled"}

CheckContext(v) ==
  Check(IsKind(v, {"object"}), "InvalidFieldType")
  ?? Check(ContextFields \subseteq DOMAIN v[2], "MissingField")
  ?? Check(DOMAIN v[2] \subseteq ContextFields, "InvalidValue")
  ?? NullOr(v[2].name, LAMBDA s : ReadString(s) ?? Check(s[2] \notin NulStrings, "InvalidValue"))
  ?? NullOr(v[2].compute_data_type, ReadType)
  ?? NullOr(v[2].intermediate_data_type, ReadType)
  ?? NullOr(v[2].io_data_type, ReadType)
  ?? NullOr(v[2].sm_count, LAMBDA n : ReadInt(n) ?? Check(FitsInt32(n[2]), "InvalidValue"))
  ?? NullOr(v[2].is_dynamic_shape_enabled, ReadBool)
  ?? NullOr(v[2].is_override_shape_enabled, ReadBool)

(* A root field of execution metadata may be there if it is empty.         *)
CheckEmpty(f, name, kinds) ==
  IF name \notin DOMAIN f THEN Ok
  ELSE Check(IsKind(f[name], kinds), "InvalidFieldType")
       ?? Check(DOMAIN f[name][2] = {}, "UnsupportedExecutionMetadata")

(* resolve_node_schema.                                                    *)
CheckTag(v) ==
  Check(IsKind(v, {"object"}), "InvalidFieldType")
  ?? Field(v, "tag", ReadString)
  ?? Check(v[2].tag[2] \in DOMAIN Schemas, "UnsupportedNode")

CheckNodes(v) ==
  Check(IsKind(v, {"array"}), "InvalidFieldType")
  ?? Check(v[2] # <<>>, "InvalidValue")
  ?? FirstFailure([i \in DOMAIN v[2] |-> CheckTag(v[2][i])])

CheckRoot(v) ==
  Check(IsKind(v, {"object"}), "InvalidFieldType")
  ?? Field(v, "json_version", ReadString)
  ?? Check(v[2].json_version[2] = "1.0", "SchemaVersionMismatch")
  ?? Field(v, "cudnn_backend_version", LAMBDA s :
       ReadString(s) ?? Check(s[2] \notin NulStrings, "InvalidValue"))
  ?? Field(v, "cudnn_frontend_version", ReadInt)
  ?? Check(v[2].cudnn_frontend_version[2] = 12400, "FrontendVersionMismatch")
  ?? Field(v, "graph_uid", ReadUnsigned)
  ?? Field(v, "context", CheckContext)
  ?? CheckEmpty(v[2], "workspace_modifications", {"object"})
  ?? CheckEmpty(v[2], "variant_pack_replacements", {"object", "array"})
  ?? Field(v, "nodes", CheckNodes)
  ?? Check("tensors" \in DOMAIN v[2], "MissingField")
  ?? Check(IsKind(v[2].tensors, {"object"}), "InvalidFieldType")
-----------------------------------------------------------------------------
Root == document[2]
Written == Root.tensors[2]
Members == Root.nodes[2]

(* parse_tensors: the key of a tensor is its uid in decimal, or its name.  *)
CheckKey(key, t) ==
  IF t.uid_assigned THEN Check(key = ToString(t.uid), "InvalidValue")
  ELSE Check(key = t.name, "InvalidValue")

TableCodes ==
  AnyOf({CheckTensor(Written[key]) ?? CheckKey(key, TensorOf(Written[key])) : key \in DOMAIN Written})

Table ==
  LET all == {TensorOf(Written[key]) : key \in DOMAIN Written}
  IN [r \in {ReferenceTo(t) : t \in all} |-> CHOOSE t \in all : ReferenceTo(t) = r]

(* validate_pass_by_values, of the tensors in the table.                   *)
Embedded(ts) == {r \in DOMAIN ts : ts[r].pass_by_value # <<>>}
Spelled(key) == {n \in Numerals : ToString(n) = key}
Uid(key) == CHOOSE n \in Numerals : ToString(n) = key

CheckScalarEntry(v, key, ts) ==
  Check(Spelled(key) # {}, "InvalidValue")
  ?? Check(ByUid(Uid(key)) \in DOMAIN ts, "MissingUid")
  ?? Check(ByUid(Uid(key)) \in Embedded(ts), "InvalidValue")
  ?? ReadScalar(v, ts[ByUid(Uid(key))].data_type)
  ?? Check(ScalarOf(v) = ts[ByUid(Uid(key))].pass_by_value, "InvalidValue")

ListedScalars == IF "pass_by_values" \in DOMAIN Root THEN DOMAIN Root.pass_by_values[2] ELSE {}
Listed(r, ts) == ts[r].uid_assigned /\ ToString(ts[r].uid) \in ListedScalars

ScalarCodes(ts) ==
  IF \E r \in Embedded(ts) : ~ ts[r].uid_assigned THEN {"MissingUid"}
  ELSE IF "pass_by_values" \notin DOMAIN Root
  THEN {Check(Embedded(ts) = {}, "MissingField")}
  ELSE IF ~ IsKind(Root.pass_by_values, {"object"}) THEN {"InvalidFieldType"}
  ELSE LET entries == {CheckScalarEntry(Root.pass_by_values[2][key], key, ts) : key \in ListedScalars}
       IN IF AnyOf(entries) # {Ok} THEN AnyOf(entries)
          ELSE {Check(\A r \in Embedded(ts) : Listed(r, ts), "MissingField")}
-----------------------------------------------------------------------------
(* parse_node.                                                             *)
CommonFields == {"tag", "name", "inputs", "outputs"}

(* validate_node_fields.                                                   *)
CheckNodeFields(f, schema) ==
  Check(CommonFields \cup Range(schema.required) \subseteq DOMAIN f, "MissingField")
  ?? Check(DOMAIN f \subseteq CommonFields \cup Range(schema.required), "InvalidValue")

(* parse_ports and read_tensor_reference.                                  *)
ReadReference(v) == IF IsKind(v, {"string"}) THEN ReadName(v) ELSE ReadInt(v)
ReferenceOf(v) == IF IsKind(v, {"string"}) THEN ByName(v[2]) ELSE ByUid(v[2])
IsIndex(port) == \E n \in Numerals : n >= 0 /\ ToString(n) = port

PortCodes(v, ports, indexed) ==
  IF ~ IsKind(v, {"object"}) THEN {"InvalidFieldType"}
  ELSE AnyOf({Check(IF indexed THEN IsIndex(port) ELSE port \in ports, "InvalidValue")
              ?? ReadReference(v[2][port]) : port \in DOMAIN v[2]})
PortsOf(v) == [port \in DOMAIN v[2] |-> ReferenceOf(v[2][port])]

(* parse_embedded_tensor_list: the tensors of a node's list are merged     *)
(* into the table one by one.                                              *)
Merge(ts, list) == FoldLeft(LAMBDA table, v : table @@ (ReferenceTo(TensorOf(v)) :> TensorOf(v)), ts, list)

(* Fault: the tensor that came first is taken without a look at the other. *)
NoConflict(ts, t) == Ok

Conflict(ts, t) ==
  Check(ReferenceTo(t) \in DOMAIN ts => ts[ReferenceTo(t)] = t,
        IF t.uid_assigned THEN "DuplicateUid" ELSE "InvalidValue")

CheckEmbedded(ts, list) ==
  FirstFailure([i \in DOMAIN list |->
    IF \E j \in 1..(i - 1) : CheckTensor(list[j]) # Ok THEN Ok
    ELSE CheckTensor(list[i]) ?? Conflict(Merge(ts, SubSeq(list, 1, i - 1)), TensorOf(list[i]))])

PeerStats(f) == IF "peer_stats" \in DOMAIN f THEN f.peer_stats[2] ELSE <<>>

(* The counts of ports, by operation.                                      *)
CheckArity(f) ==
  LET tag == f.tag[2]
      inputs == DOMAIN f.inputs[2]
      outputs == DOMAIN f.outputs[2]
      operands == PointwiseInputs[f.mode[2]]
  IN Check(outputs # {}, "InvalidValue")
     ?? Check(tag = "POINTWISE" =>
                inputs = {"IN_" \o ToString(i) : i \in 0..(operands - 1)} /\ outputs = {"OUT_0"},
              "InvalidValue")
     ?? Check(tag = "REDUCTION" => inputs = {"X"} /\ outputs = {"Y"}, "InvalidValue")
     ?? Check(AllowsIndexed(tag) =>
                inputs # {} /\ inputs = {ToString(i) : i \in 0..(Cardinality(inputs) - 1)},
              "InvalidValue")

(* parse_generic_node; peer_stats is the last attribute of its schemas.    *)
GenericCodes(f, schema) ==
  LET tag == f.tag[2]
      inputs == PortCodes(f.inputs, schema.inputPorts, AllowsIndexed(tag))
      outputs == PortCodes(f.outputs, schema.outputPorts, FALSE)
  IN IF inputs # {Ok} THEN inputs
     ELSE IF outputs # {Ok} THEN outputs
     ELSE {FirstFailure([i \in DOMAIN schema.required |->
             CheckAttribute(f[schema.required[i]], tag, schema.required[i])])
           ?? CheckEmbedded(tensors, PeerStats(f))
           ?? CheckArity(f)}

(* What makes a CONV_FPROP the convolution that is compiled on its own.    *)
IsPair(v) == IsKind(v, {"array"}) /\ Len(v[2]) = 2 /\ \A i \in 1..2 : IsKind(v[2][i], {"int"})
Pairs == <<"pre_padding", "post_padding", "stride", "dilation">>

LooksPlain(f) ==
  /\ f.tag[2] = "CONV_FPROP"
  /\ f.compute_data_type = <<"string", "FLOAT">>
  /\ DOMAIN f.inputs[2] = {"X", "W"}
  /\ DOMAIN f.outputs[2] = {"Y"}
  /\ \A v \in {f.inputs[2].X, f.inputs[2].W, f.outputs[2].Y} : ~ IsKind(v, {"string"})
  /\ \A i \in DOMAIN Pairs : IsPair(f[Pairs[i]])
  /\ f.math_mode[2] = "CROSS_CORRELATION"

CheckPairs(f) ==
  IF LooksPlain(f) THEN FirstFailure([i \in DOMAIN Pairs |-> ReadInts(f[Pairs[i]])]) ELSE Ok

IsPlain(f) ==
  /\ LooksPlain(f)
  /\ \A axis \in 1..2 :
       /\ Contents(f.pre_padding)[axis] >= 0
       /\ Contents(f.post_padding)[axis] >= 0
       /\ Contents(f.stride)[axis] = 1
       /\ Contents(f.dilation)[axis] = 1
  /\ Cardinality({f.inputs[2].X[2], f.inputs[2].W[2], f.outputs[2].Y[2]}) = 3

NodeCodes(v) ==
  LET f == v[2]
      schema == Schemas[f.tag[2]]
      fields == CheckNodeFields(f, schema) ?? ReadName(f.name)
      generic == GenericCodes(f, schema)
  IN IF fields # Ok THEN {fields}
     ELSE IF generic # {Ok} THEN generic
     ELSE {CheckPairs(f)}

NodeOf(f) ==
  [tag |-> f.tag[2], plain |-> IsPlain(f),
   inputs |-> PortsOf(f.inputs), outputs |-> PortsOf(f.outputs),
   lists |-> [i \in DOMAIN PeerStats(f) |-> ReferenceTo(TensorOf(PeerStats(f)[i]))],
   attributes |-> [name \in Range(Schemas[f.tag[2]].required) |-> f[name]]]
-----------------------------------------------------------------------------
(* validate_graph_references, over references by uid and by name.          *)
Reads(n) == Range(n.inputs) \cup Range(n.lists)
Produced(n) == UNION {Range(nodes[i].outputs) : i \in 1..n}

NodeFaults(n) ==
  LET reads == Reads(nodes[n])
      outputs == nodes[n].outputs
  IN {c \in {"MissingUid", "InvalidValue"} :
        \/ c = "MissingUid" /\ ~ (reads \cup Range(outputs) \subseteq DOMAIN tensors)
        \/ /\ c = "InvalidValue"
           /\ \/ \E r \in reads \cap DOMAIN tensors : tensors[r].is_virtual /\ r \notin Produced(n - 1)
              \/ Range(outputs) \cap Produced(n - 1) # {}
              \/ \E p, q \in DOMAIN outputs : p # q /\ outputs[p] = outputs[q]}

ReferenceCodes ==
  LET faulty == {n \in DOMAIN nodes : NodeFaults(n) # {}}
  IN IF faulty # {} THEN NodeFaults(CHOOSE n \in faulty : \A m \in faulty : n <= m)
     ELSE {Check(\A r \in DOMAIN tensors : tensors[r].is_virtual => r \in Produced(Len(nodes)),
                 "InvalidValue")}
-----------------------------------------------------------------------------
(* The convolution that is compiled on its own: single_conv_fprop, its     *)
(* context, validate_shapes and validate_conv_metadata.                    *)
SingleConvolution(parsed) == Len(parsed) = 1 /\ parsed[1].plain

CheckStatic(f) ==
  Check(\A name \in {"is_dynamic_shape_enabled", "is_override_shape_enabled"} :
          IsNull(f[name]) \/ ~ f[name][2], "UnsupportedExecutionMetadata")
  ?? Check(\A name \in ContextTypes : IsNull(f[name]) \/ f[name][2] = "FLOAT", "UnsupportedDataType")

CheckOperand(t) ==
  Check(t.data_type = "FLOAT", "UnsupportedDataType")
  ?? Check(Len(t.dim) = 4, "InvalidShape")
  ?? Check(~ t.is_virtual, "InvalidValue")
  ?? Check(~ t.is_pass_by_value, "UnsupportedExecutionMetadata")
  ?? Check(t.reordering_type = "NONE", "InvalidLayout")
  ?? Check(t.ragged_offset_uid = <<>>, "InvalidLayout")

(* Fault: the rows of an image are as far apart as its columns are long.   *)
PackedByHeight(dim) == <<dim[2] * dim[3] * dim[4], 1, dim[3] * dim[2], dim[2]>>

(* expected_packed_stride: NHWC and KRSC.  The products fit, because the   *)
(* tensor's element count does.                                            *)
PackedStride(dim) == <<dim[2] * dim[3] * dim[4], 1, dim[4] * dim[2], dim[2]>>

(* checked_output_extent.                                                  *)
CheckExtent(image, pre, post, filter) ==
  Check(image + pre + post <= IntMax, "DimensionOverflow")
  ?? Check(image + pre + post >= filter, "InvalidShape")
OutputExtent(image, pre, post, filter) == image + pre + post - filter + 1

CheckShapes(x, w, y, pre, post) ==
  FirstFailure(<<CheckOperand(x), CheckOperand(w), CheckOperand(y)>>)
  ?? Check(x.dim[2] = w.dim[2], "InvalidShape")
  ?? Check(y.dim[1] = x.dim[1] /\ y.dim[2] = w.dim[1], "InvalidShape")
  ?? CheckExtent(x.dim[3], pre[1], post[1], w.dim[3])
  ?? CheckExtent(x.dim[4], pre[2], post[2], w.dim[4])
  ?? Check(\A axis \in 1..2 :
             y.dim[axis + 2] = OutputExtent(x.dim[axis + 2], pre[axis], post[axis], w.dim[axis + 2]),
           "InvalidShape")
  ?? Check(\A t \in {x, w, y} : t.stride = PackedStride(t.dim), "InvalidLayout")

(* validate_variant_pack_uids.                                             *)
CheckVariantPack(v, uids) ==
  Check(IsKind(v, {"array"}), "InvalidFieldType")
  ?? FirstFailure([i \in DOMAIN v[2] |->
       ReadInt(v[2][i]) ?? Check(\A j \in 1..(i - 1) : v[2][j] # v[2][i], "DuplicateUid")])
  ?? Check({v[2][i][2] : i \in DOMAIN v[2]} = uids, "InvalidValue")

CheckMetadata(f, uids) ==
  (IF "fe_workspace_size" \notin DOMAIN f THEN Ok
   ELSE ReadInt(f.fe_workspace_size)
        ?? Check(f.fe_workspace_size[2] = 0, "UnsupportedExecutionMetadata"))
  ?? IF "variant_pack_uids" \notin DOMAIN f THEN Ok ELSE CheckVariantPack(f.variant_pack_uids, uids)

CheckConvolution(n) ==
  LET X == n.inputs.X
      W == n.inputs.W
      Y == n.outputs.Y
      pre == Contents(n.attributes.pre_padding)
      post == Contents(n.attributes.post_padding)
  IN CheckStatic(Root.context[2])
     ?? Check(Cardinality(DOMAIN tensors) = 3, "InvalidValue")
     ?? CheckShapes(tensors[X], tensors[W], tensors[Y], pre, post)
     ?? CheckMetadata(Root, {X[2], W[2], Y[2]})
-----------------------------------------------------------------------------
(* parse_file, up to the call of parse: the size the file system claims    *)
(* may be unknown, and need not be the length of what is read.             *)
CheckFile ==
  Check(input.path # "", "InvalidArgument")
  ?? Check(input.opens, "IoError")
  ?? Check(input.claims # <<>> => input.claims[1] <= MaximumBytes, "InvalidArgument")
  ?? Check(input.length <= MaximumBytes, "InvalidArgument")
  ?? Check(~ input.breaks, "IoError")
  ?? Check(input.length > 0, "InvalidArgument")

(* Return with a status that is not good.                                  *)
Refuse(codes) ==
  /\ code' \in codes \ {Ok}
  /\ phase' = "done"
  /\ UNCHANGED <<input, document, node, tensors, nodes, output>>

Pass(next) == phase' = next /\ UNCHANGED <<input, node, code, output>>

ReadFile ==
  /\ phase = "file"
  /\ IF CheckFile = Ok THEN Pass("carrier") /\ UNCHANGED <<document, tensors, nodes>>
     ELSE Refuse({CheckFile})

(* parse: JSON first, and UBJSON only if the input is no JSON.             *)
IsJson == input.format \in {"json", "auto"} /\ input.json # <<>>
IsUbjson == input.format \in {"ubjson", "auto"} /\ input.ubjson # <<>> /\ input.canonical

DecodeJson ==
  /\ phase = "carrier"
  /\ IsJson
  /\ document' = input.json[1]
  /\ Pass("root") /\ UNCHANGED <<tensors, nodes>>

DecodeUbjson ==
  /\ phase = "carrier"
  /\ ~ IsJson
  /\ IsUbjson
  /\ document' = input.ubjson[1]
  /\ Pass("root") /\ UNCHANGED <<tensors, nodes>>

RefuseCarrier ==
  /\ phase = "carrier"
  /\ ~ IsJson
  /\ ~ IsUbjson
  /\ Refuse({IF input.format \in {"json", "ubjson", "auto"} THEN "ParseError" ELSE "InvalidArgument"})

ReadRoot ==
  /\ phase = "root"
  /\ IF CheckRoot(document) = Ok THEN Pass("tensors") /\ UNCHANGED <<document, tensors, nodes>>
     ELSE Refuse({CheckRoot(document)})

ReadTensors ==
  /\ phase = "tensors"
  /\ IF TableCodes = {Ok}
     THEN /\ tensors' = Table
          /\ Pass("scalars") /\ UNCHANGED <<document, nodes>>
     ELSE Refuse(TableCodes)

ReadScalars ==
  /\ phase = "scalars"
  /\ IF ScalarCodes(tensors) = {Ok} THEN Pass("nodes") /\ UNCHANGED <<document, tensors, nodes>>
     ELSE Refuse(ScalarCodes(tensors))

ParseNode ==
  /\ phase = "nodes"
  /\ node <= Len(Members)
  /\ IF NodeCodes(Members[node]) = {Ok}
     THEN /\ nodes' = Append(nodes, NodeOf(Members[node][2]))
          /\ tensors' = Merge(tensors, PeerStats(Members[node][2]))
          /\ node' = node + 1
          /\ UNCHANGED <<input, phase, document, code, output>>
     ELSE Refuse(NodeCodes(Members[node]))

CheckReferences ==
  /\ phase = "nodes"
  /\ node > Len(Members)
  /\ IF ReferenceCodes = {Ok} THEN Pass("convolution") /\ UNCHANGED <<document, tensors, nodes>>
     ELSE Refuse(ReferenceCodes)

Finish ==
  /\ phase = "convolution"
  /\ LET checked == IF SingleConvolution(nodes) THEN CheckConvolution(nodes[1]) ELSE Ok
     IN IF checked = Ok
        THEN /\ phase' = "done"
             /\ output' = [tensors |-> tensors, nodes |-> nodes]
             /\ UNCHANGED <<input, document, node, tensors, nodes, code>>
        ELSE Refuse({checked})

Begin(given) ==
  /\ input = given
  /\ phase = "file"
  /\ document = <<"null">>
  /\ node = 1
  /\ tensors = <<>>
  /\ nodes = <<>>
  /\ code = Ok
  /\ output = <<>>

Init == \E given \in Inputs : Begin(given)

Next ==
  \/ ReadFile
  \/ DecodeJson \/ DecodeUbjson \/ RefuseCarrier
  \/ ReadRoot \/ ReadTensors \/ ReadScalars
  \/ ParseNode \/ CheckReferences \/ Finish

Spec == Init /\ [][Next]_vars
-----------------------------------------------------------------------------
Accepted == phase = "done" /\ code = Ok

(* Every description of a tensor that the document holds, in its table and *)
(* in the lists of its nodes.                                              *)
Descriptions ==
  {Written[key] : key \in DOMAIN Written}
    \cup UNION {Range(PeerStats(Members[n][2])) : n \in DOMAIN Members}

(* An accepted graph is its document: descriptions that share a uid or a   *)
(* name agree wherever they are written, each tensor of the graph has one  *)
(* and none is lost, and each virtual tensor has one producer, before its  *)
(* consumers (parse_tensors, merge_embedded_tensor,                        *)
(* validate_graph_references).                                             *)
AcceptedHoldsDocument ==
  Accepted =>
    LET ts == output.tensors
        Uses(n) == Reads(output.nodes[n])
        Producers(r) == {n \in DOMAIN output.nodes : r \in Range(output.nodes[n].outputs)}
    IN /\ Range(ts) = {TensorOf(v) : v \in Descriptions}
       /\ \A r \in DOMAIN ts : ReferenceTo(ts[r]) = r
       /\ \A r \in DOMAIN ts : Cardinality(Producers(r)) \in (IF ts[r].is_virtual THEN {1} ELSE {0, 1})
       /\ \A n \in DOMAIN output.nodes : \A r \in Uses(n) :
            r \in DOMAIN ts /\ (ts[r].is_virtual => \A p \in Producers(r) : p < n)

(* The bytes that a tensor of rank four reaches, in elements.              *)
Slots(t) ==
  {i * t.stride[1] + j * t.stride[2] + k * t.stride[3] + l * t.stride[4] :
     i \in 0..(t.dim[1] - 1), j \in 0..(t.dim[2] - 1), k \in 0..(t.dim[3] - 1), l \in 0..(t.dim[4] - 1)}

Positions(image, pre, post, filter) ==
  {p \in 0..(image + pre + post) : p + filter <= image + pre + post}

(* An accepted convolution of its own is what the convolution path takes   *)
(* for granted (Conv2DImporter.cpp): X, W and Y are the graph's tensors,   *)
(* Y has an element for each position of the filter in the padded image,   *)
(* and the elements of each tensor fill its bytes, channels innermost      *)
(* (validate_shapes).                                                      *)
ConvolutionIsLowerable ==
  Accepted /\ SingleConvolution(output.nodes) =>
    LET n == output.nodes[1]
        x == output.tensors[n.inputs.X]
        w == output.tensors[n.inputs.W]
        y == output.tensors[n.outputs.Y]
        Side(axis) == Positions(x.dim[axis + 2], Contents(n.attributes.pre_padding)[axis],
                                Contents(n.attributes.post_padding)[axis], w.dim[axis + 2])
    IN /\ Range(output.tensors) = {x, w, y}
       /\ <<y.dim[1], y.dim[2], x.dim[2]>> = <<x.dim[1], w.dim[1], w.dim[2]>>
       /\ \A axis \in 1..2 : Cardinality(Side(axis)) = y.dim[axis + 2]
       /\ \A t \in {x, w, y} : t.stride[2] = 1 /\ Slots(t) = 0..(ElementCount(t.dim) - 1)

(* What docs/design/contracts.en.md says of pass_by_values: one scalar for *)
(* each payload of a tensor.  A payload that enters the graph with a       *)
(* node's list comes after validate_pass_by_values.                        *)
PayloadsAreListed ==
  Accepted => \A r \in Embedded(output.tensors) : Listed(r, output.tensors)
=============================================================================
