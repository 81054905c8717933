--------------------------- MODULE AttentionDecode ---------------------------
(***************************************************************************)
(* Which SDPA and SDPA_BWD nodes lib/Compiler/SequenceGraph.cpp accepts,   *)
(* with what FoundationalGraph.cpp asks of ragged tensors.                 *)
(*                                                                         *)
(* A case c is one node with the call that runs it.  The node: [tag,       *)
(* ports, tensors, padding, bottomRight, left, right, alibi, scaleValue,   *)
(* probability, generateStats, maxKv, maxTotal]; ports gives the uid of    *)
(* each port and tensors the descriptor [type, dims, strides, ragged,      *)
(* plain] of each uid, plain when it is external and not reordered, nor    *)
(* passed by value.  Attributes that may be null are sets of at most one   *)
(* integer, as is ragged, the uid of the prefix.                           *)
(***************************************************************************)
EXTENDS TensorLayout

CONSTANT Tile   (* queries, and keys, under one bit of a block mask: 128   *)

Backward(c) == c.tag = "SDPA_BWD"
Has(c, port) == port \in DOMAIN c.ports
Tensor(c, port) == c.tensors[c.ports[port]]
Dims(c, port) == Tensor(c, port).dims
IsRagged(c, port) == Has(c, port) /\ Tensor(c, port).ragged # {}

Outputs(c) ==
  DOMAIN c.ports \cap
    IF Backward(c) THEN {"dQ", "dK", "dV", "dBias", "DSINK_TOKEN"}
    ELSE {"O", "Stats", "Max", "Sum_exp", "RNG_DUMP"}
Inputs(c) == DOMAIN c.ports \ Outputs(c)

(***************************************************************************)
(* Ports and their tensors.                                                *)
(***************************************************************************)
Required(c) ==
  {"Q", "K", "V", "O"} \cup
  IF Backward(c) THEN {"dO", "Stats", "dQ", "dK", "dV"} ELSE {}

(* Ports of FP8 attention and, backward, of pages that SDPA_BWD lacks.     *)
Forbidden(c) ==
  IF Backward(c) THEN {"Page_table_K", "Page_table_V"}
  ELSE {"Descale_Q", "Descale_K", "Descale_V", "Descale_S", "Scale_S", "Scale_O",
        "Amax_S", "Amax_O"}

PortType(port) ==
  CASE port \in {"SEQ_LEN_Q", "SEQ_LEN_KV", "Page_table_K", "Page_table_V"} -> "INT32"
    [] port = "Block_mask" -> "UINT8"
    [] port \in {"Seed", "Offset"} -> "INT64"
    [] OTHER -> "FLOAT"

HasPorts(c) ==
  /\ Required(c) \subseteq DOMAIN c.ports
  /\ DOMAIN c.ports \cap Forbidden(c) = {}
  /\ \A port \in DOMAIN c.ports :
       /\ c.ports[port] \in DOMAIN c.tensors
       /\ Tensor(c, port).type = PortType(port)
  /\ \A in \in Inputs(c), out \in Outputs(c) : c.ports[in] # c.ports[out]

(* Plain tensors may not overlap themselves, ragged ones not within a      *)
(* batch; a prefix is a tensor of its own.                                 *)
HasLayouts(c) ==
  \A uid \in DOMAIN c.tensors :
    LET t == c.tensors[uid]
    IN /\ t.dims # <<>> /\ t.dims[1] > 0
       /\ IF t.ragged = {} THEN NonOverlapping(t.dims, t.strides)
          ELSE NonOverlapping(Tail(t.dims), Tail(t.strides))
       /\ \A prefix \in t.ragged :
            /\ prefix \in DOMAIN c.tensors \ {uid}
            /\ c.tensors[prefix].plain /\ c.tensors[prefix].ragged = {}
            /\ c.tensors[prefix].type \in {"INT32", "INT64"}

UnitEmbedding(c, port) ==
  Len(Dims(c, port)) = 4 /\ Tensor(c, port).strides[4] = 1

Batches(c) == Dims(c, "Q")[1]
QueryHeads(c) == Dims(c, "Q")[2]
QueryExtent(c) == Dims(c, "Q")[3]

(***************************************************************************)
(* Paged keys and values.  The logical extent of the keys comes from the   *)
(* first of these that is there.                                           *)
(***************************************************************************)
TableOf(port) == IF port = "K" THEN "Page_table_K" ELSE "Page_table_V"
IsPaged(c, port) == Has(c, TableOf(port))
BlockSize(c, port) == Dims(c, port)[3]

TableFits(c, port) ==
  LET table == Tensor(c, TableOf(port))
  IN /\ Len(table.dims) = 4
     /\ table.dims[1] = Batches(c) /\ table.dims[2] = 1 /\ table.dims[4] = 1
     /\ table.plain
     /\ table.dims[3] <= MaxI64 \div BlockSize(c, port)

Capacity(c, port) ==
  IF IsPaged(c, port) THEN Dims(c, TableOf(port))[3] * BlockSize(c, port)
  ELSE Dims(c, port)[3]

LastExtent(c, port) ==
  {Dims(c, p)[4] : p \in {q \in {port} : Has(c, q) /\ Len(Dims(c, q)) = 4}}

MaxKeyExtent(c) == IF Backward(c) THEN {} ELSE c.maxKv

KeyExtentSources(c) ==
  <<MaxKeyExtent(c),
    IF IsPaged(c, "K") THEN {} ELSE {Dims(c, "K")[3]},
    IF IsPaged(c, "V") THEN {} ELSE {Dims(c, "V")[3]},
    LastExtent(c, "Bias"),
    LastExtent(c, "RNG_DUMP"),
    {IF Capacity(c, "K") < Capacity(c, "V") THEN Capacity(c, "K") ELSE Capacity(c, "V")}>>

KeyExtent(c) ==
  LET sources == KeyExtentSources(c)
  IN CHOOSE n \in sources[CHOOSE i \in 1..6 : /\ sources[i] # {}
                                              /\ \A k \in 1..(i - 1) : sources[k] = {}] : TRUE

BothPaged(c) == IsPaged(c, "K") /\ IsPaged(c, "V")
AnyPaged(c) == IsPaged(c, "K") \/ IsPaged(c, "V")

ExtentInferable(c) ==
  /\ \A n \in MaxKeyExtent(c) : n > 0 /\ AnyPaged(c)
  /\ BothPaged(c) /\ MaxKeyExtent(c) = {} =>
       IF Has(c, "Bias") THEN Len(Dims(c, "Bias")) = 4
       ELSE Has(c, "RNG_DUMP") => Len(Dims(c, "RNG_DUMP")) = 4

HoldsKeys(c, port) ==
  IF IsPaged(c, port) THEN Capacity(c, port) >= KeyExtent(c) /\ ~ IsRagged(c, port)
  ELSE Dims(c, port)[1] = Batches(c) /\ Dims(c, port)[3] = KeyExtent(c)

(***************************************************************************)
(* Shapes.                                                                 *)
(***************************************************************************)
ScoreDims(c) == <<Batches(c), QueryHeads(c), QueryExtent(c), KeyExtent(c)>>
RowDims(c) == <<Batches(c), QueryHeads(c), QueryExtent(c), 1>>
OutputDims(c) == <<Batches(c), QueryHeads(c), QueryExtent(c), Dims(c, "V")[4]>>

HasShapes(c) ==
  /\ \A port \in {"Q", "K", "V"} : UnitEmbedding(c, port)
  /\ \A port \in {"K", "V"} : IsPaged(c, port) => TableFits(c, port)
  /\ ExtentInferable(c)
  /\ Dims(c, "K")[4] = Dims(c, "Q")[4]
  /\ \A port \in {"K", "V"} :
       QueryHeads(c) % Dims(c, port)[2] = 0 /\ HoldsKeys(c, port)
  /\ \A port \in {"O", "dO"} \cap DOMAIN c.ports :
       Dims(c, port) = OutputDims(c) /\ Tensor(c, port).strides[4] = 1
  /\ Backward(c) =>
       \A p \in {<<"dQ", "Q">>, <<"dK", "K">>, <<"dV", "V">>} :
         Dims(c, p[1]) = Dims(c, p[2]) /\ Tensor(c, p[1]).strides[4] = 1
  /\ \A port \in {"Stats", "Max", "Sum_exp"} \cap DOMAIN c.ports : Dims(c, port) = RowDims(c)
  /\ Has(c, "RNG_DUMP") => Dims(c, "RNG_DUMP") = ScoreDims(c)
  /\ ~ Backward(c) => (c.generateStats <=> Has(c, "Stats"))

BroadcastCompatible(dims, output) ==
  LET offset == Len(output) - Len(dims)
  IN /\ offset >= 0
     /\ \A a \in Axes(dims) : dims[a] \in {1, output[offset + a]}

IsScalar(c, port) == ElementCount(Dims(c, port)) = 1

SinkFits(c, port) ==
  /\ Dims(c, port) = <<1, QueryHeads(c), 1, 1>>
  /\ Tensor(c, port).plain /\ ~ IsRagged(c, port)

BlockMaskFits(c) ==
  LET Tiles(extent) == (extent - 1) \div Tile + 1
  IN /\ Dims(c, "Block_mask") =
          <<Batches(c), QueryHeads(c), Tiles(QueryExtent(c)), (Tiles(KeyExtent(c)) + 7) \div 8>>
     /\ Tensor(c, "Block_mask").plain /\ ~ IsRagged(c, "Block_mask")

HasScoreInputs(c) ==
  /\ \A port \in {"SINK_TOKEN", "DSINK_TOKEN"} \cap DOMAIN c.ports : SinkFits(c, port)
  /\ Has(c, "DSINK_TOKEN") => Has(c, "SINK_TOKEN")
  /\ Has(c, "Block_mask") => ~ Backward(c) /\ BlockMaskFits(c)
  /\ Has(c, "Bias") => BroadcastCompatible(Dims(c, "Bias"), ScoreDims(c))
  /\ Has(c, "dBias") =>
       /\ Has(c, "Bias") /\ Len(Dims(c, "dBias")) = 4
       /\ BroadcastCompatible(Dims(c, "dBias"), ScoreDims(c))
  /\ Has(c, "Attn_scale") => ~ c.scaleValue /\ IsScalar(c, "Attn_scale")

(***************************************************************************)
(* Dropout.                                                                *)
(***************************************************************************)
DropoutKind(c) ==
  CASE c.probability -> "internal"
    [] Has(c, "Dropout_mask") -> "custom"
    [] OTHER -> "none"

DropoutPorts(c) ==
  CASE DropoutKind(c) = "internal" -> {"Seed", "Offset"}
    [] DropoutKind(c) = "custom" ->
         {"Dropout_mask", "Dropout_scale"} \cup
         IF Backward(c) THEN {"Dropout_scale_inv"} ELSE {}
    [] OTHER -> {}

DropoutFits(c) ==
  /\ DOMAIN c.ports \cap {"Dropout_mask", "Seed", "Offset", "Dropout_scale", "Dropout_scale_inv"}
       = DropoutPorts(c)
  /\ \A port \in DropoutPorts(c) \ {"Dropout_mask"} : IsScalar(c, port)
  /\ DropoutKind(c) = "custom" => BroadcastCompatible(Dims(c, "Dropout_mask"), ScoreDims(c))
  /\ Has(c, "RNG_DUMP") => DropoutKind(c) = "internal"

(***************************************************************************)
(* Ragged tensors.                                                         *)
(***************************************************************************)
QueryPorts(c) ==
  IF Backward(c) THEN {"Q", "O", "dO", "Stats", "dQ"}
  ELSE {"Q", "O", "Stats", "Max", "Sum_exp"}
KeyPorts(c) ==
  IF Backward(c) THEN {"K", "V", "dK", "dV"} ELSE {"K", "V", "Page_table_K", "Page_table_V"}

RaggedPorts(c) == {port \in DOMAIN c.ports : IsRagged(c, port)}
Prefix(c, port) == CHOOSE uid \in Tensor(c, port).ragged : TRUE

(* The lengths that a ragged tensor's segments follow, and how many        *)
(* positions one of its own stands for: a page table has one for a block.  *)
SequencePort(c, port) == IF port \in QueryPorts(c) THEN "SEQ_LEN_Q" ELSE "SEQ_LEN_KV"
Divisor(c, port) ==
  CASE port = "Page_table_K" -> BlockSize(c, "K")
    [] port = "Page_table_V" -> BlockSize(c, "V")
    [] OTHER -> 1

RaggedSlots(dims, strides) == dims[1] * StorageSlots(Tail(dims), Tail(strides))

RaggedFits(c, port) ==
  LET t == Tensor(c, port)
  IN /\ port \in QueryPorts(c) \cup KeyPorts(c)
     /\ t.plain
     /\ c.tensors[Prefix(c, port)].dims = <<Batches(c) + 1, 1, 1, 1>>
     /\ RaggedSlots(t.dims, t.strides) <= MaxI64
     /\ Has(c, SequencePort(c, port))

(* One tensor on two ports has to mean the same on both.                   *)
AssociationsAgree(c) ==
  \A p, r \in RaggedPorts(c) :
    c.ports[p] = c.ports[r] =>
      /\ c.ports[SequencePort(c, p)] = c.ports[SequencePort(c, r)]
      /\ Divisor(c, p) = Divisor(c, r)

(* The rows that a forward node writes are not asked here.                 *)
NeedsLengths(c) ==
  AnyPaged(c) \/ RaggedPorts(c) \ (IF Backward(c) THEN {} ELSE {"Stats", "Max", "Sum_exp"}) # {}

PaddingFits(c) ==
  IF c.padding
  THEN \A port \in {"SEQ_LEN_Q", "SEQ_LEN_KV"} :
         Has(c, port) /\ Dims(c, port) = <<Batches(c), 1, 1, 1>>
  ELSE ~ Has(c, "SEQ_LEN_Q") /\ ~ Has(c, "SEQ_LEN_KV") /\ ~ NeedsLengths(c)

(***************************************************************************)
(* Masks.                                                                  *)
(***************************************************************************)
BoundsFit(c) ==
  /\ \A n \in c.left : n > 0
  /\ \A n \in c.right : n >= 0
  /\ c.alibi => c.right = {0}
  /\ QueryExtent(c) > KeyExtent(c) /\ ~ c.padding =>
       c.left = {} /\ ~ (c.bottomRight /\ c.right # {})
  /\ c.bottomRight /\ c.right # {} =>
       ~ Has(c, "Bias") /\ ~ c.alibi /\ DropoutKind(c) = "none"

(* What a backward node says of the total length of its sequences.         *)
TotalsFit(c) ==
  LET Fits(totals, extent) ==
        \A n \in totals : /\ NeedsLengths(c) /\ n > 0
                          /\ Batches(c) <= MaxI64 \div extent
                          /\ n <= Batches(c) * extent
  IN Backward(c) => Fits(c.maxTotal.q, QueryExtent(c)) /\ Fits(c.maxTotal.kv, KeyExtent(c))

DecodeAttention(c) ==
  /\ c.tag \in {"SDPA", "SDPA_BWD"}
  /\ HasPorts(c) /\ HasLayouts(c) /\ HasShapes(c) /\ HasScoreInputs(c)
  /\ PaddingFits(c)
  /\ \A port \in RaggedPorts(c) : RaggedFits(c, port)
  /\ AssociationsAgree(c)
  /\ DropoutFits(c) /\ BoundsFit(c) /\ TotalsFit(c)
=============================================================================
