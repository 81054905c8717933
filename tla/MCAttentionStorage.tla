------------------------- MODULE MCAttentionStorage -------------------------
EXTENDS AttentionStorage

MCTensor(type, dims, strides) ==
  [type |-> type, dims |-> dims, strides |-> strides, ragged |-> {}, plain |-> TRUE]
Packed(type, dims) == MCTensor(type, dims, PackedStrides(dims))
(* Positions first, the heads of a position together.                      *)
BSHD(dims) ==
  MCTensor("FLOAT", dims, <<dims[2] * dims[3] * dims[4], dims[4], dims[2] * dims[4], 1>>)

(* Two batches, two query heads and one source head.                       *)
QDims == <<2, 2, 2, 1>>
KDims == <<2, 1, 2, 1>>

Node(tag, q, k, v) ==
  LET o == <<q[1], q[2], q[3], v[4]>>
      rows == <<q[1], q[2], q[3], 1>>
      forward == [Q |-> 1, K |-> 2, V |-> 3, O |-> 4]
      backward == forward @@ [dO |-> 5, Stats |-> 6, dQ |-> 7, dK |-> 8, dV |-> 9]
      dims == <<q, k, v, o, o, rows, q, k, v>>
  IN [tag |-> tag,
      ports |-> IF tag = "SDPA" THEN forward ELSE backward,
      tensors |-> [u \in 1..9 |-> BSHD(dims[u])],
      padding |-> FALSE, bottomRight |-> FALSE, left |-> {}, right |-> {}, alibi |-> FALSE,
      scaleValue |-> FALSE, probability |-> FALSE, generateStats |-> FALSE, maxKv |-> {},
      maxTotal |-> [q |-> {}, kv |-> {}],
      lengths |-> [q |-> <<0, 0>>, kv |-> <<0, 0>>],
      prefixes |-> <<>>, pages |-> <<>>, tiles |-> {}]

With(c, port, uid, tensor) ==
  [c EXCEPT !.ports = @ @@ (port :> uid), !.tensors = (uid :> tensor) @@ @]

Lengths(c, q, kv) ==
  [With(With(c, "SEQ_LEN_Q", 10, MCTensor("INT32", <<2, 1, 1, 1>>, <<2, 1, 1, 1>>)),
        "SEQ_LEN_KV", 11, Packed("INT32", <<2, 1, 1, 1>>))
     EXCEPT !.padding = TRUE, !.lengths = [q |-> q, kv |-> kv]]

(* The tensors of these uids follow the prefix, which steps by two.        *)
RaggedOn(c, uids, prefix, offsets) ==
  [c EXCEPT !.tensors = [u \in uids |-> [c.tensors[u] EXCEPT !.ragged = {prefix}]] @@
                        (prefix :> MCTensor("INT64", <<3, 1, 1, 1>>, <<2, 1, 1, 1>>)) @@ @,
            !.prefixes = (prefix :> offsets) @@ @]

(* Segments of two heads and embedding one that hold these lengths.        *)
Ends(lengths, width) == <<0, lengths[1] * width, (lengths[1] + lengths[2]) * width>>
(* All tensors of a kind ragged, with a gap behind the first query segment.*)
RaggedNode(c) ==
  LET q == Ends(c.lengths.q, 2)
      queries == IF c.tag = "SDPA" THEN {1, 4} ELSE {1, 4, 5, 7}
      keys == IF c.tag = "SDPA" THEN {2, 3} ELSE {2, 3, 8, 9}
  IN RaggedOn(RaggedOn(c, queries, 30, <<0, q[2] + 1, q[3] + 1>>), keys, 31,
              Ends(c.lengths.kv, 1))

Paged(c, port, uid, blocks, table) ==
  LET dims == <<blocks, 1, 2, 1>>
  IN [With(c, TableOf(port), uid, Packed("INT32", <<2, 1, Len(table[1]), 1>>))
        EXCEPT !.tensors[c.ports[port]] = BSHD(dims),
               !.pages = (TableOf(port) :> table) @@ @]

Forward == Node("SDPA", QDims, KDims, KDims)
Backwards == Node("SDPA_BWD", QDims, KDims, KDims)
Both == {Forward, Backwards}

Pairs == {<<<<1, 2>>, <<2, 1>>>>, <<<<2, 0>>, <<1, 2>>>>}

(* Masks, by lengths and by windows that follow either corner.             *)
Windows ==
  {[Lengths(c, p[1], p[2]) EXCEPT !.bottomRight = corner, !.left = left, !.right = right] :
     c \in Both, p \in Pairs, corner \in BOOLEAN, left \in {{}, {1}}, right \in {{}, {0}}}
Unpadded ==
  {[Node(tag, QDims, k, k) EXCEPT !.bottomRight = corner, !.right = {0}, !.left = left] :
     tag \in {"SDPA", "SDPA_BWD"}, k \in {KDims, <<2, 2, 3, 1>>, <<2, 1, 1, 1>>},
     corner \in BOOLEAN, left \in {{}, {2}}}

(* Two query heads read each key head, and one each value head.            *)
Grouped ==
  {[Node(tag, <<1, 4, 2, 1>>, <<1, 2, 2, 1>>, <<1, 4, 2, 2>>) EXCEPT !.right = {0}] :
     tag \in {"SDPA", "SDPA_BWD"}}

Raggeds ==
  {RaggedNode(Lengths(c, p[1], p[2])) : c \in Both, p \in Pairs}
  \cup {RaggedOn(Lengths(c, <<1, 2>>, <<2, 1>>), {uid}, 30, <<0, 4, 8>>) :
          c \in Both, uid \in 1..6}
  \cup {RaggedOn(Lengths(Forward, <<1, 2>>, <<2, 1>>), {2}, 30, offsets) :
          offsets \in {<<1, 2, 3>>, <<0, 1, 3>>, <<0, 2, 5>>, <<0, 3, 2>>, <<0, 2, 3>>}}

Rows(c) ==
  [With(With(With(c, "Stats", 6, Packed("FLOAT", <<2, 2, 2, 1>>)),
             "Max", 12, Packed("FLOAT", <<2, 2, 2, 1>>)),
        "Sum_exp", 13, Packed("FLOAT", <<2, 2, 2, 1>>)) EXCEPT !.generateStats = TRUE]
RowNodes ==
  {Rows(Forward), RaggedOn(Rows(Lengths(Forward, <<1, 2>>, <<2, 1>>)), {6, 12}, 30, <<0, 3, 7>>),
   RaggedOn(Rows(Forward), {6}, 30, <<0, 4, 8>>)}

(* Three keys in blocks of two: both caches paged, or one of them.         *)
LongKeys == Node("SDPA", QDims, <<2, 1, 3, 1>>, <<2, 1, 3, 1>>)
TableK == <<<<2, 0>>, <<1, 3>>>>
TableV == <<<<0, 1>>, <<3, 2>>>>
PagedNode(p) == Lengths(LongKeys, <<2, 1>>, p)
Pages ==
  {[Paged(Paged(PagedNode(p), "K", 14, 4, TableK), "V", 15, 4, TableV)
      EXCEPT !.maxKv = limit] : p \in {<<3, 2>>, <<1, 3>>}, limit \in {{}, {3}, {5}}}
  \cup {Paged(PagedNode(<<3, 2>>), port, 14, 4, TableK) : port \in {"K", "V"}}
  \cup {RaggedOn(Paged(PagedNode(<<3, 2>>), "K", 14, 4, TableK), {1, 4}, 30, <<0, 4, 6>>),
        Paged(PagedNode(<<3, 3>>), "V", 14, 4, <<<<7, 0>>, <<1, 2>>>>),
        Paged(Lengths(Backwards, <<1, 2>>, <<2, 1>>), "K", 14, 4, TableK),
        RaggedOn(Paged(PagedNode(<<3, 2>>), "K", 14, 4, TableK), {2}, 30, <<0, 4, 8>>),
        [Paged(LongKeys, "K", 14, 4, TableK) EXCEPT !.maxKv = {3}]}

(* Tables that hold just the blocks the lengths ask for.                   *)
CompactPages(kv, table, offsets) ==
  RaggedOn([Paged(PagedNode(kv), "V", 14, 4, TableV)
              EXCEPT !.pages = ("Page_table_V" :> table)], {14}, 30, offsets)
Compacts == {CompactPages(<<3, 2>>, <<<<2, 0>>, <<1>>>>, <<0, 2, 3>>),
             CompactPages(<<1, 3>>, <<<<2>>, <<1, 0>>>>, <<0, 1, 3>>)}
Shorts == {CompactPages(<<3, 2>>, <<<<2>>, <<1>>>>, <<0, 1, 2>>)}

(* One table for caches of one block size, or of two.                      *)
SharedTable(block) ==
  LET c == CompactPages(<<3, 2>>, <<<<2, 0>>, <<1>>>>, <<0, 2, 3>>)
  IN [c EXCEPT !.ports = @ @@ ("Page_table_K" :> 14),
               !.pages = @ @@ ("Page_table_K" :> c.pages["Page_table_V"]),
               !.tensors[2] = BSHD(<<4, 1, block, 1>>)]
Shared == {SharedTable(2), [SharedTable(4) EXCEPT !.maxKv = {3}]}

Bias(c, dims) == With(c, "Bias", 16, Packed("FLOAT", dims))
Sink(c) == With(c, "SINK_TOKEN", 17, Packed("FLOAT", <<1, 2, 1, 1>>))
Scores ==
  {Sink(Bias(Lengths(Forward, <<1, 2>>, <<2, 1>>), dims)) : dims \in {<<2, 1, 1, 2>>, <<2, 2>>, <<3>>}}
  \cup {With(With(Sink(Bias(c, <<1, 2, 2, 2>>)), "dBias", 18, Packed("FLOAT", dims)),
             "DSINK_TOKEN", 19, Packed("FLOAT", <<1, 2, 1, 1>>)) :
          c \in {Backwards, RaggedNode(Lengths(Backwards, <<1, 2>>, <<2, 1>>))},
          dims \in {<<1, 2, 1, 2>>, <<1, 1, 2, 1>>, <<2, 2>>}}
  \cup {[c EXCEPT !.alibi = TRUE, !.right = right] : c \in Both, right \in {{0}, {1}}}
  \cup {With(Backwards, "DSINK_TOKEN", 19, Packed("FLOAT", <<1, 2, 1, 1>>))}

Scalar(type) == Packed(type, <<1>>)
Seeded(c) == With(With([c EXCEPT !.probability = TRUE], "Seed", 21, Scalar("INT64")),
                  "Offset", 22, Scalar("INT64"))
Custom(c) == With(With(c, "Dropout_mask", 23, Packed("FLOAT", <<2, 1, 2, 2>>)),
                  "Dropout_scale", 24, Scalar("FLOAT"))
Dropouts ==
  {With(Seeded(Forward), "RNG_DUMP", 25, Packed("FLOAT", <<2, 2, 2, 2>>)), Seeded(Backwards),
   Custom(Forward), Custom(Backwards), Custom(Seeded(Forward)),
   With(Custom(Backwards), "Dropout_scale_inv", 26, Scalar("FLOAT")),
   With(Forward, "RNG_DUMP", 25, Packed("FLOAT", <<2, 2, 2, 2>>)),
   With(Forward, "Seed", 21, Scalar("INT64"))}

(* Nine key tiles: the last is the lowest bit of a second byte.            *)
MaskNode(dims, tiles) ==
  [With(Node("SDPA", <<1, 1, 2, 1>>, <<1, 1, 9, 1>>, <<1, 1, 9, 2>>), "Block_mask", 27,
        MCTensor("UINT8", dims, <<8, 8, 3, 1>>)) EXCEPT !.tiles = tiles]
Masks == {MaskNode(<<1, 1, 2, 2>>, {<<0, 0, 0, 8>>, <<0, 0, 1, 0>>, <<0, 0, 1, 7>>}),
          MaskNode(<<1, 1, 2, 9>>, {})}

Unfit ==
  {Node("SDPA", QDims, <<2, 3, 2, 1>>, KDims), Node("SDPA", QDims, KDims, <<2, 1, 3, 1>>),
   Node("SDPA", QDims, <<2, 1, 2, 2>>, KDims),
   [Forward EXCEPT !.tag = "RNG"], [Forward EXCEPT !.ports.K = 40],
   [Forward EXCEPT !.ports.O = 1], [Forward EXCEPT !.tensors[1].type = "HALF"],
   [Forward EXCEPT !.tensors[2].strides = <<2, 2, 1, 2>>],
   [Forward EXCEPT !.generateStats = TRUE], [Forward EXCEPT !.maxKv = {2}],
   [Backwards EXCEPT !.maxTotal = [q |-> {2}, kv |-> {}]],
   With(Forward, "Descale_Q", 28, Scalar("FLOAT")),
   With(Forward, "SEQ_LEN_Q", 10, Packed("INT32", <<2, 1, 1, 1>>)),
   With([Forward EXCEPT !.scaleValue = TRUE], "Attn_scale", 29, Scalar("FLOAT")),
   With(Forward, "Attn_scale", 29, Scalar("FLOAT")),
   RaggedOn(Lengths(Forward, <<1, 2>>, <<2, 1>>), {1, 10}, 30, <<0, 4, 8>>),
   [RaggedOn(Lengths(Forward, <<1, 2>>, <<2, 1>>), {1}, 30, <<0, 4, 8>>)
      EXCEPT !.tensors[1].strides = <<1, 20000, 3, 1>>]}
  \cup {[RaggedNode(Lengths(Backwards, <<1, 2>>, <<2, 1>>)) EXCEPT !.maxTotal = [q |-> {n}, kv |-> {4}]] :
          n \in {4, 5}}

MCCases ==
  Windows \cup Unpadded \cup Grouped \cup Raggeds \cup RowNodes \cup Pages \cup Compacts \cup Shorts \cup
  Shared \cup Scores \cup Dropouts \cup Masks \cup Unfit
=============================================================================
