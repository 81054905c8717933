------------------------- MODULE MCSerializedImport -------------------------
(***************************************************************************)
(* Documents of each kind of operation, and every document that differs    *)
(* from one of them in a value or by a member, the tensors of a node's     *)
(* list included; convolutions with every output and with rows an image    *)
(* apart; files that grow, fail or are cut while they are read.            *)
(***************************************************************************)
EXTENDS SerializedImport

S(s) == <<"string", s>>
I(n) == <<"int", n>>
B(b) == <<"bool", b>>
A(s) == <<"array", s>>
O(f) == <<"object", f>>
Null == <<"null">>
Ints(s) == A([i \in DOMAIN s |-> I(s[i])])

Strides(dim) == [i \in DOMAIN dim |-> FoldLeft(LAMBDA p, d : p * d, 1, SubSeq(dim, i + 1, Len(dim)))]
Tensor(uid, name, dim) ==
  [name |-> S(name), data_type |-> S("FLOAT"), dim |-> Ints(dim), stride |-> Ints(Strides(dim)),
   is_virtual |-> B(FALSE), pass_by_value |-> Null, is_pass_by_value |-> B(FALSE),
   reordering_type |-> S("NONE"), uid |-> I(uid), uid_assigned |-> B(TRUE)]
Named(name, dim) == [Tensor(0, name, dim) EXCEPT !.uid_assigned = B(FALSE)]
Virtual(t) == [t EXCEPT !.is_virtual = B(TRUE)]
Scalar(t, type, index, value) ==
  [t EXCEPT !.data_type = S(type), !.is_pass_by_value = B(TRUE),
            !.pass_by_value = O([index |-> I(index), value |-> value])]

Context ==
  [name |-> S("g"), compute_data_type |-> S("FLOAT"), intermediate_data_type |-> Null,
   io_data_type |-> S("FLOAT"), sm_count |-> I(4), is_dynamic_shape_enabled |-> Null,
   is_override_shape_enabled |-> B(FALSE)]
Document(graphNodes, table) ==
  [json_version |-> S("1.0"), cudnn_backend_version |-> S("9"), cudnn_frontend_version |-> I(12400),
   graph_uid |-> I(1), context |-> O(Context), nodes |-> A(graphNodes), tensors |-> O(table)]
TableOf(ts) == [key \in {ts[i][1] : i \in DOMAIN ts} |-> O((CHOOSE t \in Range(ts) : t[1] = key)[2])]
Node(tag, inputs, outputs, attributes) ==
  O([tag |-> S(tag), name |-> S("n"), inputs |-> O(inputs), outputs |-> O(outputs)] @@ attributes)

(* A convolution; By gives the strides of a tensor.                        *)
ChannelsLast(dim) == <<dim[2] * dim[3] * dim[4], 1, dim[4] * dim[2], dim[2]>>
Nhwc(dim, By(_)) == [Tensor(1, "t", dim) EXCEPT !.stride = Ints(By(dim))]
At(t, uid) == [t EXCEPT !.uid = I(uid)]
ConvolutionOf(image, filter, out, pre, post, By(_), step) ==
  Document(
    <<Node("CONV_FPROP", [X |-> I(1), W |-> I(2)], [Y |-> I(3)],
           [compute_data_type |-> S("FLOAT"), pre_padding |-> Ints(pre), post_padding |-> Ints(post),
            stride |-> Ints(<<1, step>>), dilation |-> Ints(<<1, 1>>),
            math_mode |-> S("CROSS_CORRELATION")])>>,
    TableOf(<<<<"1", Nhwc(image, By)>>, <<"2", At(Nhwc(filter, By), 2)>>, <<"3", At(Nhwc(out, By), 3)>>>>))

Plain == ConvolutionOf(<<1, 2, 2, 3>>, <<1, 2, 1, 2>>, <<1, 1, 3, 2>>, <<1, 0>>, <<0, 0>>, ChannelsLast, 1)
    @@ [variant_pack_uids |-> Ints(<<1, 3, 2>>), fe_workspace_size |-> I(0)]
ConvolutionDocuments ==
  {ConvolutionOf(<<1, 2, 2, 3>>, <<1, 2, r, 2>>, <<1, 1, p, q>>, <<pad, 0>>, <<0, 1>>, ChannelsLast, step) :
     r \in 1..3, p \in 1..4, q \in 1..4, pad \in {0, 1}, step \in {1, 2}}
  \cup {ConvolutionOf(<<1, 2, 2, 3>>, <<1, 2, 1, 1>>, <<1, 1, 2, 3>>, <<0, 0>>, <<0, 0>>, PackedByHeight, 1)}

Peer == At(Tensor(5, "peer", <<2>>), 5)
Normalization ==
  Document(
    <<Node("BATCHNORM", [X |-> I(1)], [Y |-> I(2)],
           [compute_data_type |-> Null, peer_stats |-> A(<<O(Peer), O(Named("mean", <<2>>))>>)]),
      Node("BATCHNORM", [X |-> I(2)], [Y |-> S("out")],
           [compute_data_type |-> S("FLOAT"), peer_stats |-> A(<<O(Peer), O(Named("mean", <<2>>))>>)])>>,
    TableOf(<<<<"1", Tensor(1, "x", <<2>>)>>, <<"2", Virtual(Tensor(2, "y", <<2>>))>>,
             <<"out", Named("out", <<2>>)>>>>))

LateScalar == Scalar(Peer, "FLOAT", 3, S("3f800000"))
LatePayload ==
  Document(
    <<Node("BATCHNORM", [X |-> I(1)], [Y |-> I(2)],
           [compute_data_type |-> Null, peer_stats |-> A(<<O(LateScalar)>>)])>>,
    TableOf(<<<<"1", Tensor(1, "x", <<2>>)>>, <<"2", Tensor(2, "y", <<2>>)>>>>))

PointwiseNode(mode, inputs) ==
  Node("POINTWISE", inputs, [OUT_0 |-> I(2)],
       [name \in Range(Schemas["POINTWISE"].required) |->
          IF name = "mode" THEN S(mode) ELSE IF name = "axis" THEN I(0) ELSE Null])

Constants ==
  {Document(<<PointwiseNode("ADD", [IN_0 |-> I(1), IN_1 |-> I(4)])>>,
            TableOf(<<<<"1", Tensor(1, "x", <<2>>)>>, <<"2", Tensor(2, "y", <<2>>)>>,
                     <<"4", Scalar(Tensor(4, "c", <<1>>), c[1], c[2], c[3])>>>>))
     @@ [pass_by_values |-> O("4" :> O([index |-> I(c[2]), value |-> c[3]]))] :
     c \in {<<"INT64", 0, I(-4)>>, <<"INT32", 1, I(4)>>, <<"HALF", 2, <<"float", 2>>>>,
            <<"FLOAT", 3, S("3f800000")>>}}

Concatenation ==
  Document(
    <<Node("CONCATENATE", ("0" :> I(1)) @@ ("1" :> S("b")), [Y |-> I(2)], [axis |-> I(0), in_place_index |-> Null]),
      Node("REDUCTION", [X |-> I(2)], [Y |-> I(3)],
           [compute_data_type |-> Null, mode |-> S("ADD"), is_deterministic |-> B(TRUE)])>>,
    TableOf(<<<<"1", Tensor(1, "a", <<1>>)>>, <<"b", Named("b", <<1>>)>>, <<"2", Virtual(Tensor(2, "c", <<2>>))>>,
             <<"3", Tensor(3, "d", <<1>>)>>>>))

(* A tensor with ragged offsets, and one too large.                        *)
Ragged ==
  Document(
    <<PointwiseNode("RELU_FWD", [IN_0 |-> I(1)])>>,
    TableOf(<<<<"1", Tensor(1, "x", <<2, 3>>) @@ [ragged_offset_uid |-> I(7), ragged_offset_name |-> S("r")]>>,
             <<"2", Tensor(2, "y", <<200, 9>>)>>>>))
-----------------------------------------------------------------------------
RECURSIVE PathsOf(_)
PathsOf(v) ==
  {<<>>} \cup IF v[1] \notin {"array", "object"} THEN {}
              ELSE UNION {{<<k>> \o p : p \in PathsOf(v[2][k])} : k \in DOMAIN v[2]}

RECURSIVE Put(_, _, _), Drop(_, _)
Put(v, path, new) ==
  IF path = <<>> THEN new ELSE <<v[1], [v[2] EXCEPT ![path[1]] = Put(v[2][path[1]], Tail(path), new)]>>
Drop(v, path) ==
  IF Len(path) > 1 THEN <<v[1], [v[2] EXCEPT ![path[1]] = Drop(v[2][path[1]], Tail(path))]>>
  ELSE IF v[1] = "object" THEN <<v[1], [k \in DOMAIN v[2] \ {path[1]} |-> v[2][k]]>>
  ELSE <<v[1], RemoveAt(v[2], path[1])>>

Replacements ==
  {Null, B(TRUE), B(FALSE), I(-1), I(0), I(1), I(3), I(300), I(40000), <<"nonfinite", -9>>, S(""), S("nul"),
   S("x"), S("HALF"), A(<<>>), O(<<>>), A(<<I(1), I(2)>>)}

Extras ==
  {<<"extra", Null>>, <<"mode", S("ADD")>>, <<"4", I(1)>>, <<"04", I(1)>>, <<"nul", I(1)>>,
   <<"pass_by_values", O("4" :> I(1))>>, <<"pass_by_values", O("04" :> I(1))>>,
   <<"pass_by_values", O("9" :> I(1))>>, <<"pass_by_values", O("1" :> I(1))>>,
   <<"pass_by_values", A(<<>>)>>, <<"workspace_modifications", O("1" :> I(1))>>,
   <<"workspace_modifications", A(<<>>)>>, <<"variant_pack_replacements", A(<<>>)>>,
   <<"variant_pack_replacements", A(<<I(1)>>)>>, <<"variant_pack_uids", Ints(<<1, 1>>)>>,
   <<"OUT_0", I(1)>>, <<"IN_0", I(2)>>}

AsFile(v) ==
  [path |-> "g", opens |-> TRUE, claims |-> <<3>>, length |-> 3, breaks |-> FALSE, format |-> "auto",
   json |-> <<v>>, ubjson |-> <<>>, canonical |-> FALSE]

Files ==
  [path : {"", "g"}, opens : BOOLEAN, claims : {<<>>, <<3>>, <<9>>}, length : {0, 3, 9}, breaks : BOOLEAN,
   format : {"auto"}, json : {<<O(Plain)>>}, ubjson : {<<>>}, canonical : {FALSE}]
  \cup
  [path : {"g"}, opens : {TRUE}, claims : {<<3>>}, length : {3}, breaks : {FALSE},
   format : {"json", "ubjson", "auto", "none"}, json : {<<>>, <<O(Plain)>>},
   ubjson : {<<>>, <<O(Concatenation)>>}, canonical : BOOLEAN]

MCDocuments == {O(doc) : doc \in {Plain, Normalization, Concatenation, Ragged} \cup Constants}
LateDocuments == {O(LatePayload)}

(* One of the documents, or one that differs from it at a path.            *)
ValueAt(v, path) == FoldLeft(LAMBDA u, k : u[2][k], v, path)

EditedInit(documents) ==
  \E v \in documents : \E path \in PathsOf(v) :
    \/ path = <<>> /\ Begin(AsFile(v))
    \/ \E new \in Replacements : Begin(AsFile(Put(v, path, new)))
    \/ path # <<>> /\ Begin(AsFile(Drop(v, path)))
    \/ /\ IsKind(ValueAt(v, path), {"object"})
       /\ \E x \in Extras : Begin(AsFile(Put(v, path, O(ValueAt(v, path)[2] @@ (x[1] :> x[2])))))

ConvolutionInit == \E doc \in ConvolutionDocuments : Begin(AsFile(O(doc)))
=============================================================================
