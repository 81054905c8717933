-------------------------- MODULE AttentionStorage --------------------------
(***************************************************************************)
(* An SDPA or SDPA_BWD node from its validation to the loops that run on   *)
(* the caller's memory: plain, ragged and paged tensors, masks and lengths *)
(* read at run time (lib/Compiler/SequenceGraph.cpp), and the check of the *)
(* ragged prefixes before the call (lib/Runtime/Executable.cpp).           *)
(*                                                                         *)
(* The call of a case: lengths gives the valid queries and keys of each    *)
(* batch, prefixes the segments of the ragged tensors, pages the blocks of *)
(* each batch on each page table, tiles the enabled bits of the block      *)
(* mask.  Memory maps every address of a tensor to what it holds: an       *)
(* integer, the element <<port, index>> of an input, or what the kernel    *)
(* computed.  Numbers are not modelled: a sum is the set of the terms that *)
(* were added with a weight that is not a masked zero.                     *)
(***************************************************************************)
EXTENDS AttentionDecode, FiniteSetsExt, TLC

CONSTANT Cases   (* nodes with their calls                                 *)

VARIABLES
  call,     (* the case                                                    *)
  phase,    (* validate, emit, launch, loop, done, or why it was refused   *)
  stage,    (* the loop that runs, an index of Stages                      *)
  next,     (* its next iteration                                          *)
  memory,   (* uid |-> address |-> contents                                *)
  stray     (* <<uid, address>> accessed outside the span of the call      *)

vars == <<call, phase, stage, next, memory, stray>>

Junk == <<"junk">>
Zero == <<"zero">>
NoInteger == -1

IntegerPorts == {"SEQ_LEN_Q", "SEQ_LEN_KV", "Page_table_K", "Page_table_V", "Block_mask"}
BatchIndex(b) == <<b, 0, 0, 0>>

(***************************************************************************)
(* What the caller provides, by the runtime contract of the user guide.    *)
(***************************************************************************)
Length(c, port, b) ==
  IF ~ c.padding THEN Dims(c, port)[3]
  ELSE IF port \in QueryPorts(c) THEN c.lengths.q[b + 1] ELSE c.lengths.kv[b + 1]

(* The indices of a tensor that exist in this call.                        *)
Held(c, port) ==
  CASE port \in {"Page_table_K", "Page_table_V"} ->
         UNION {{<<b, 0, slot, 0>> : slot \in 0..(Len(c.pages[port][b + 1]) - 1)} :
                  b \in 0..(Batches(c) - 1)}
    [] port \in {"K", "V"} /\ IsPaged(c, port) ->
         {i \in Indices(<<Batches(c), Dims(c, port)[2], KeyExtent(c), Dims(c, port)[4]>>) :
            i[3] < c.lengths.kv[i[1] + 1]}
    [] port \in QueryPorts(c) \cup KeyPorts(c) ->
         {i \in Indices(Dims(c, port)) : i[3] < Length(c, port, i[1])}
    [] OTHER -> Indices(Dims(c, port))

PageOf(c, port, b, s) == c.pages[TableOf(port)][b + 1][s \div BlockSize(c, port) + 1]
HasPage(c, port, b, s) ==
  IsPaged(c, port) => PageOf(c, port, b, s) \in 0..(Dims(c, port)[1] - 1)

(* Where the guide says that an element is.                                *)
Place(c, port, i) ==
  LET t == Tensor(c, port)
  IN IF port \in {"K", "V"} /\ IsPaged(c, port)
     THEN Dot(<<PageOf(c, port, i[1], i[3]), i[2], i[3] % BlockSize(c, port), i[4]>>, t.strides)
     ELSE IF IsRagged(c, port)
     THEN c.prefixes[Prefix(c, port)][i[1] + 1] + Dot(Tail(i), Tail(t.strides))
     ELSE Dot(i, t.strides)

MaskByte(c, i) ==
  SumSet({2 ^ bit : bit \in {k \in 0..7 : <<i[1], i[2], i[3], i[4] * 8 + k>> \in c.tiles}})

Contents(c, port, i) ==
  CASE port = "SEQ_LEN_Q" -> c.lengths.q[i[1] + 1]
    [] port = "SEQ_LEN_KV" -> c.lengths.kv[i[1] + 1]
    [] port \in {"Page_table_K", "Page_table_V"} -> c.pages[port][i[1] + 1][i[3] + 1]
    [] port = "Block_mask" -> MaskByte(c, i)
    [] OTHER -> <<port, i>>

(* The addresses that the call provides.                                   *)
Span(c, port) ==
  IF IsRagged(c, port) THEN c.prefixes[Prefix(c, port)][Batches(c) + 1]
  ELSE StorageSlots(Dims(c, port), Tensor(c, port).strides)

(* The memory of a tensor before the call.                                 *)
Filled(c, port) ==
  LET empty == IF port \in IntegerPorts THEN NoInteger ELSE Junk
      held == IF port \in Outputs(c) THEN {}
              ELSE {i \in Held(c, port) :
                      port \in {"K", "V"} => HasPage(c, port, i[1], i[3])}
      contents == {<<Place(c, port, i), Contents(c, port, i)>> : i \in held}
      placed == {pair[1] : pair \in contents}
  IN [a \in 0..(Span(c, port) - 1) |->
        IF a \in placed THEN (CHOOSE pair \in contents : pair[1] = a)[2] ELSE empty]

FilledPrefix(c, uid) ==
  LET stride == c.tensors[uid].strides[1]
  IN [a \in 0..(Batches(c) * stride) |->
        IF a % stride = 0 THEN c.prefixes[uid][a \div stride + 1] ELSE NoInteger]

(* A tensor on two ports is filled, and its elements are named, for one.   *)
FirstPort(c, uid) == CHOOSE port \in DOMAIN c.ports : c.ports[port] = uid

CallMemory(c) ==
  [uid \in {c.ports[port] : port \in DOMAIN c.ports} |-> Filled(c, FirstPort(c, uid))]
  @@ [uid \in {Prefix(c, port) : port \in RaggedPorts(c)} |-> FilledPrefix(c, uid)]

(***************************************************************************)
(* Addressing.  A load is of the contents and touches addresses.           *)
(***************************************************************************)
At(uid, a) == IF a \in DOMAIN memory[uid] THEN memory[uid][a] ELSE Junk
IntegerAt(uid, a) == IF a \in DOMAIN memory[uid] THEN memory[uid][a] ELSE NoInteger

ElementIndex(c, port, i) ==
  LET t == Tensor(c, port)
  IN IF IsRagged(c, port)
     THEN memory[Prefix(c, port)][i[1] * c.tensors[Prefix(c, port)].strides[1]]
            + Dot(Tail(i), Tail(t.strides))
     ELSE Dot(i, t.strides)

TableIndex(c, port, i) ==
  ElementIndex(c, TableOf(port), <<i[1], 0, i[3] \div BlockSize(c, port), 0>>)
LoadedPage(c, port, i) == IntegerAt(c.ports[TableOf(port)], TableIndex(c, port, i))
PageIsValid(c, port, i) == LoadedPage(c, port, i) \in 0..(Dims(c, port)[1] - 1)
PhysicalIndex(c, port, i) ==
  <<IF PageIsValid(c, port, i) THEN LoadedPage(c, port, i) ELSE 0,
    i[2], i[3] % BlockSize(c, port), i[4]>>

UsesTable(c, port) == port \in {"K", "V"} /\ IsPaged(c, port)

Load(c, port, i) ==
  IF ~ UsesTable(c, port) THEN At(c.ports[port], ElementIndex(c, port, i))
  ELSE IF PageIsValid(c, port, i)
  THEN At(c.ports[port], ElementIndex(c, port, PhysicalIndex(c, port, i)))
  ELSE Zero

Touches(c, port, i) ==
  IF ~ UsesTable(c, port) THEN {<<c.ports[port], ElementIndex(c, port, i)>>}
  ELSE {<<c.ports[TableOf(port)], TableIndex(c, port, i)>>,
        <<c.ports[port], ElementIndex(c, port, PhysicalIndex(c, port, i))>>}

GuardedTouches(c, condition, port, i) ==
  IF condition \/ ~ IsRagged(c, port) THEN Touches(c, port, i) ELSE {}

(* Fault: query heads are dealt to the source heads in turn.               *)
QueryToSourceHeadInTurn(c, head, port) == head % Dims(c, port)[2]
QueryToSourceHead(c, head, port) == head \div (QueryHeads(c) \div Dims(c, port)[2])

(***************************************************************************)
(* Masks.  s is an index of the scores: batch, head, query, key.           *)
(***************************************************************************)
SequenceLength(c, port, b) ==
  IntegerAt(c.ports[port], Dot(BatchIndex(b), Tensor(c, port).strides))

QueryPositionIsValid(c, i) == c.padding => i[3] < SequenceLength(c, "SEQ_LEN_Q", i[1])
KeyPositionIsValid(c, i) == c.padding => i[3] < SequenceLength(c, "SEQ_LEN_KV", i[1])

Shift(c, b) ==
  IF ~ c.bottomRight THEN 0
  ELSE IF c.padding
  THEN SequenceLength(c, "SEQ_LEN_KV", b) - SequenceLength(c, "SEQ_LEN_Q", b)
  ELSE KeyExtent(c) - QueryExtent(c)

BlockIsEnabled(c, s) ==
  LET tile == s[4] \div Tile
      byte == IntegerAt(c.ports["Block_mask"],
                        Dot(<<s[1], s[2], s[3] \div Tile, tile \div 8>>,
                            Tensor(c, "Block_mask").strides))
  IN (byte \div 2 ^ (tile % 8)) % 2 = 1

ScoreIsValid(c, s) ==
  /\ QueryPositionIsValid(c, s)
  /\ c.padding => s[4] < SequenceLength(c, "SEQ_LEN_KV", s[1])
  /\ \A n \in c.right : s[4] - s[3] <= Shift(c, s[1]) + n
  /\ \A n \in c.left : s[4] - s[3] > Shift(c, s[1]) - n
  /\ Has(c, "Block_mask") => BlockIsEnabled(c, s)

(***************************************************************************)
(* Scores and the softmax of a row.                                        *)
(***************************************************************************)
BroadcastIndices(c, s, port) ==
  LET dims == Dims(c, port)
  IN [a \in Axes(dims) |-> IF dims[a] = 1 THEN 0 ELSE s[4 - Len(dims) + a]]

Embedding(c, port) == 0..(Dims(c, port)[4] - 1)
QueryIndex(s, e) == <<s[1], s[2], s[3], e>>
SourceIndex(c, s, port, e) == <<s[1], QueryToSourceHead(c, s[2], port), s[4], e>>

AttentionScore(c, s) ==
  [products |-> {<<Load(c, "Q", QueryIndex(s, e)), Load(c, "K", SourceIndex(c, s, "K", e))>> :
                   e \in Embedding(c, "Q")},
   bias |-> {BroadcastIndices(c, s, port) : port \in {"Bias"} \cap DOMAIN c.ports},
   distance |-> IF c.alibi THEN {<<s[2], s[4] - s[3]>>} ELSE {}]

(* Only a ragged Q or K keeps a masked score from being computed.          *)
(* Fault: a ragged K is forgotten.                                         *)
ScoreIsGuardedForQueries(c) == IsRagged(c, "Q")
ScoreIsGuarded(c) == IsRagged(c, "Q") \/ IsRagged(c, "K")

MaskedScoreTouches(c, s) ==
  IF ScoreIsGuarded(c) /\ ~ ScoreIsValid(c, s) THEN {}
  ELSE UNION {Touches(c, "Q", QueryIndex(s, e)) \cup
              Touches(c, "K", SourceIndex(c, s, "K", e)) : e \in Embedding(c, "Q")}

(* The scores of a row, by the index of each: those of row[1..3] = i[1..3].*)
RowScores(c, i) == {<<i[1], i[2], i[3], key>> : key \in 0..(KeyExtent(c) - 1)}
ValidScores(c, i) == {s \in RowScores(c, i) : ScoreIsValid(c, s)}

(* The terms of the maximum and of the sum of exponentials.                *)
SoftmaxRow(c, i) ==
  [scores |-> {AttentionScore(c, s) : s \in ValidScores(c, i)},
   sink |-> IF Has(c, "SINK_TOKEN") THEN {i[2]} ELSE {}]
SoftmaxTouches(c, i) == UNION {MaskedScoreTouches(c, s) : s \in RowScores(c, i)}

(* The factor that dropout gives to a score.                               *)
DropoutMask(c, s) ==
  CASE DropoutKind(c) = "none" -> <<>>
    [] DropoutKind(c) = "custom" -> BroadcastIndices(c, s, "Dropout_mask")
    [] OTHER -> <<Linear(s, ScoreDims(c))>>

(***************************************************************************)
(* SDPA.                                                                   *)
(***************************************************************************)
RowPorts(c) == {"Stats", "Max", "Sum_exp"} \cap Outputs(c)

ForwardOutput(c, i) ==
  <<"O", SoftmaxRow(c, i),
    {<<AttentionScore(c, s), DropoutMask(c, s), Load(c, "V", SourceIndex(c, s, "V", i[4]))>> :
       s \in ValidScores(c, i)}>>

ForwardTouches(c, i) ==
  SoftmaxTouches(c, i) \cup
  UNION {GuardedTouches(c, ScoreIsValid(c, s), "V", SourceIndex(c, s, "V", i[4])) :
           s \in RowScores(c, i)}

(***************************************************************************)
(* SDPA_BWD.                                                               *)
(***************************************************************************)
BackwardProbability(c, s) == <<AttentionScore(c, s), Load(c, "Stats", QueryIndex(s, 0))>>
ProbabilityTouches(c, s) ==
  MaskedScoreTouches(c, s) \cup
  GuardedTouches(c, ScoreIsValid(c, s), "Stats", QueryIndex(s, 0))

OutputGradientDot(c, i) ==
  {<<Load(c, "O", QueryIndex(i, e)), Load(c, "dO", QueryIndex(i, e))>> : e \in Embedding(c, "O")}
DotTouches(c, i) ==
  UNION {GuardedTouches(c, QueryPositionIsValid(c, i), port, QueryIndex(i, e)) :
           port \in {"O", "dO"}, e \in Embedding(c, "O")}

ScoreGradient(c, s) ==
  [products |-> {<<Load(c, "dO", QueryIndex(s, e)), Load(c, "V", SourceIndex(c, s, "V", e))>> :
                   e \in Embedding(c, "V")},
   dropout |-> DropoutMask(c, s),
   softmax |-> OutputGradientDot(c, s),
   probability |-> BackwardProbability(c, s)]

GradientTouches(c, s) ==
  ProbabilityTouches(c, s) \cup DotTouches(c, s) \cup
  UNION {GuardedTouches(c, ScoreIsValid(c, s), "dO", QueryIndex(s, e)) \cup
         GuardedTouches(c, ScoreIsValid(c, s), "V", SourceIndex(c, s, "V", e)) :
           e \in Embedding(c, "V")}

(* The scores that a key takes part in: of the group of query heads that   *)
(* read its head, at every query.                                          *)
KeyScores(c, port, i) ==
  LET group == QueryHeads(c) \div Dims(c, port)[2]
  IN {<<i[1], i[2] * group + h, query, i[3]>> :
        h \in 0..(group - 1), query \in 0..(QueryExtent(c) - 1)}

QueryGradient(c, i) ==
  <<"dQ", {<<ScoreGradient(c, s), Load(c, "K", SourceIndex(c, s, "K", i[4]))>> :
             s \in ValidScores(c, i)}>>
KeyGradient(c, i) ==
  <<"dK", {<<ScoreGradient(c, s), Load(c, "Q", QueryIndex(s, i[4]))>> :
             s \in {x \in KeyScores(c, "K", i) : ScoreIsValid(c, x)}}>>
ValueGradient(c, i) ==
  <<"dV", {<<BackwardProbability(c, s), DropoutMask(c, s), Load(c, "dO", QueryIndex(s, i[4]))>> :
             s \in {x \in KeyScores(c, "V", i) : ScoreIsValid(c, x)}}>>

(* The scores that a bias was broadcast to.                                *)
BiasScores(c, i) ==
  {s \in Indices(ScoreDims(c)) : \A a \in 1..4 : Dims(c, "dBias")[a] # 1 => s[a] = i[a]}
BiasGradient(c, i) ==
  <<"dBias", {<<s, ScoreGradient(c, s)>> : s \in {x \in BiasScores(c, i) : ScoreIsValid(c, x)}}>>

SinkRows(c, i) ==
  {<<b, i[2], query, 0>> : b \in 0..(Batches(c) - 1), query \in 0..(QueryExtent(c) - 1)}
SinkGradient(c, i) ==
  <<"DSINK_TOKEN", {<<Load(c, "Stats", row), OutputGradientDot(c, row)>> :
                      row \in {x \in SinkRows(c, i) : QueryPositionIsValid(c, x)}}>>

(***************************************************************************)
(* The loops.                                                              *)
(***************************************************************************)
Loop(ports, dims) == IF ports = {} THEN <<>> ELSE <<[ports |-> ports, dims |-> dims]>>
LoopOver(c, port) == Loop({port} \cap Outputs(c), IF Has(c, port) THEN Dims(c, port) ELSE <<>>)

Stages(c) ==
  IF Backward(c)
  THEN LoopOver(c, "dQ") \o LoopOver(c, "dK") \o LoopOver(c, "dV") \o
       LoopOver(c, "dBias") \o LoopOver(c, "DSINK_TOKEN")
  ELSE LoopOver(c, "RNG_DUMP") \o Loop(RowPorts(c), SubSeq(Dims(c, "Q"), 1, 3)) \o
       LoopOver(c, "O")

(* What an iteration of the loop over a port computes, and what it loads.  *)
Computed(c, port, i) ==
  CASE port \in RowPorts(c) -> <<port, SoftmaxRow(c, i)>>
    [] port = "O" -> ForwardOutput(c, i)
    [] port = "RNG_DUMP" -> <<port, DropoutMask(c, i)>>
    [] port = "dQ" -> QueryGradient(c, i)
    [] port = "dK" -> KeyGradient(c, i)
    [] port = "dV" -> ValueGradient(c, i)
    [] port = "dBias" -> BiasGradient(c, i)
    [] port = "DSINK_TOKEN" -> SinkGradient(c, i)

Loaded(c, port, i) ==
  CASE port \in RowPorts(c) -> SoftmaxTouches(c, i)
    [] port = "O" -> ForwardTouches(c, i)
    [] port = "RNG_DUMP" -> {}
    [] port = "dQ" ->
         UNION {GradientTouches(c, s) \cup
                GuardedTouches(c, ScoreIsValid(c, s), "K", SourceIndex(c, s, "K", i[4])) :
                  s \in RowScores(c, i)}
    [] port = "dK" ->
         UNION {GradientTouches(c, s) \cup
                GuardedTouches(c, ScoreIsValid(c, s), "Q", QueryIndex(s, i[4])) :
                  s \in KeyScores(c, "K", i)}
    [] port = "dV" ->
         UNION {ProbabilityTouches(c, s) \cup
                GuardedTouches(c, ScoreIsValid(c, s), "dO", QueryIndex(s, i[4])) :
                  s \in KeyScores(c, "V", i)}
    [] port = "dBias" -> UNION {GradientTouches(c, s) : s \in BiasScores(c, i)}
    [] port = "DSINK_TOKEN" ->
         UNION {GuardedTouches(c, QueryPositionIsValid(c, row), "Stats", row) \cup
                DotTouches(c, row) : row \in SinkRows(c, i)}

(* Only a ragged output keeps what lies behind the lengths unwritten.      *)
Stores(c, port, i) ==
  IsRagged(c, port) =>
    IF port \in QueryPorts(c) THEN QueryPositionIsValid(c, i) ELSE KeyPositionIsValid(c, i)

ValidateSequenceOperation ==
  /\ phase = "validate"
  /\ phase' = IF DecodeAttention(call) THEN "emit" ELSE "refused"
  /\ UNCHANGED <<call, stage, next, memory, stray>>

EmitAttention ==
  /\ phase = "emit"
  /\ phase' = IF \A k \in DOMAIN Stages(call) :
                   /\ ElementCountFits(Stages(call)[k].dims)
                   /\ ElementCount(Stages(call)[k].dims) <= MaxI64
              THEN "launch" ELSE "refused"
  /\ UNCHANGED <<call, stage, next, memory, stray>>

(* Each segment lies within the compiled span and holds as many positions  *)
(* as the lengths of its batch ask for.                                    *)
RequiredSpan(c, port, length) ==
  LET t == Tensor(c, port)
      positions == (length + Divisor(c, port) - 1) \div Divisor(c, port)
  IN IF positions = 0 THEN 0
     ELSE StorageSlots(<<t.dims[2], positions, t.dims[4]>>, Tail(t.strides))

ResolveRaggedSize(c, port) ==
  LET t == Tensor(c, port)
      prefix == c.prefixes[Prefix(c, port)]
      Positions(b) == IF SequencePort(c, port) = "SEQ_LEN_Q" THEN c.lengths.q[b] ELSE c.lengths.kv[b]
  IN /\ prefix[1] = 0
     /\ \A b \in 1..Batches(c) :
          /\ prefix[b] >= 0 /\ prefix[b + 1] >= prefix[b]
          /\ prefix[b + 1] <= RaggedSlots(t.dims, t.strides)
          /\ Positions(b) \in 0..(t.dims[3] * Divisor(c, port))
          /\ prefix[b + 1] - prefix[b] >= RequiredSpan(c, port, Positions(b))

Launch ==
  /\ phase = "launch"
  /\ IF \A port \in RaggedPorts(call) : ResolveRaggedSize(call, port)
     THEN phase' = "loop" /\ memory' = CallMemory(call)
     ELSE phase' = "rejected" /\ UNCHANGED memory
  /\ UNCHANGED <<call, stage, next, stray>>

Iterate ==
  /\ phase = "loop"
  /\ LET loop == Stages(call)[stage]
         last == next + 1 = ElementCount(loop.dims)
         at == Delinear(next, loop.dims)
         i == IF Len(at) = 3 THEN Append(at, 0) ELSE at
         stored == {port \in loop.ports : Stores(call, port, i)}
         stores == [port \in stored |-> <<call.ports[port], ElementIndex(call, port, i)>>]
         touched == UNION {Loaded(call, port, i) : port \in loop.ports}
                      \cup {stores[port] : port \in stored}
     IN /\ memory' = [uid \in DOMAIN memory |->
                        [a \in DOMAIN memory[uid] |->
                           IF \E port \in stored : stores[port] = <<uid, a>>
                           THEN Computed(call, CHOOSE port \in stored : stores[port] = <<uid, a>>, i)
                           ELSE memory[uid][a]]]
        /\ stray' = stray \cup {t \in touched : t[2] \notin DOMAIN memory[t[1]]}
        /\ next' = IF last THEN 0 ELSE next + 1
        /\ stage' = IF last THEN stage + 1 ELSE stage
        /\ phase' = IF last /\ stage = Len(Stages(call)) THEN "done" ELSE "loop"
  /\ UNCHANGED call

Init ==
  /\ call \in Cases
  /\ phase = "validate" /\ stage = 1 /\ next = 0
  /\ memory = [uid \in {} |-> [a \in {} |-> Junk]]
  /\ stray = {}

Next == ValidateSequenceOperation \/ EmitAttention \/ Launch \/ Iterate

Spec == Init /\ [][Next]_vars

(***************************************************************************)
(* Attention over logical tensors: which query attends which key, and what *)
(* each output is the sum of.                                              *)
(***************************************************************************)
Element(c, port, i) ==
  IF port \in {"K", "V"} /\ ~ HasPage(c, port, i[1], i[3]) THEN Zero
  ELSE <<FirstPort(c, c.ports[port]), i>>

Attended(c) ==
  {s \in Indices(ScoreDims(c)) :
     LET queries == Length(c, "Q", s[1])
         keys == IF c.padding THEN c.lengths.kv[s[1] + 1] ELSE KeyExtent(c)
         diagonal == IF c.bottomRight THEN s[3] + keys - queries ELSE s[3]
     IN /\ s[3] < queries /\ s[4] < keys
        /\ \A n \in c.right : s[4] <= diagonal + n
        /\ \A n \in c.left : s[4] > diagonal - n
        /\ Has(c, "Block_mask") =>
             <<s[1], s[2], s[3] \div Tile, s[4] \div Tile>> \in c.tiles}

(* Each source head serves a run of consecutive query heads.               *)
SourceHead(c, head, port) ==
  LET group == QueryHeads(c) \div Dims(c, port)[2]
  IN CHOOSE k \in 0..(Dims(c, port)[2] - 1) : head \in (k * group)..((k + 1) * group - 1)

OfQuery(c, port, s, e) == Element(c, port, <<s[1], s[2], s[3], e>>)
OfKey(c, port, s, e) == Element(c, port, <<s[1], SourceHead(c, s[2], port), s[4], e>>)

Score(c, s) ==
  [products |-> {<<OfQuery(c, "Q", s, e), OfKey(c, "K", s, e)>> : e \in Embedding(c, "Q")},
   bias |-> {BroadcastIndices(c, s, port) : port \in {"Bias"} \cap DOMAIN c.ports},
   distance |-> IF c.alibi THEN {<<s[2], s[4] - s[3]>>} ELSE {}]

Row(c, scores, i) ==
  [scores |-> {Score(c, s) : s \in scores},
   sink |-> IF Has(c, "SINK_TOKEN") THEN {i[2]} ELSE {}]

OutputDot(c, s) == {<<OfQuery(c, "O", s, e), OfQuery(c, "dO", s, e)>> : e \in Embedding(c, "O")}
Probability(c, s) == <<Score(c, s), OfQuery(c, "Stats", s, 0)>>
Gradient(c, s) ==
  [products |-> {<<OfQuery(c, "dO", s, e), OfKey(c, "V", s, e)>> : e \in Embedding(c, "V")},
   dropout |-> DropoutMask(c, s), softmax |-> OutputDot(c, s), probability |-> Probability(c, s)]

Expected(c, port, i) ==
  LET OfRow == {s \in Attended(c) : SubSeq(s, 1, 3) = SubSeq(i, 1, 3)}
      OfColumn(p) == {s \in Attended(c) :
                        s[1] = i[1] /\ SourceHead(c, s[2], p) = i[2] /\ s[4] = i[3]}
  IN CASE port \in RowPorts(c) -> <<port, Row(c, OfRow, i)>>
       [] port = "O" ->
            <<port, Row(c, OfRow, i),
              {<<Score(c, s), DropoutMask(c, s), OfKey(c, "V", s, i[4])>> : s \in OfRow}>>
       [] port = "RNG_DUMP" -> <<port, <<Linear(i, ScoreDims(c))>>>>
       [] port = "dQ" -> <<port, {<<Gradient(c, s), OfKey(c, "K", s, i[4])>> : s \in OfRow}>>
       [] port = "dK" ->
            <<port, {<<Gradient(c, s), OfQuery(c, "Q", s, i[4])>> : s \in OfColumn("K")}>>
       [] port = "dV" ->
            <<port, {<<Probability(c, s), DropoutMask(c, s), OfQuery(c, "dO", s, i[4])>> :
                       s \in OfColumn("V")}>>
       [] port = "dBias" ->
            <<port, {<<s, Gradient(c, s)>> :
                       s \in {x \in Attended(c) :
                                 i = [a \in 1..4 |-> IF Dims(c, port)[a] = 1 THEN 0 ELSE x[a]]}}>>
       [] port = "DSINK_TOKEN" ->
            <<port, {<<OfQuery(c, "Stats", s, 0), OutputDot(c, s)>> :
                       s \in {x \in Indices(RowDims(c)) :
                                 x[2] = i[2] /\ x[3] < Length(c, "Q", x[1])}}>>

(***************************************************************************)
(* Properties.                                                             *)
(***************************************************************************)
(* A finished call has written every element of every output, where the    *)
(* guide puts it, with the terms of its reference; of a ragged output only *)
(* the positions that its lengths make valid, and no address between or    *)
(* behind the elements.                                                    *)
AttendsExactly ==
  phase = "done" =>
    \A port \in Outputs(call) :
      LET written == IF IsRagged(call, port) THEN Held(call, port) ELSE Indices(Dims(call, port))
          held == memory[call.ports[port]]
      IN /\ \A i \in written : held[Place(call, port, i)] = Expected(call, port, i)
         /\ \A a \in DOMAIN held \ {Place(call, port, i) : i \in written} : held[a] = Junk

(* Every access stays in the span of the call, which for a ragged tensor   *)
(* ends with its prefix; the entries of a page table are read before the   *)
(* masks are known, so tables are left to the property that follows.       *)
DataStaysInSpan ==
  \A t \in stray : \E port \in {"K", "V"} :
    IsPaged(call, port) /\ t[1] = call.ports[TableOf(port)]

(* The user guide lets a validated prefix define the compact span of a     *)
(* ragged argument, page tables included: no access leaves it.             *)
LoadsStayInSpan == stray = {}
=============================================================================
