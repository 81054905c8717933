-------------------------- MODULE MCRuntimeExecute --------------------------
(***************************************************************************)
(* One call with every placement of its pointers, with every content of a  *)
(* ragged prefix and with every set of CPU features, and three calls that  *)
(* meet on one or two Executables.                                         *)
(***************************************************************************)
EXTENDS RuntimeExecute

Addresses == 0..UIntPtrMax
Pointers == 0..6 \cup {UIntPtrMax - 1, UIntPtrMax}

Plain(uid, access, alignment, size) ==
  [uid |-> uid, access |-> access, alignment |-> alignment, size |-> size,
   ragged |-> FALSE]

(* Ragged over the prefix of argument 1 and the lengths of argument 2.     *)
Ragged(uid, access, size) ==
  [uid |-> uid, access |-> access, alignment |-> 1, size |-> size,
   ragged |-> TRUE, offset |-> 1, sequence |-> 2, batches |-> 1, bound |-> 2]

AllVariants == {"scalar", "avx2", "avx512"}

(* One input and one two-byte output over a workspace of `scratch` bytes.  *)
Simple(scratch, compiled) ==
  [arguments |-> <<Plain(1, "read", 1, 1), Plain(2, "write", 1, 2)>>,
   workspace |-> scratch, alignment |-> 2, compiled |-> compiled,
   engine |-> FALSE]

Engine(compiled) == [Simple(0, compiled) EXCEPT !.engine = TRUE]

Attention(access) ==
  [arguments |-> <<Plain(1, "read", 1, 2), Plain(2, "read", 1, 1),
                   Ragged(3, access, 2), Plain(4, "write", 1, 1)>>,
   workspace |-> 0, alignment |-> 1, compiled |-> AllVariants,
   engine |-> FALSE]

Cell(n) == <<n>>
Zeroes == [a \in Addresses |-> Cell(0)]
Host == {"avx", "fma", "avx2", "os_ymm_state"}

(* Only caller 1 calls an Executable: the others hold an empty one.        *)
Alone(executable, pack, workspace, contents, variant, features) ==
  [executables |-> <<executable>>, memory |-> contents, features |-> features,
   target    |-> [c \in Calls |-> IF c = 1 THEN 1 ELSE 0],
   variant   |-> [c \in Calls |-> variant],
   pack      |-> [c \in Calls |-> pack],
   workspace |-> [c \in Calls |-> workspace]]

Packs(uids) == [uids -> Pointers]

Placements ==
  {Alone(Simple(1, AllVariants), p, w, Zeroes, "auto", Host) :
     p \in Packs({1, 2}) \cup Packs({2}), w \in Pointers}

Dispatches ==
  {Alone(executable, (1 :> 2) @@ (2 :> 4), 0, Zeroes, v, f) :
     executable \in {Simple(0, AllVariants), Engine({"scalar"}),
                     Engine({"scalar", "avx512"})},
     v \in AllVariants \cup {"auto"},
     f \in {{}, Host, Host \ {"fma"}, Host \ {"os_ymm_state"},
            Host \cup {"avx512f"}, Host \cup {"avx512f", "os_zmm_state"}}}

RaggedPrefixes ==
  {Alone(Attention(access), (1 :> 1) @@ (2 :> 3) @@ (3 :> x) @@ (4 :> y), 0,
         [Zeroes EXCEPT ![1] = Cell(m), ![2] = Cell(n), ![3] = Cell(l)],
         "auto", Host) :
     access \in {"read", "write"}, x \in {2, 4, 7, UIntPtrMax},
     y \in {1, 3, 5},
     m \in 0..1, n \in -1..3, l \in -1..3}

(* Three calls on up to two Executables.  They share an input; outputs are *)
(* apart; calls on one Executable may share a workspace.                   *)
Meetings ==
  {[executables |-> <<Simple(1, AllVariants), second>>, features |-> Host,
    memory    |-> [Zeroes EXCEPT ![1] = Cell(0), ![2] = Cell(1),
                                 ![3] = Cell(1), ![4] = Cell(7)],
    target    |-> t,
    variant   |-> [c \in Calls |-> "auto"],
    pack      |-> [c \in Calls |->
                     IF t[c] = 2 /\ second.workspace = 0 /\ ~ second.engine
                     THEN (1 :> 1) @@ (2 :> 3) @@ (3 :> 4) @@ (4 :> 2 * c + 4)
                     ELSE (1 :> 4) @@ (2 :> 2 * c + 4)],
    workspace |-> [c \in Calls |-> IF t[c] = 1 THEN w ELSE 14]] :
     second \in {Simple(1, AllVariants), Engine({"scalar"}),
                 Attention("read")},
     t \in [Calls -> 1..2], w \in {12}}

MCScenarios == Placements \cup Dispatches \cup RaggedPrefixes \cup Meetings
=============================================================================
