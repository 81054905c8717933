------------------------- MODULE MCWorkspacePlanner -------------------------
(***************************************************************************)
(* Small instances of WorkspacePlanner.  The word width is 8 bits, so that *)
(* three requests can reach both limits; sizes are not multiples of the    *)
(* alignments, so that placements leave gaps.                              *)
(***************************************************************************)
EXTENDS WorkspacePlanner

CONSTANTS MaxRequests, Sizes, Alignments, Ends

(* Well-formed requests with lifetimes inside 1..Ends.                     *)
GoodRequest(n) ==
  {r \in [name: {n}, size: Sizes, alignment: Alignments, start: 1..Ends,
          end: 1..Ends] : r.start <= r.end}

GoodInputs ==
  UNION {{s \in [1..m -> UNION {GoodRequest(n) : n \in 1..m}] :
            \A i \in 1..m : s[i].name = m + 1 - i} : m \in 0..MaxRequests}

(* One request of each kind that validation must refuse, and two that it   *)
(* accepts one at a time, of the same name.                                *)
BadRequests ==
  {[name |-> 0, size |-> 8, alignment |-> 8, start |-> 1, end |-> 2],
   [name |-> 1, size |-> 8, alignment |-> 8, start |-> 1, end |-> 2],
   [name |-> 1, size |-> 8, alignment |-> 8, start |-> 2, end |-> 2],
   [name |-> 2, size |-> 0, alignment |-> 8, start |-> 1, end |-> 2],
   [name |-> 3, size |-> 8, alignment |-> 3, start |-> 1, end |-> 2],
   [name |-> 4, size |-> 8, alignment |-> 128, start |-> 1, end |-> 2],
   [name |-> 5, size |-> 8, alignment |-> 8, start |-> 2, end |-> 1]}

MCInputs == GoodInputs \cup [1..2 -> BadRequests]
=============================================================================
