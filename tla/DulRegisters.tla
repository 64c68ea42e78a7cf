---------------------------- MODULE DulRegisters ----------------------------
(***************************************************************************)
(* count_register_count (asteasy.c), the last pass of astparse_text: the   *)
(* bytes of the frame that the intermediate results of a node need.  The   *)
(* macro MAX evaluates the larger of two recursive calls twice, which      *)
(* changes nothing but the time: it doubles with every level of a tree.    *)
(***************************************************************************)
EXTENDS DulTypes

VARIABLE place_needed     \* node -> bytes

(* A bug a run must notice: the larger operand is left out. *)
Needed_Smaller ==
  LET need[n \in DOMAIN heap] ==
        LET node   == heap[n]
            kid(i) == need[node.kids[i]]
        IN  CASE node.type \in Arithmetic      -> Min({kid(1), kid(2)}) + 8
              [] node.type = "CAST_TO_FLOAT"   -> 8
              [] node.type = "WRITE"           -> kid(1)
              [] OTHER                         -> 0
  IN  need

(* A cast needs its own place whatever is below it; of an assignment       *)
(* nothing is counted.  Both return without a call: the place_needed of    *)
(* the nodes below them stays 0, where this function goes on counting.     *)
(* Only the printer of the tree would read it there.                       *)
Needed ==
  LET need[n \in DOMAIN heap] ==
        LET node   == heap[n]
            kid(i) == need[node.kids[i]]
        IN  CASE node.type \in Arithmetic      -> Max({kid(1), kid(2)}) + 8
              [] node.type = "CAST_TO_FLOAT"   -> 8
              [] node.type = "WRITE"           -> kid(1)
              [] OTHER                         -> 0
  IN  need

CountRegisters == place_needed' = Needed
=============================================================================
