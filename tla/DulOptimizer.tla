---------------------------- MODULE DulOptimizer ----------------------------
(***************************************************************************)
(* Constant folding (optimizer.c).  optimize_statics_math works on a node  *)
(* after its children, so a pass is the list of the nodes in that order.   *)
(***************************************************************************)
EXTENDS DulAst

VARIABLE unfolded     \* the nodes the pass has still to leave, in order

OptimizerStart == unfolded' = LeaveOrder([n \in DOMAIN heap |-> heap[n].kids])

is_numeric_literal(n) == heap[n].type \in Literals

cast_val_to_double(n) ==
  IF heap[n].type = "NUMLIT" THEN heap[n].val ELSE ToDouble(heap[n].val)

(* Both operands are literals: they are freed and their parent becomes the *)
(* literal that holds the result.                                          *)
Foldable(n) == /\ heap[n].type \in Arithmetic
               /\ \A i \in 1 .. 2 : is_numeric_literal(heap[n].kids[i])

(* A bug a run must notice: childrencount is not reset.                    *)
BecomeLiteral_KeepingKids(n, type, val) ==
  heap' = [m \in DOMAIN heap |->
             CASE m = n -> NewNode(type, val, heap[n].kids)
               [] \E i \in 1 .. 2 : m = heap[n].kids[i] ->
                    [heap[m] EXCEPT !.type = "FREED"]
               [] OTHER -> heap[m]]

BecomeLiteral(n, type, val) ==
  heap' = [m \in DOMAIN heap |->
             CASE m = n -> NewNode(type, val, <<>>)
               [] \E i \in 1 .. 2 : m = heap[n].kids[i] ->
                    [heap[m] EXCEPT !.type = "FREED"]
               [] OTHER -> heap[m]]

Leave(n) == unfolded # <<>> /\ n = Head(unfolded) /\ unfolded' = Tail(unfolded)

KeepNode ==
  \E n \in DOMAIN heap :
    /\ Leave(n) /\ ~Foldable(n)
    /\ UNCHANGED <<heap, fault>>

FoldFloat ==
  \E n \in DOMAIN heap :
    /\ Leave(n) /\ Foldable(n)
    /\ \E i \in 1 .. 2 : heap[heap[n].kids[i]].type = "NUMLIT"
    /\ BecomeLiteral(n, "NUMLIT",
                     <<heap[n].type, cast_val_to_double(heap[n].kids[1]),
                       cast_val_to_double(heap[n].kids[2])>>)
    /\ UNCHANGED fault

FoldInt ==
  \E n \in DOMAIN heap :
    /\ Leave(n) /\ Foldable(n)
    /\ \A i \in 1 .. 2 : heap[heap[n].kids[i]].type = "INTEGERLIT"
    /\ LET lhs == heap[heap[n].kids[1]].val[2]
           rhs == heap[heap[n].kids[2]].val[2]
       IN  IF IntTraps(heap[n].type, lhs, rhs)
             THEN fault' = "SIGFPE" /\ UNCHANGED heap
             ELSE /\ BecomeLiteral(n, "INTEGERLIT",
                                   <<"int", IntResult(heap[n].type, lhs, rhs)>>)
                  /\ UNCHANGED fault

OptimizerStep == (KeepNode \/ FoldFloat \/ FoldInt) /\ UNCHANGED root

(***************************************************************************)
(* Properties.                                                             *)
(***************************************************************************)
(* No pass sees a freed node: destroy_astnode gives away only operands     *)
(* that no statement and no other node refers to any more.                 *)
NoUseAfterFree ==
  LET inUse(n) == heap[n].type # "FREED"
  IN  /\ \A i \in DOMAIN root : inUse(root[i])
      /\ \A n \in DOMAIN heap : inUse(n) =>
           \A i \in DOMAIN heap[n].kids : inUse(heap[n].kids[i])
=============================================================================
