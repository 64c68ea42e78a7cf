------------------------------ MODULE MCNative ------------------------------
(***************************************************************************)
(* Every sequence of at most MaxOps of the operations below: stores near   *)
(* and far, twice into a slot, a write and an opcode without translation.  *)
(***************************************************************************)
EXTENDS DulNative

CONSTANT MaxOps

Operations ==
  {DulIROP(istore, dest, first, 0) : dest \in {0, 8, 120, 128, 256}, first \in {0, 8}}
    \cup {DulIROP(istore, 8, 120, 0), DulIROP(istore, 0, 128, 0),
          DulIROP(iwrite_, 8, 0, 0), DulIROP(fstore, 8, 0, 0)}

MCOpSequences == UNION {[1 .. n -> Operations] : n \in 0 .. MaxOps}
=============================================================================
