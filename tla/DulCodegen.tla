----------------------------- MODULE DulCodegen -----------------------------
(***************************************************************************)
(* The code generator (bytecodegen.c): one action per kind of node that    *)
(* dest_preview_load returns from.  Its result, the place where the value  *)
(* of the node will lie at run time, is kept in "place": an offset into    *)
(* the statics for a literal, into the stack frame for any other node.     *)
(***************************************************************************)
EXTENDS DulTypes, DulIR

VARIABLES
  unloaded,   (* the nodes dest_preview_load has still to leave, in order  *)
  place,      (* node -> the value its call returned                       *)
  ops,        (* internal_code.ops                                         *)
  statics,    (* the 8-byte values from internal_code.statics to static_pos *)
  current_stack_offset

codeVars == <<unloaded, place, ops, statics, current_stack_offset>>

(* A bug a run must notice: the left operand is taken for the right one.   *)
configure_spec_Swapped(n) ==
  LET Is(i, literal) == heap[heap[n].kids[i]].type = literal
  IN  IF heap[n].node_type = "INT"
        THEN CASE Is(1, "INTEGERLIT") -> ioprm
               [] ~Is(1, "INTEGERLIT") /\ Is(2, "INTEGERLIT") -> ioplm
               [] OTHER -> iop
        ELSE CASE Is(1, "NUMLIT") -> foprm
               [] ~Is(1, "NUMLIT") /\ Is(2, "NUMLIT") -> foplm
               [] OTHER -> fop

configure_spec(n) ==
  LET Is(i, literal) == heap[heap[n].kids[i]].type = literal
  IN  IF heap[n].node_type = "INT"
        THEN CASE Is(1, "INTEGERLIT") -> ioplm
               [] ~Is(1, "INTEGERLIT") /\ Is(2, "INTEGERLIT") -> ioprm
               [] OTHER -> iop
        ELSE CASE Is(1, "NUMLIT") -> foplm
               [] ~Is(1, "NUMLIT") /\ Is(2, "NUMLIT") -> foprm
               [] OTHER -> fop

(* write_op and add_static; the static of a literal gets the next 8 bytes. *)
write_op(op)    == ops' = Append(ops, op)
StaticOffset    == FieldSize * Len(statics)
add_static(val) == statics' = Append(statics, val)

(* new_code, and the nodes in the order of the recursion: an assignment    *)
(* handles a literal on its right itself.                                  *)
CodegenStart ==
  /\ unloaded' = LeaveOrder(
       [n \in DOMAIN heap |->
          IF heap[n].type = "ASSIGN" /\ heap[heap[n].kids[2]].type \in Literals
            THEN <<>> ELSE Visited[n]])
  /\ place' = <<>> /\ ops' = <<>> /\ statics' = <<>>
  /\ current_stack_offset' = LayoutSize

Loading(types) ==
  /\ unloaded # <<>> /\ heap[Head(unloaded)].type \in types
  /\ unloaded' = Tail(unloaded)

Returns(n, offset) ==
  place' = [m \in DOMAIN place \cup {n} |-> IF m = n THEN offset ELSE place[m]]

KidPlace(n, i) == place[heap[n].kids[i]]

(* Bugs a run must notice: no operation gets the dest of its assignment;   *)
(* the offset of the frame is not advanced.                                *)
AssignmentsOf_None(n) == {}
TakeDest_Unadvanced(n) == UNCHANGED current_stack_offset

(* The parameter dest: the variable for the right side of an assignment,   *)
(* -1 for everything else, which then gets eight fresh bytes of the frame. *)
AssignmentsOf(n) == {s \in Range(root) : heap[s].type = "ASSIGN" /\ heap[s].kids[2] = n}

TakeDest(n) ==
  IF AssignmentsOf(n) = {}
    THEN current_stack_offset' = current_stack_offset + 8
    ELSE UNCHANGED current_stack_offset

RealDest(n) ==
  IF AssignmentsOf(n) = {} THEN current_stack_offset
  ELSE LET s == CHOOSE s \in AssignmentsOf(n) : TRUE
       IN  layout_count_offset(NameOf(heap[s].kids[1]))

LoadArithmetic ==
  /\ Loading(Arithmetic)
  /\ LET n == Head(unloaded) IN
       /\ TakeDest(n)
       /\ write_op(DulIROP(OpcodeOf[heap[n].type] + configure_spec(n), RealDest(n),
                           KidPlace(n, 1), KidPlace(n, 2)))
       /\ Returns(n, RealDest(n))
  /\ UNCHANGED statics

LoadLiteral ==
  /\ Loading(Literals)
  /\ LET n == Head(unloaded) IN add_static(heap[n].val) /\ Returns(n, StaticOffset)
  /\ UNCHANGED <<ops, current_stack_offset>>

LoadName ==
  /\ Loading({"NAME"})
  /\ LET n == Head(unloaded) IN Returns(n, layout_count_offset(heap[n].val))
  /\ UNCHANGED <<ops, statics, current_stack_offset>>

LoadCast ==
  /\ Loading({"CAST_TO_FLOAT"})
  /\ LET n      == Head(unloaded)
         opcode == IF heap[heap[n].kids[1]].type = "INTEGERLIT"
                     THEN cast_to_float_m ELSE cast_to_float
     IN  /\ TakeDest(n)
         /\ write_op(DulIROP(opcode, RealDest(n), KidPlace(n, 1), 0))
         /\ Returns(n, RealDest(n))
  /\ UNCHANGED statics

LoadWrite ==
  /\ Loading({"WRITE"})
  /\ LET n       == Head(unloaded)
         kid     == heap[heap[n].kids[1]]
         write_t == CASE kid.type = "NUMLIT" -> fwrite_m
                      [] kid.type # "NUMLIT" /\ kid.node_type = "FLOAT" -> fwrite_
                      [] kid.type = "INTEGERLIT" /\ kid.node_type # "FLOAT" -> iwrite_m
                      [] OTHER -> iwrite_
     IN  write_op(DulIROP(write_t, KidPlace(n, 1), 0, 0)) /\ Returns(n, -1)
  /\ UNCHANGED <<statics, current_stack_offset>>

(* Only a literal needs an operation of its own: the code of an operation  *)
(* on the right stores into the variable, that of a name stores nothing.   *)
LoadAssign ==
  /\ Loading({"ASSIGN"})
  /\ LET n     == Head(unloaded)
         right == heap[heap[n].kids[2]]
         rdest == layout_count_offset(NameOf(heap[n].kids[1]))
     IN  /\ IF right.type \in Literals
              THEN /\ add_static(right.val)
                   /\ write_op(DulIROP(IF right.type = "NUMLIT" THEN fstore ELSE istore,
                                       rdest, StaticOffset, 0))
              ELSE UNCHANGED <<ops, statics>>
         /\ Returns(n, -1)
  /\ UNCHANGED current_stack_offset

CodegenStep ==
  /\ \/ LoadArithmetic \/ LoadLiteral \/ LoadName \/ LoadCast \/ LoadWrite \/ LoadAssign
  /\ UNCHANGED <<heap, root, fault, layout>>
=============================================================================
