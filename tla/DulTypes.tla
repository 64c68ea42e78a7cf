------------------------------ MODULE DulTypes ------------------------------
(***************************************************************************)
(* Type inference (asttype_pred.c) and the layout of the variables that it *)
(* builds (type.c): every variable has the type of its first assignment.   *)
(***************************************************************************)
EXTENDS DulAst

CONSTANT NameRoom   \* the letters of a name for which there is room: 27

ASSUME NameRoomAssumption == NameRoom \in Nat

VARIABLES
  untyped,    (* the nodes generate_types has still to leave, in order     *)
  layout      (* the fields of the layout type: [name, field_t]            *)

(* Both types have size 8, so field i of a layout lies at 8 * (i - 1).     *)
FieldSize  == 8
LayoutSize == FieldSize * Len(layout)

FieldsOf(name) == {i \in DOMAIN layout : layout[i].name = name}

(* get_field_type and layout_count_offset of a name the layout holds.      *)
get_field_type(name)      == layout[CHOOSE i \in FieldsOf(name) : TRUE].field_t
layout_count_offset(name) == FieldSize * ((CHOOSE i \in FieldsOf(name) : TRUE) - 1)

(* The C string that starts at the val of a node.  A name runs over the 16 *)
(* bytes of val, and from its 29th byte on into the parent field, which    *)
(* ast_add_child writes after it: what is read back of such a name depends *)
(* on an address.  A literal is read up to its first zero byte, lowest     *)
(* byte first; what lies behind its eight bytes nothing wrote, nor the val *)
(* of an operation.  The lowest byte of a double is that of its            *)
(* significand.  If it is zero, as in 2.5, the name is empty; the name of  *)
(* another double, or of one that was computed, is not modelled.           *)
Unsigned(n) == n % (2 * IntMax + 2)

CString ==
  LET upto[n \in Nat] == IF n % 256 = 0 THEN <<>> ELSE <<n % 256>> \o upto[n \div 256]
  IN  upto

(* The numbers below limit, a power of 256, of which one byte is zero. *)
HasZeroByte ==
  LET zero[n \in Nat, limit \in Nat] ==
        limit > 1 /\ (n % 256 = 0 \/ zero[n \div 256, limit \div 256])
  IN  zero

HasName(n) ==
  LET val == heap[n].val
  IN  \/ heap[n].type = "NAME" /\ Len(val[2]) <= NameRoom
      \/ heap[n].type = "INTEGERLIT" /\ HasZeroByte[Unsigned(val[2]), 2 * IntMax + 2]
      \/ heap[n].type = "NUMLIT" /\ val[1] = "lit" /\ val[2].sig % 256 = 0

CName(node) == CASE node.type = "NAME"       -> node.val
                 [] node.type = "INTEGERLIT" -> <<"id", CString[Unsigned(node.val[2])]>>
                 [] OTHER                    -> <<"id", <<>>>>
NameOf(n)   == CName(heap[n])

(* generate_types and the code generator leave the target of an assignment *)
(* out of their recursion.                                                 *)
Visited == [n \in DOMAIN heap |-> IF heap[n].type = "ASSIGN"
                                  THEN Tail(heap[n].kids) ELSE heap[n].kids]

TypesStart == untyped' = LeaveOrder(Visited)

Typing(types) ==
  /\ untyped # <<>> /\ heap[Head(untyped)].type \in types
  /\ untyped' = Tail(untyped)

TypeOf(n, t) == heap' = [heap EXCEPT ![n].node_type = t]

TypeLiteral ==
  /\ Typing(Literals)
  /\ LET n == Head(untyped) IN
       TypeOf(n, IF heap[n].type = "INTEGERLIT" THEN "INT" ELSE "FLOAT")
  /\ UNCHANGED <<fault, layout>>

(* A name no assignment has introduced is added without a type, and        *)
(* add_entry_to_layout_type dereferences the type.                         *)
TypeName ==
  /\ Typing({"NAME"})
  /\ LET n == Head(untyped) IN
       CASE ~HasName(n) -> fault' = "undefined" /\ UNCHANGED heap
         [] HasName(n) /\ FieldsOf(heap[n].val) = {} ->
              fault' = "null dereference" /\ UNCHANGED heap
         [] OTHER -> TypeOf(n, get_field_type(heap[n].val)) /\ UNCHANGED fault
  /\ UNCHANGED layout

TypeArithmetic ==
  /\ Typing(Arithmetic)
  /\ LET n    == Head(untyped)
         type == [i \in 1 .. 2 |-> heap[heap[n].kids[i]].node_type]
     IN  type[1] = type[2] /\ TypeOf(n, type[1])
  /\ UNCHANGED <<fault, layout>>

(* A bug a run must notice: no cast is put in.                             *)
TypeMixedArithmetic_Uncast ==
  /\ Typing(Arithmetic)
  /\ LET kids == heap[Head(untyped)].kids
     IN  heap[kids[1]].node_type # heap[kids[2]].node_type
  /\ TypeOf(Head(untyped), "FLOAT")
  /\ UNCHANGED <<fault, layout>>

(* The INT operand of a FLOAT operation gets a CAST_TO_FLOAT above it.     *)
TypeMixedArithmetic ==
  /\ Typing(Arithmetic)
  /\ \E i \in 1 .. 2 :
       LET n    == Head(untyped)
           kids == heap[n].kids
       IN  /\ heap[kids[i]].node_type = "INT"
           /\ heap[kids[3 - i]].node_type = "FLOAT"
           /\ heap' = Append([heap EXCEPT ![n].node_type = "FLOAT",
                                          ![n].kids[i] = Len(heap) + 1],
                             [NewNode("CAST_TO_FLOAT", NoVal, <<kids[i]>>)
                                EXCEPT !.node_type = "FLOAT"])
  /\ UNCHANGED <<fault, layout>>

TypeWrite ==
  /\ Typing({"WRITE"})
  /\ LET n == Head(untyped) IN TypeOf(n, heap[heap[n].kids[1]].node_type)
  /\ UNCHANGED <<fault, layout>>

(* A variable that exists with another type keeps it: the compilation      *)
(* error is still to be written.                                           *)
TypeAssign ==
  /\ Typing({"ASSIGN"})
  /\ LET n      == Head(untyped)
         target == heap[n].kids[1]
         rval_t == heap[heap[n].kids[2]].node_type
     IN  IF ~HasName(target)
           THEN fault' = "undefined" /\ UNCHANGED <<heap, layout>>
           ELSE /\ heap' = [heap EXCEPT ![n].node_type = rval_t,
                                        ![target].node_type = rval_t]
                /\ layout' = IF FieldsOf(NameOf(target)) = {}
                               THEN Append(layout, [name |-> NameOf(target),
                                                    field_t |-> rval_t])
                               ELSE layout
                /\ UNCHANGED fault

TypesStep ==
  /\ TypeLiteral \/ TypeName \/ TypeArithmetic \/ TypeMixedArithmetic
     \/ TypeWrite \/ TypeAssign
  /\ UNCHANGED root
=============================================================================
