----------------------------- MODULE DulMachine -----------------------------
(***************************************************************************)
(* The machine the operations of bytecodegen.h are for.  The repository    *)
(* runs only two of the opcodes (asmexamples.c); what the others do is     *)
(* what their names and print_operation say of them.                       *)
(***************************************************************************)
EXTENDS DulCodegen

VARIABLES
  next_op,    (* index of the operation to execute                         *)
  memory,     (* the stack frame: offset -> value, where one was written   *)
  out         (* what the write operations have written                    *)

machineVars == <<next_op, memory, out>>

(* Eight bytes read as a value of a type.  What nothing wrote, or what was *)
(* written as the other type, is Junk.                                     *)
Junk == <<"junk">>
FamilyOf(v) == IF IsInt(v) THEN "INT" ELSE "FLOAT"
As(type, v) == IF v # Junk /\ FamilyOf(v) = type THEN v ELSE Junk

Slot(offset)   == IF offset \in DOMAIN memory THEN memory[offset] ELSE Junk
Static(offset) == statics[(offset \div FieldSize) + 1]

TypeName4 == <<"PLUS", "MINUS", "MULT", "DIV">>

Computed(op) ==
  LET type  == get_type_family(op.opcode)
      name  == TypeName4[(op.opcode \div 6) + 1]
      imm   == imm_type(op.opcode)
      lhs   == As(type, IF imm = "IS_LM" THEN Static(op.first_arg) ELSE Slot(op.first_arg))
      rhs   == As(type, IF imm = "IS_RM" THEN Static(op.second_arg) ELSE Slot(op.second_arg))
  IN  CASE Junk \in {lhs, rhs} -> Junk
        [] Junk \notin {lhs, rhs} /\ type = "FLOAT" -> <<name, lhs, rhs>>
        [] OTHER -> IF IntTraps(name, lhs[2], rhs[2]) THEN <<"trap">>
                    ELSE <<"int", IntResult(name, lhs[2], rhs[2])>>

(* The value an operation stores or writes. *)
Operand(op) ==
  CASE is_arithmetic(op.opcode)       -> Computed(op)
    [] op.opcode = cast_to_float      -> LET v == As("INT", Slot(op.first_arg))
                                         IN  IF v = Junk THEN Junk ELSE ToDouble(v)
    [] op.opcode = cast_to_float_m    -> ToDouble(Static(op.first_arg))
    [] op.opcode \in {istore, fstore} -> Static(op.first_arg)
    [] op.opcode = iwrite_            -> As("INT", Slot(op.dest_arg))
    [] op.opcode = fwrite_            -> As("FLOAT", Slot(op.dest_arg))
    [] op.opcode \in {iwrite_m, fwrite_m} -> Static(op.dest_arg)

MachineStart == next_op' = 1 /\ memory' = <<>> /\ out' = <<>>

MachineStep ==
  /\ next_op \in DOMAIN ops
  /\ LET op    == ops[next_op]
         value == Operand(op)
     IN  IF value = <<"trap">>
           THEN fault' = "SIGFPE" /\ UNCHANGED machineVars
           ELSE /\ next_op' = next_op + 1
                /\ IF Writes(op)
                     THEN out' = Append(out, value) /\ UNCHANGED memory
                     ELSE memory' = (op.dest_arg :> value) @@ memory /\ UNCHANGED out
                /\ UNCHANGED fault
=============================================================================
