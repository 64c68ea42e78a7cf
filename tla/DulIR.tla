------------------------------- MODULE DulIR -------------------------------
(***************************************************************************)
(* The operations of the intermediate code (bytecodegen.h), and what each  *)
(* opcode says of its three arguments.                                     *)
(***************************************************************************)
EXTENDS Integers

(* enum opcodes: six variants of each of the four operations, then these.  *)
iwrite_         == 24
iwrite_m        == 25
fwrite_         == 26
fwrite_m        == 27
istore          == 28
fstore          == 29
cast_to_float   == 30
cast_to_float_m == 31

OpcodeOf == [PLUS |-> 0, MINUS |-> 6, MULT |-> 12, DIV |-> 18]

(* enum math_specs. *)
iop   == 0
fop   == 1
ioplm == 2
ioprm == 3
foplm == 4
foprm == 5

DulIROP(opcode, dest, first, second) ==
  [opcode |-> opcode, dest_arg |-> dest, first_arg |-> first, second_arg |-> second]

(* bytecodegen.c: is_arithmetic, imm_type and get_type_family. *)
is_arithmetic(opc) == opc < iwrite_
imm_type(opc) == LET spec == opc % 6
                 IN  CASE spec \in {iop, fop}     -> "NOT_M"
                       [] spec \in {ioplm, foplm} -> "IS_LM"
                       [] spec \in {ioprm, foprm} -> "IS_RM"
get_type_family(opc) == IF opc % 6 \in {iop, ioplm, ioprm} THEN "INT" ELSE "FLOAT"

Writes(op) == op.opcode \in {iwrite_, iwrite_m, fwrite_, fwrite_m}

(* The frame offsets and the static offsets an operation reads. *)
SlotsRead(op) ==
  CASE is_arithmetic(op.opcode) ->
         (IF imm_type(op.opcode) = "IS_LM" THEN {} ELSE {op.first_arg})
           \cup (IF imm_type(op.opcode) = "IS_RM" THEN {} ELSE {op.second_arg})
    [] op.opcode = cast_to_float          -> {op.first_arg}
    [] op.opcode \in {iwrite_, fwrite_}   -> {op.dest_arg}
    [] OTHER                              -> {}

(* The frame offsets that are printed with an operation: what it reads,    *)
(* and the place of its result.                                            *)
SlotsPrinted(op) == SlotsRead(op) \cup IF Writes(op) THEN {} ELSE {op.dest_arg}

StaticsRead(op) ==
  CASE is_arithmetic(op.opcode) ->
         (IF imm_type(op.opcode) = "IS_LM" THEN {op.first_arg} ELSE {})
           \cup (IF imm_type(op.opcode) = "IS_RM" THEN {op.second_arg} ELSE {})
    [] op.opcode \in {istore, fstore, cast_to_float_m} -> {op.first_arg}
    [] op.opcode \in {iwrite_m, fwrite_m}              -> {op.dest_arg}
    [] OTHER                                           -> {}

(* The type of the statics an operation reads. *)
StaticType(opc) ==
  CASE is_arithmetic(opc)                            -> get_type_family(opc)
    [] opc \in {istore, iwrite_m, cast_to_float_m}   -> "INT"
    [] OTHER                                         -> "FLOAT"
=============================================================================
