------------------------------ MODULE DulArrays ------------------------------
(***************************************************************************)
(* The growing arrays of the compiler behind the lexer's: the statements   *)
(* of the root (astwork.c), the fields of the layout (type.c), the         *)
(* operations and the statics (bytecodegen.c).  The passes take them for   *)
(* sequences; this module says how far the memory behind them reaches.     *)
(***************************************************************************)
EXTENDS Integers

CONSTANTS
  Children, Fields, Ops, StaticBytes,   \* initial capacities
  OpGrowth, StaticGrowth,               \* what the arrays grow by
  MaxElements        \* bound: how far this model alone lets an array grow

ASSUME CapacitiesAssumption ==
  /\ Children \in Nat \ {0} /\ Fields \in Nat \ {0} /\ Ops \in Nat
  /\ StaticBytes \in Nat /\ StaticBytes > 8
  /\ OpGrowth \in Nat \ {0} /\ StaticGrowth \in Nat /\ StaticGrowth >= 8

(* count and cap are the members the code keeps (bytes of the statics,     *)
(* elements of the others); bytes is the size of the last malloc or        *)
(* realloc.                                                                *)
VARIABLES childArray, fieldArray, opArray, staticArray

arrayVars == <<childArray, fieldArray, opArray, staticArray>>

PointerSize == 8
EntrySize   == 24    \* struct field
OpSize      == 32    \* DulIROP

Array(count, cap, bytes) == [count |-> count, cap |-> cap, bytes |-> bytes]

ArraysInit ==
  /\ childArray  = Array(0, Children, PointerSize * Children)
  /\ fieldArray  = Array(0, Fields, EntrySize * Fields)
  /\ opArray     = Array(0, Ops, OpSize * Ops)
  /\ staticArray = Array(0, StaticBytes, StaticBytes)

(* ast_add_child: the new capacity is given to realloc for a size.         *)
GrowChildren ==
  childArray' = IF childArray.count = childArray.cap
                  THEN Array(childArray.count + 1, 2 * childArray.cap, 2 * childArray.cap)
                  ELSE [childArray EXCEPT !.count = @ + 1]

(* add_entry_to_layout_type: the field is counted before the test. *)
GrowFields ==
  fieldArray' = IF fieldArray.count + 1 = fieldArray.cap
                  THEN Array(fieldArray.count + 1, 2 * fieldArray.cap,
                             EntrySize * (2 * fieldArray.cap))
                  ELSE [fieldArray EXCEPT !.count = @ + 1]

(* A bug a run must notice: no element size, as in ast_add_child.          *)
GrowOps_Unsized ==
  opArray' = IF opArray.count = opArray.cap
               THEN Array(opArray.count + 1, opArray.cap + OpGrowth, opArray.cap + OpGrowth)
               ELSE [opArray EXCEPT !.count = @ + 1]

(* write_op. *)
GrowOps ==
  opArray' = IF opArray.count = opArray.cap
               THEN Array(opArray.count + 1, opArray.cap + OpGrowth,
                          OpSize * (opArray.cap + OpGrowth))
               ELSE [opArray EXCEPT !.count = @ + 1]

(* add_static: the test is the wrong way round, the array grows while      *)
(* there is room.                                                          *)
GrowStatics ==
  staticArray' = IF staticArray.count + 8 < staticArray.cap
                   THEN Array(staticArray.count + 8, staticArray.cap + StaticGrowth,
                              staticArray.cap + StaticGrowth)
                   ELSE [staticArray EXCEPT !.count = @ + 8]

(* The arrays by themselves, growing in any order. *)
ArraysNext ==
  \/ /\ childArray.count < MaxElements /\ GrowChildren
     /\ UNCHANGED <<fieldArray, opArray, staticArray>>
  \/ /\ fieldArray.count < MaxElements /\ GrowFields
     /\ UNCHANGED <<childArray, opArray, staticArray>>
  \/ /\ opArray.count < MaxElements /\ GrowOps
     /\ UNCHANGED <<childArray, fieldArray, staticArray>>
  \/ /\ staticArray.count < 8 * MaxElements /\ GrowStatics
     /\ UNCHANGED <<childArray, fieldArray, opArray>>

ArraysSpec == ArraysInit /\ [][ArraysNext]_arrayVars

(***************************************************************************)
(* Properties.                                                             *)
(***************************************************************************)
(* Every element lies in the memory of its array: the layout grows one     *)
(* field early, the operations in time, and the statics always.            *)
ArraysFit ==
  /\ EntrySize * fieldArray.count <= fieldArray.bytes
  /\ OpSize * opArray.count <= opArray.bytes
  /\ staticArray.count <= staticArray.bytes

(* formal_grammatics.md:13: <compound> ::== (<statement>)[ <statement> ],  *)
(* where [...] means none or any (line 5).  The statements of a program    *)
(* would lie in the memory of their array however many there are.          *)
ChildrenFit == PointerSize * childArray.count <= childArray.bytes
=============================================================================
