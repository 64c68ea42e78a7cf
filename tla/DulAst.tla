------------------------------- MODULE DulAst -------------------------------
(***************************************************************************)
(* The syntax tree the passes of the compiler share (astgen.h, astwork.c). *)
(*                                                                         *)
(* A node is an index into "heap", in the order astnode_new allocates;     *)
(* NULL, the null pointer, is 0.  The val of a node is <<"id", s>> for a   *)
(* name of the bytes s, a value of DulArith for a literal, NoVal for any   *)
(* other node.                                                             *)
(***************************************************************************)
EXTENDS DulArith, Sequences, SequencesExt

VARIABLES
  heap,   (* every astnode allocated so far                                *)
  root,   (* children of the COMPOUND root: the statements, in order       *)
  fault   (* "none", or the way the compiler process died                  *)

astVars == <<heap, root, fault>>

NULL == 0

(* enum astnodetype, the members the built parser creates; FREED marks a   *)
(* node given to free().                                                   *)
Additive       == {"PLUS", "MINUS"}
Multiplicative == {"MULT", "DIV"}
Arithmetic     == Additive \cup Multiplicative
Literals       == {"NUMLIT", "INTEGERLIT"}
Tops           == Literals \cup {"NAME"}
NodeTypes      == Arithmetic \cup Tops
                    \cup {"WRITE", "ASSIGN", "IFSTAT", "CAST_TO_FLOAT", "FREED"}

(* dul_type * of a node: NULL until generate_types reaches it.             *)
NodeTypeIds == {"NULL", "INT", "FLOAT"}

(* "undefined": memory was read that nothing wrote, or at an address that   *)
(* is none; what follows such a step is not modelled.                      *)
Faults == {"none", "null dereference", "SIGFPE", "undefined"}

(* astnode_val: the fields it initialises.                                 *)
NewNode(type, val, kids) ==
  [type |-> type, val |-> val, kids |-> kids, node_type |-> "NULL"]

NoVal == <<"none">>

(* The order in which a recursion over the tree leaves the nodes: the      *)
(* children it visits of a node, left to right, then the node.             *)
LeaveOrder(visits) ==
  LET leave[n \in DOMAIN heap] ==
        FlattenSeq([i \in DOMAIN visits[n] |-> leave[visits[n][i]]]) \o <<n>>
  IN  FlattenSeq([i \in DOMAIN root |-> leave[root[i]]])
=============================================================================
