------------------------------ MODULE DulParser ------------------------------
(***************************************************************************)
(* The recursive-descent parser (asteasy.c, with the lexem iterator and    *)
(* the node constructors of astwork.c), one action per step of a function, *)
(* the C call stack made explicit.                                         *)
(***************************************************************************)
EXTENDS DulAst

CONSTANTS
  Streams,    \* the lexem streams the lexer may hand over
  Values      \* the values their lexems carry

VARIABLES
  lexems,     (* lexem_iterator.lstream                                    *)
  currlexem,  (* lexem_iterator.currlexem: 0-based, may run past the end   *)
  frames,     (* suspended calls of the astparse_* functions, last on top  *)
  ctl         (* what runs now: a function being entered ("stat", "plus",  *)
              (* "mult"), the loop of astparse_text ("text", "end"), or    *)
              (* the return of node ctl.arg to the top frame ("ret")       *)

parserVars == <<heap, root, fault, lexems, currlexem, frames, ctl>>

(***************************************************************************)
(* Lexems and the iterator.                                                *)
(***************************************************************************)
Lexem(type, val) == [type |-> type, val |-> val]
Special(s)       == Lexem("SPECIAL", <<"sp", s>>)
NoLexem          == Lexem("NONE", NoVal)

LexemTypes == {"IDENTIFIER", "STRLNGLITERAL", "NUMLITERAL", "NUMINTLITERAL",
               "SPECIAL", "NONE", "ERROR"}

ASSUME StreamsAssumption ==
  Streams \subseteq Seq([type : LexemTypes, val : Values])

(* The value of a SPECIAL is which one it is, and a lexem of type NONE is   *)
(* made up by get_current and by nothing else.                             *)
ASSUME SpelledAssumption ==
  \A stream \in Streams : \A i \in DOMAIN stream :
    /\ stream[i].type # "NONE"
    /\ stream[i].type = "SPECIAL" => stream[i] = Special(stream[i].val[2])

IsSpecial(lex, S) == lex.type = "SPECIAL" /\ lex.val[2] \in S

(* get_current of an iterator standing at pos. *)
LexemAt(pos) == IF pos >= Len(lexems) THEN NoLexem ELSE lexems[pos + 1]
Current      == LexemAt(currlexem)

(* The node type of an operator lexem, and the operators of each loop. *)
AdditiveOps       == {"plus", "minus"}
MultiplicativeOps == {"asterisk", "slash"}
OpsOf_Swapped(level) == IF level = "mult" THEN AdditiveOps ELSE MultiplicativeOps
OpsOf(level)      == IF level = "mult" THEN MultiplicativeOps ELSE AdditiveOps
NodeTypeOf(op)    == CASE op = "plus"     -> "PLUS"
                       [] op = "minus"    -> "MINUS"
                       [] op = "asterisk" -> "MULT"
                       [] op = "slash"    -> "DIV"

(* astparse_topl: the leaf a lexem makes; any other lexem makes no node.   *)
LeafType(lex) == CASE lex.type = "IDENTIFIER"    -> "NAME"
                   [] lex.type = "NUMLITERAL"    -> "NUMLIT"
                   [] lex.type = "NUMINTLITERAL" -> "INTEGERLIT"
                   [] OTHER                      -> "none"

(***************************************************************************)
(* Control.                                                                *)
(***************************************************************************)
Enter(f)      == [go |-> f, arg |-> NULL]
Return(n)     == [go |-> "ret", arg |-> n]
Frame(at, left, type) == [at |-> at, left |-> left, type |-> type]

StatFrames == {"write", "expr", "assign"}
PlusFrames == {"plus0", "plus"}

Top         == Last(frames)
Running(f)  == fault = "none" /\ ctl.go = f
Returning(S) == Running("ret") /\ frames # <<>> /\ Top.at \in S

Allocate(node) == heap' = Append(heap, node)
Fresh          == Len(heap) + 1

(* The test of the while loop of astparse_mult or astparse_plus, reached   *)
(* with the left operand built and the iterator at pos.                    *)
LoopTest(level, base, left, pos) ==
  IF IsSpecial(LexemAt(pos), OpsOf(level))
    THEN /\ frames' = Append(base, Frame(level, left,
                                         NodeTypeOf(LexemAt(pos).val[2])))
         /\ currlexem' = pos + 1
         /\ ctl' = Enter("mult")
    ELSE /\ frames' = base
         /\ currlexem' = pos
         /\ ctl' = Return(left)

ParserInit ==
  /\ heap = <<>> /\ root = <<>> /\ fault = "none"
  /\ lexems \in Streams
  /\ currlexem = 0
  /\ frames = <<>>
  /\ ctl = Enter("text")

(***************************************************************************)
(* astparse_text: one statement after the other until the lexems run out.  *)
(***************************************************************************)
NextStatement ==
  /\ Running("text")
  /\ ctl' = Enter(IF Current.type = "NONE" THEN "end" ELSE "stat")
  /\ UNCHANGED <<heap, root, fault, lexems, currlexem, frames>>

(* Bugs a run must notice: the NULL statement is added, or left out.       *)
AddStatement_Untested ==
  /\ Running("ret") /\ frames = <<>>
  /\ root' = Append(root, ctl.arg) /\ ctl' = Enter("text")
  /\ UNCHANGED <<heap, fault, lexems, currlexem, frames>>

AddStatement_Skipping ==
  /\ Running("ret") /\ frames = <<>>
  /\ root' = root \o (IF ctl.arg = NULL THEN <<>> ELSE <<ctl.arg>>)
  /\ ctl' = Enter("text")
  /\ UNCHANGED <<heap, fault, lexems, currlexem, frames>>

(* ast_add_child(root, statement): a NULL statement is dereferenced.  From *)
(* the 101st statement on realloc gets too few bytes and the children      *)
(* behind the 25th are written outside their array (DulArrays.ChildrenFit);*)
(* here they are all kept.                                                 *)
AddStatement ==
  /\ Running("ret") /\ frames = <<>>
  /\ IF ctl.arg = NULL
       THEN fault' = "null dereference" /\ UNCHANGED <<root, ctl>>
       ELSE /\ root' = Append(root, ctl.arg)
            /\ ctl' = Enter("text")
            /\ UNCHANGED fault
  /\ UNCHANGED <<heap, lexems, currlexem, frames>>

(***************************************************************************)
(* astparse_stat.                                                          *)
(***************************************************************************)
EnterWrite ==
  /\ Running("stat") /\ IsSpecial(Current, {"kwwrite"})
  /\ currlexem' = currlexem + 1
  /\ frames' = Append(frames, Frame("write", NULL, "WRITE"))
  /\ ctl' = Enter("plus")
  /\ UNCHANGED <<heap, root, fault, lexems>>

(* An "if" allocates a node nobody keeps and is then read as an expression. *)
EnterExpression ==
  /\ Running("stat") /\ ~IsSpecial(Current, {"kwwrite"})
  /\ IF IsSpecial(Current, {"kwif"})
       THEN Allocate(NewNode("IFSTAT", NoVal, <<>>))
       ELSE UNCHANGED heap
  /\ frames' = Append(frames, Frame("expr", NULL, "ASSIGN"))
  /\ ctl' = Enter("plus")
  /\ UNCHANGED <<root, fault, lexems, currlexem>>

(* The expression of a write is parsed: the next lexem is dropped whatever *)
(* it is, and astnode_new dereferences a NULL expression.                  *)
FinishWrite ==
  /\ Returning({"write"})
  /\ currlexem' = currlexem + 1
  /\ IF ctl.arg = NULL
       THEN fault' = "null dereference" /\ UNCHANGED <<heap, frames, ctl>>
       ELSE /\ Allocate(NewNode("WRITE", NoVal, <<ctl.arg>>))
            /\ frames' = Front(frames)
            /\ ctl' = Return(Fresh)
            /\ UNCHANGED fault
  /\ UNCHANGED <<root, lexems>>

(* The expression a statement starts with is parsed. *)
FinishExpression ==
  /\ Returning({"expr"})
  /\ CASE IsSpecial(Current, {"assign"}) ->
            /\ currlexem' = currlexem + 1
            /\ frames' = Append(Front(frames), Frame("assign", ctl.arg, "ASSIGN"))
            /\ ctl' = Enter("plus")
       [] IsSpecial(Current, {"EOL"}) ->
            /\ currlexem' = currlexem + 1
            /\ frames' = Front(frames)
            /\ ctl' = Return(ctl.arg)
       [] OTHER ->
            /\ frames' = Front(frames)
            /\ ctl' = Return(NULL)
            /\ UNCHANGED currlexem
  /\ UNCHANGED <<heap, root, fault, lexems>>

(* The right side of an assignment is parsed: again one lexem is dropped.  *)
FinishAssign ==
  /\ Returning({"assign"})
  /\ currlexem' = currlexem + 1
  /\ frames' = Front(frames)
  /\ IF Top.left = NULL \/ ctl.arg = NULL
       THEN ctl' = Return(NULL) /\ UNCHANGED heap
       ELSE /\ Allocate(NewNode("ASSIGN", NoVal, <<Top.left, ctl.arg>>))
            /\ ctl' = Return(Fresh)
  /\ UNCHANGED <<root, fault, lexems>>

(***************************************************************************)
(* astparse_plus and astparse_mult.                                        *)
(***************************************************************************)
EnterPlus ==
  /\ Running("plus")
  /\ frames' = Append(frames, Frame("plus0", NULL, "PLUS"))
  /\ ctl' = Enter("mult")
  /\ UNCHANGED <<heap, root, fault, lexems, currlexem>>

(* astparse_mult reads its left operand with astparse_topl, which always   *)
(* consumes a lexem.                                                       *)
EnterMult ==
  /\ Running("mult")
  /\ LET type == LeafType(Current) IN
       IF type = "none"
         THEN /\ LoopTest("mult", frames, NULL, currlexem + 1)
              /\ UNCHANGED heap
         ELSE /\ Allocate(NewNode(type, Current.val, <<>>))
              /\ LoopTest("mult", frames, Fresh, currlexem + 1)
  /\ UNCHANGED <<root, fault, lexems>>

(* The left operand of astparse_plus is parsed. *)
FirstOperand ==
  /\ Returning({"plus0"})
  /\ LoopTest("plus", Front(frames), ctl.arg, currlexem)
  /\ UNCHANGED <<heap, root, fault, lexems>>

(* Bugs a run must notice: a missing operand is not tested for, or only    *)
(* one operator is read where the code has a loop.                         *)
RightOperand_Untested(level) ==
  /\ Returning({level})
  /\ Allocate(NewNode(Top.type, NoVal, <<Top.left, ctl.arg>>))
  /\ LoopTest(level, Front(frames), Fresh, currlexem)
  /\ UNCHANGED <<root, fault, lexems>>

RightOperand_Once(level) ==
  /\ Returning({level})
  /\ frames' = Front(frames)
  /\ IF Top.left = NULL \/ ctl.arg = NULL
       THEN ctl' = Return(NULL) /\ UNCHANGED heap
       ELSE /\ Allocate(NewNode(Top.type, NoVal, <<Top.left, ctl.arg>>))
            /\ ctl' = Return(Fresh)
  /\ UNCHANGED <<root, fault, lexems, currlexem>>

(* A right operand is parsed, by astparse_mult in both loops. *)
RightOperand(level) ==
  /\ Returning({level})
  /\ IF Top.left = NULL \/ ctl.arg = NULL
       THEN /\ frames' = Front(frames)
            /\ ctl' = Return(NULL)
            /\ UNCHANGED <<heap, currlexem>>
       ELSE /\ Allocate(NewNode(Top.type, NoVal, <<Top.left, ctl.arg>>))
            /\ LoopTest(level, Front(frames), Fresh, currlexem)
  /\ UNCHANGED <<root, fault, lexems>>

ParserStep ==
  \/ NextStatement \/ AddStatement
  \/ EnterWrite \/ EnterExpression
  \/ FinishWrite \/ FinishExpression \/ FinishAssign
  \/ EnterPlus \/ EnterMult \/ FirstOperand
  \/ RightOperand("mult") \/ RightOperand("plus")

Parsed     == fault = "none" /\ ctl.go = "end"
ParserDone == (Parsed \/ fault # "none") /\ UNCHANGED parserVars

ParserNext == ParserStep \/ ParserDone

(* The compiler is one thread that nothing suspends. *)
ParserSpec == ParserInit /\ [][ParserNext]_parserVars /\ WF_parserVars(ParserStep)

(***************************************************************************)
(* Properties.                                                             *)
(***************************************************************************)
Nodes       == 1 .. Len(heap)
NodesOrNull == NULL .. Len(heap)
Expressions == Tops \cup Arithmetic

(* Type invariant: the fields of nodes and frames hold what astnode and    *)
(* the locals of the astparse_* functions may hold.                        *)
ParserTypeOK ==
  /\ heap \in Seq([type : NodeTypes \ {"CAST_TO_FLOAT", "FREED"},
                   val : Values \cup {NoVal}, kids : Seq(Nat), node_type : {"NULL"}])
  /\ root \in Seq(Nodes)
  /\ fault \in {"none", "null dereference"}
  /\ lexems \in Streams
  /\ currlexem \in Nat
  /\ frames \in Seq([at : StatFrames \cup PlusFrames \cup {"mult"},
                     left : NodesOrNull,
                     type : Arithmetic \cup {"WRITE", "ASSIGN"}])
  /\ ctl \in [go : {"text", "stat", "plus", "mult", "ret", "end"},
             arg : NodesOrNull]

(* What the passes behind the parser take for granted of a finished tree:  *)
(* the kinds and the number of the children of every node, children older  *)
(* than their parent (so the recursive walks end), products that never     *)
(* hold a sum and sums that never hold a sum on the right, which is how    *)
(* astparse_plus and astparse_mult implement precedence.                   *)
WellFormed(n) ==
  LET node  == heap[n]
      kid(i) == heap[node.kids[i]].type
  IN  /\ \A i \in DOMAIN node.kids : node.kids[i] \in 1 .. n - 1
      /\ node.type \in Tops \cup {"IFSTAT"} => node.kids = <<>>
      /\ node.type = "WRITE" => Len(node.kids) = 1 /\ kid(1) \in Expressions
      /\ node.type \in Arithmetic \cup {"ASSIGN"} =>
           Len(node.kids) = 2 /\ kid(1) \in Expressions /\ kid(2) \in Expressions
      /\ node.type \in Multiplicative => kid(1) \in Tops
      /\ node.type \in Arithmetic     => kid(2) \in Tops \cup Multiplicative

TreeShape ==
  /\ \A n \in Nodes : WellFormed(n)
  /\ \A i \in DOMAIN root :
       heap[root[i]].type \in Expressions \cup {"WRITE", "ASSIGN"}

(* The discipline of the call stack the tree shape rests on: astparse_stat *)
(* calls astparse_plus, which calls astparse_mult, which calls only        *)
(* itself; a function returns nodes of its own level or NULL; and a        *)
(* product comes back only when no multiplicative operator follows, so the *)
(* while loop of astparse_mult never goes round twice.                     *)
Kind(n, types) == n = NULL \/ heap[n].type \in types

FrameTypes(at) == CASE at = "mult"         -> Multiplicative
                    [] at \in PlusFrames   -> Additive
                    [] at = "write"        -> {"WRITE"}
                    [] OTHER               -> {"ASSIGN"}

CallStack ==
  /\ \A k \in DOMAIN frames :
       /\ frames[k].at \in StatFrames <=> k = 1
       /\ frames[k].at \in PlusFrames <=> k = 2
       /\ frames[k].type \in FrameTypes(frames[k].at)
       /\ Kind(frames[k].left, IF frames[k].at = "mult" THEN Tops ELSE Expressions)
  /\ ctl.go \in {"text", "stat", "end"} => frames = <<>>
  /\ ctl.go = "plus" => Len(frames) = 1
  /\ ctl.go = "mult" => Len(frames) >= 2
  /\ ctl.go = "ret"  =>
       /\ Len(frames) = 0 => Kind(ctl.arg, Expressions \cup {"WRITE", "ASSIGN"})
       /\ Len(frames) = 1 => Kind(ctl.arg, Expressions)
       /\ Len(frames) > 1 => Kind(ctl.arg, Tops \cup Multiplicative)
       /\ Len(frames) > 1 /\ ctl.arg # NULL => ~IsSpecial(Current, MultiplicativeOps)

(* Every node has one owner: a parent, the list of statements, or the C    *)
(* call that is still working on it.  A second owner would be a double     *)
(* free in destroy_astnode, and a node a finished parse has lost a leak;   *)
(* only the node that "if" allocates has no owner at all.                  *)
Pointers ==
  (UNION {{<<"child", n, i>> : i \in DOMAIN heap[n].kids} : n \in Nodes})
    \cup {<<"statement", i, 0>> : i \in DOMAIN root}
    \cup {<<"local", k, 0>> : k \in DOMAIN frames}
    \cup (IF ctl.go = "ret" THEN {<<"result", 0, 0>>} ELSE {})

Target(p) == CASE p[1] = "child"     -> heap[p[2]].kids[p[3]]
               [] p[1] = "statement" -> root[p[2]]
               [] p[1] = "local"     -> frames[p[2]].left
               [] p[1] = "result"    -> ctl.arg

Ownership ==
  /\ \A p, q \in Pointers : Target(p) = Target(q) /\ Target(p) # NULL => p = q
  /\ Parsed => \A n \in Nodes :
                 heap[n].type = "IFSTAT" \/ \E p \in Pointers : Target(p) = n

(* The parser implements the grammar: the statements in root are the trees *)
(* precedence gives, a program dies on a null pointer exactly where the    *)
(* grammar rejects it, and every program is read to an end.                *)
OperatorOf == [PLUS |-> "plus", MINUS |-> "minus", MULT |-> "asterisk",
               DIV |-> "slash", WRITE |-> "kwwrite", ASSIGN |-> "assign"]

TreeOf ==
  LET tree[n \in Nodes] ==
        LET node == heap[n] IN
          IF node.kids = <<>> THEN <<node.val>>
          ELSE <<<<"sp", OperatorOf[node.type]>>>>
                 \o [i \in DOMAIN node.kids |-> tree[node.kids[i]]]
  IN tree

Grammar == INSTANCE DulGrammar WITH
  program <- [i \in DOMAIN root |-> TreeOf[root[i]]],
  outcome <- CASE fault # "none"  -> "rejected"
               [] ctl.go = "end"  -> "accepted"
               [] OTHER           -> "reading"

ImplementsGrammar == Grammar!GrammarSpec

(* "grammar 2.0.md":8: <exp-mult> ::== <top> || <top> [*, /] <top>.  The   *)
(* right operand of a product would be a <top>.                            *)
RightOperandIsTop ==
  \A n \in Nodes : heap[n].type \in Multiplicative =>
                     heap[heap[n].kids[2]].type \in Tops

=============================================================================
