---------------------------- MODULE DulPassProofs ----------------------------
(***************************************************************************)
(* What the passes behind the parser find and leave: the optimizer frees   *)
(* no node that is still in use, and the type pass leaves a typed tree.    *)
(***************************************************************************)
EXTENDS DulCompiler, DulWalkProofs, DulParserProofs

(***************************************************************************)
(* The tree of every pass.                                                 *)
(***************************************************************************)

IsNode(r) == r = [type |-> r.type, val |-> r.val, kids |-> r.kids, node_type |-> r.node_type]

Operands == Expressions \cup {"CAST_TO_FLOAT"}

(* The children of a node: their number and their kinds.                   *)
KidsFit(h, n) ==
  LET node   == h[n]
      kid(i) == h[node.kids[i]].type
  IN  /\ node.type \in Tops \cup {"IFSTAT", "FREED"} => node.kids = <<>>
      /\ node.type \in {"WRITE", "CAST_TO_FLOAT"} =>
           Len(node.kids) = 1 /\ kid(1) \in Expressions
      /\ node.type = "ASSIGN" =>
           Len(node.kids) = 2 /\ kid(1) \in Expressions /\ kid(2) \in Expressions
      /\ node.type \in Arithmetic =>
           Len(node.kids) = 2 /\ kid(1) \in Operands /\ kid(2) \in Operands

NodeShape(h, n) ==
  /\ IsNode(h[n]) /\ h[n].type \in NodeTypes /\ h[n].kids \in Seq(1 .. Len(h))
  /\ h[n].type = "INTEGERLIT" => IsInt(h[n].val)
  /\ h[n].type = "NUMLIT"     => ~IsInt(h[n].val)
  /\ KidsFit(h, n)

(* A child is older than its parent, or a cast whose child is.             *)
Base(h, x) == IF h[x].type = "CAST_TO_FLOAT" THEN h[x].kids[1] ELSE x
Older(h)   == \A n \in 1 .. Len(h) : h[n].type # "CAST_TO_FLOAT" =>
                \A i \in 1 .. Len(h[n].kids) : Base(h, h[n].kids[i]) < n

StatementTypes == Expressions \cup {"WRITE", "ASSIGN"}

Tree(h, r) ==
  /\ Len(h) \in Nat /\ h = [n \in 1 .. Len(h) |-> h[n]]
  /\ r \in Seq(1 .. Len(h)) /\ Once(r) /\ KidsOnce(h)
  /\ \A i \in 1 .. Len(r) : r[i] \notin KidSet(h) /\ h[r[i]].type \in StatementTypes
  /\ \A n \in 1 .. Len(h) : NodeShape(h, n)
  /\ Older(h)

(***************************************************************************)
(* The optimizer's walk: every node once, its parent behind it, and every  *)
(* operation on two literals still to come.                                *)
(***************************************************************************)
Kids(h) == [n \in 1 .. Len(h) |-> h[n].kids]

Ahead(h, s) ==
  /\ s \in Seq(1 .. Len(h)) /\ Once(s)
  /\ \A p \in 1 .. Len(s) : \A n \in 1 .. Len(h) :
       Visits(Kids(h), n, s[p]) => \E q \in p + 1 .. Len(s) : s[q] = n

Folding ==
  /\ Ahead(heap, unfolded)
  /\ \A n \in 1 .. Len(heap) :
       /\ heap[n].node_type = "NULL" /\ heap[n].type # "CAST_TO_FLOAT"
       /\ Foldable(n) => \E p \in 1 .. Len(unfolded) : unfolded[p] = n

(***************************************************************************)
(* The type pass.                                                          *)
(***************************************************************************)
Typed(h, n) == h[n].node_type # "NULL"

(* The children whose types a node is given its type from.                 *)
Read(h, n) == {i \in 1 .. Len(h[n].kids) : h[n].type = "ASSIGN" => i = 2}

(* The target of an assignment, which is never visited.                    *)
Named(h, x) == \E s \in 1 .. Len(h) : h[s].type = "ASSIGN" /\ h[s].kids[1] = x

FoldableIn(h, n) == h[n].type \in Arithmetic /\ \A i \in 1 .. 2 : h[h[n].kids[i]].type \in Literals

FieldsIn(l, name) == {i \in DOMAIN l : l[i].name = name}
TypeIn(l, name)   == l[CHOOSE i \in FieldsIn(l, name) : TRUE].field_t
NameIn(h, n)      == CName(h[n])
LayoutTypes(l)    == \E F : l \in Seq([name : F, field_t : {"INT", "FLOAT"}])

(* A node that has its type is well typed, what it reads has one, and the  *)
(* target of an assignment has a field.                                    *)
Settled(h, l, n) ==
  LET type(i) == h[h[n].kids[i]].node_type
  IN  /\ h[n].node_type \in {"INT", "FLOAT"}
      /\ h[n].type \in Arithmetic => type(1) = h[n].node_type /\ type(2) = h[n].node_type
      /\ h[n].type = "CAST_TO_FLOAT" => type(1) = "INT" /\ h[n].node_type = "FLOAT"
      /\ h[n].type \in Literals => h[n].node_type = FamilyOf(h[n].val)
      /\ h[n].type = "NAME" => /\ FieldsIn(l, h[n].val) # {}
                               /\ h[n].node_type = TypeIn(l, h[n].val)
      /\ h[n].type = "ASSIGN" => FieldsIn(l, NameIn(h, h[n].kids[1])) # {}
      /\ \A i \in Read(h, n) : Typed(h, h[n].kids[i])

(* A node still to leave has no type, and what it reads comes before it.   *)
Waiting(h, u, p) ==
  LET n == u[p]
  IN  /\ ~Typed(h, n) /\ h[n].type # "CAST_TO_FLOAT" /\ ~Named(h, n)
      /\ \A i \in Read(h, n) :
           Typed(h, h[n].kids[i]) \/ \E q \in 1 .. p - 1 : u[q] = h[n].kids[i]

Types(h, r, u, l) ==
  /\ \A n \in 1 .. Len(h) : ~FoldableIn(h, n)
  /\ u \in Seq(1 .. Len(h)) /\ Once(u)
  /\ \A p \in 1 .. Len(u) : Waiting(h, u, p)
  /\ \A i \in 1 .. Len(r) : Typed(h, r[i]) \/ \E q \in 1 .. Len(u) : u[q] = r[i]
  /\ \A n \in 1 .. Len(h) : Typed(h, n) /\ ~Named(h, n) => Settled(h, l, n)
  /\ LayoutTypes(l)

(* A sequence whose elements lie in T is a sequence of T.                  *)
LEMMA SeqInto ==
  ASSUME NEW S, NEW T, NEW s \in Seq(S), \A i \in 1 .. Len(s) : s[i] \in T
  PROVE  s \in Seq(T)
BY SeqDef

(***************************************************************************)
(* The values of literals, from the lexer to the finished tree.            *)
(***************************************************************************)
LiteralLexem(lex) == /\ lex.type = "NUMINTLITERAL" => IsInt(lex.val)
                     /\ lex.type = "NUMLITERAL"    => ~IsInt(lex.val)
LiteralNode(node) == /\ node.type = "INTEGERLIT" => IsInt(node.val)
                     /\ node.type = "NUMLIT"     => ~IsInt(node.val)
LiteralVals == /\ \A pos \in Nat : LiteralLexem(LexemAt(pos))
               /\ \A n \in Nodes : LiteralNode(heap[n])

(* The parser builds a literal from its lexem and leaves it alone.         *)
LEMMA AllocateLiteral ==
  ASSUME NEW V, ParserInv(V), LiteralVals, UNCHANGED lexems,
         NEW node, node \in NodeRecord(V), LiteralNode(node), Allocate(node)
  PROVE  LiteralVals'
<1>1. /\ Len(heap) \in Nat /\ Len(heap') = Len(heap) + 1 /\ heap'[Len(heap) + 1] = node
      /\ \A n \in 1 .. Len(heap) : heap'[n] = heap[n]
  BY AllocateFacts DEF ParserInv
<1>2. \A n \in 1 .. Len(heap) : LiteralNode(heap[n])
  BY DEF LiteralVals, Nodes
<1>3. ASSUME NEW n \in 1 .. Len(heap) + 1 PROVE LiteralNode(heap'[n])
  <2>1. CASE n = Len(heap) + 1
    BY <1>1, <2>1
  <2>2. CASE n # Len(heap) + 1
    <3>1. n \in 1 .. Len(heap)
      BY <1>1, <2>2
    <3> QED BY <1>1, <1>2, <3>1
  <2> QED BY <2>1, <2>2
<1>4. \A pos \in Nat : LexemAt(pos)' = LexemAt(pos)
  BY DEF LexemAt
<1> QED BY <1>1, <1>3, <1>4 DEF LiteralVals, Nodes

(* Whether a node has the value of its type is decided when it is built.   *)
LEMMA LiteralStep ==
  ASSUME NEW V, ParserInv(V), LiteralVals, ParserStep
  PROVE  LiteralVals'
<1>1. UNCHANGED lexems
  BY DEF ParserStep, NextStatement, AddStatement, EnterWrite, EnterExpression,
     FinishWrite, FinishExpression, FinishAssign, EnterPlus, EnterMult,
     FirstOperand, RightOperand
<1>2. CASE UNCHANGED heap
  BY <1>1, <1>2 DEF LiteralVals, LexemAt, Nodes
<1>3. ASSUME NEW type \in BuiltTypes \ Literals, NEW kids \in Seq(Nat),
             Allocate(NewNode(type, NoVal, kids))
      PROVE  LiteralVals'
  <2> DEFINE node == NewNode(type, NoVal, kids)
  <2>1. node \in NodeRecord(V) /\ LiteralNode(node)
    BY DEF NewNode, NodeRecord, BuiltTypes, LiteralNode, Literals
  <2> QED BY <1>1, <1>3, <2>1, AllocateLiteral
<1>4. /\ \A k \in 0 .. Len(heap) : <<k>> \in Seq(Nat)
      /\ \A k, l \in 0 .. Len(heap) : <<k, l>> \in Seq(Nat)
      /\ <<>> \in Seq(Nat) /\ ctl.arg \in 0 .. Len(heap)
  BY ArgFacts
<1>5. CASE EnterExpression
  <2>1. "IFSTAT" \in BuiltTypes \ Literals
    BY DEF BuiltTypes, Literals, NodeTypes
  <2> QED BY <1>2, <1>3, <1>4, <1>5, <2>1 DEF EnterExpression
<1>6. CASE FinishWrite
  <2>1. "WRITE" \in BuiltTypes \ Literals
    BY DEF BuiltTypes, Literals, NodeTypes
  <2> QED BY <1>2, <1>3, <1>4, <1>6, <2>1 DEF FinishWrite
<1>7. CASE FinishAssign
  <2>1. "ASSIGN" \in BuiltTypes \ Literals
    BY DEF BuiltTypes, Literals, NodeTypes
  <2>2. Top.left \in 0 .. Len(heap)
    BY <1>7, TopFrameNow DEF FinishAssign
  <2> QED BY <1>2, <1>3, <1>4, <1>7, <2>1, <2>2 DEF FinishAssign
<1>8. ASSUME NEW level \in {"mult", "plus"}, RightOperand(level) PROVE LiteralVals'
  <2>1. Top.left \in 0 .. Len(heap) /\ FrameOK(heap, Len(frames), Top) /\ Top.at = level
    BY <1>8, TopFrameNow DEF RightOperand
  <2>2. Top.type \in BuiltTypes \ Literals
    BY <2>1 DEF FrameOK, FrameTypes, StatFrames, PlusFrames, BuiltTypes, NodeTypes, Arithmetic,
               Additive, Multiplicative, Literals
  <2> QED BY <1>2, <1>3, <1>4, <1>8, <2>1, <2>2 DEF RightOperand
<1>9. CASE EnterMult
  <2> DEFINE type == LeafType(Current)
  <2>1. CASE type = "none"
    BY <1>2, <1>9, <2>1 DEF EnterMult
  <2>2. CASE type # "none"
    <3>1. Allocate(NewNode(type, Current.val, <<>>))
      BY <1>9, <2>2 DEF EnterMult
    <3>2. Current.val \in V \cup {NoVal} /\ LiteralLexem(Current)
      BY DEF Current, ParserInv, ParserTypes, LiteralVals
    <3>3. /\ type \in BuiltTypes
          /\ type = "INTEGERLIT" => IsInt(Current.val)
          /\ type = "NUMLIT" => ~IsInt(Current.val)
      BY <2>2, <3>2 DEF LeafType, BuiltTypes, NodeTypes, Tops, Literals, LiteralLexem
    <3>4. NewNode(type, Current.val, <<>>) \in NodeRecord(V)
      BY <1>4, <3>2, <3>3 DEF NewNode, NodeRecord
    <3>5. LiteralNode(NewNode(type, Current.val, <<>>))
      BY <3>3 DEF NewNode, LiteralNode
    <3> QED BY <1>1, <3>1, <3>4, <3>5, AllocateLiteral
  <2> QED BY <2>1, <2>2
<1>10. CASE NextStatement \/ AddStatement \/ EnterWrite \/ FinishExpression \/ EnterPlus \/ FirstOperand
  BY <1>2, <1>10 DEF NextStatement, AddStatement, EnterWrite, FinishExpression, EnterPlus,
                     FirstOperand
<1> QED BY <1>5, <1>6, <1>7, <1>8, <1>9, <1>10 DEF ParserStep

(* The compiler before the first node: the lexer is still at work.         *)
Reading ==
  /\ heap = <<>> /\ root = <<>> /\ lexems = <<>> /\ currlexem = 0
  /\ frames = <<>> /\ ctl = Enter("text")
  /\ \E T : tokens \in Seq(T)

Parsing == \E V : ParserInv(V) /\ OwnInv /\ LiteralVals

(* A lexem is added behind the others, or none is.                         *)
LEMMA TokensGrow ==
  ASSUME Reading, ReadText
  PROVE  Reading'
<1>1. PICK T : tokens \in Seq(T)
  BY DEF Reading
<1>2. ASSUME NEW type, NEW value, NEW end, Lexer!Take(type, value, end)
      PROVE  \E U : tokens' \in Seq(U)
  <2>1. tokens' = tokens \/ tokens' = Append(tokens, Lexer!Lexem(type, value, end))
    BY <1>2 DEF Lexer!Take, Lexer!add_lexem
  <2>2. tokens' \in Seq(T \cup {Lexer!Lexem(type, value, end)})
    BY <1>1, <2>1
  <2> QED BY <2>2
<1>3. \E U : tokens' \in Seq(U)
  BY <1>2 DEF ReadText, Lexer!LexerStep, Lexer!TakeString, Lexer!TakeSpecial, Lexer!TakeWord,
     Lexer!TakeNumber, Lexer!TakeEol, Lexer!TakeError
<1> QED BY <1>3 DEF Reading, ReadText, walkerVars

(* What the lexer hands over are numbers where the parser takes them for   *)
(* numbers.                                                                *)
LEMMA HandOverParses ==
  ASSUME Reading, HandOver
  PROVE  Parsing'
<1>1. PICK T : tokens \in Seq(T)
  BY DEF Reading
<1>2. /\ heap' = <<>> /\ root' = <<>> /\ currlexem' = 0 /\ frames' = <<>> /\ ctl' = Enter("text")
      /\ fault' = "none" /\ lexems' = [i \in DOMAIN tokens |-> LexemOf(tokens[i])]
  BY DEF Reading, HandOver, Then, In, astVars
<1>3. /\ Len(tokens) \in Nat /\ DOMAIN tokens = 1 .. Len(tokens)
      /\ Len(lexems') = Len(tokens) /\ DOMAIN lexems' = 1 .. Len(tokens)
      /\ \A i \in 1 .. Len(tokens) : lexems'[i] = LexemOf(tokens[i])
  <2>1. Len(tokens) \in Nat /\ DOMAIN tokens = 1 .. Len(tokens)
    BY <1>1, LenProperties
  <2> DEFINE f(i) == LexemOf(tokens[i])
  <2>2. lexems' = [i \in 1 .. Len(tokens) |-> f(i)]
    BY <1>2, <2>1
  <2> HIDE DEF f
  <2>3. Len(lexems') = Len(tokens) /\ DOMAIN lexems' = 1 .. Len(tokens)
        /\ \A i \in 1 .. Len(tokens) : lexems'[i] = f(i)
    BY <2>1, <2>2
  <2> QED BY <2>1, <2>3 DEF f
<1>4. ASSUME NEW token PROVE LiteralLexem(LexemOf(token))
  BY DEF LexemOf, LiteralLexem, IsInt, Lexem, Special
<1>5. ASSUME NEW pos \in Nat
      PROVE  \/ LexemAt(pos)' = NoLexem
             \/ pos + 1 \in 1 .. Len(tokens) /\ LexemAt(pos)' = LexemOf(tokens[pos + 1])
  BY <1>3 DEF LexemAt
<1>6. LiteralVals'
  <2>1. LiteralLexem(NoLexem)
    BY DEF LiteralLexem, NoLexem, Lexem
  <2>2. \A pos \in Nat : LiteralLexem(LexemAt(pos)')
    BY <1>4, <1>5, <2>1
  <2> QED BY <1>2, <2>2 DEF LiteralVals, LiteralLexem, Nodes
<1>7. PICK V : V = {LexemOf(tokens[i]).val : i \in 1 .. Len(tokens)}
  OBVIOUS
<1>8. \A pos \in Nat : LexemAt(pos)'.val \in V \cup {NoVal}
  <2>1. NoLexem.val = NoVal
    BY DEF NoLexem, Lexem
  <2> QED BY <1>5, <1>7, <2>1
<1>9. ParserInv(V)'
  <2>3. /\ heap' \in Seq(NodeRecord(V)) /\ root' \in Seq(Nodes') /\ currlexem' \in Nat
        /\ frames' \in Seq(FrameRecord(heap'))
    BY <1>2
  <2>4. ctl' \in [go : {"text", "stat", "plus", "mult", "ret", "end"}, arg : 0 .. Len(heap')]
    BY <1>2 DEF Enter, NULL
  <2>5. \A pos \in Nat : LexemAt(pos).val' \in V \cup {NoVal}
    BY <1>8
  <2>1. ParserTypes(V)'
    <3>1. fault' \in {"none", "null dereference"}
      BY <1>2
    <3> QED BY <2>3, <2>4, <2>5, <3>1, Zenon DEF ParserTypes
  <2>2. TreeShape' /\ CallStack'
    BY <1>2 DEF TreeShape, CallStack, Nodes, Enter
  <2> QED BY <2>1, <2>2 DEF ParserInv
<1>10. OwnInv'
  <2>1. KidSet(heap') = {} /\ StmSet(root') = {} /\ LocSet(frames') = {} /\ ResSet(ctl') = {}
    BY <1>2 DEF KidSet, StmSet, LocSet, ResSet, Enter
  <2>2. KidsOnce(heap') /\ Once(root') /\ LocalsOnce(frames') /\ NoneLost(heap', root', frames', ctl')
    BY <1>2 DEF KidsOnce, Once, LocalsOnce, NoneLost
  <2> QED BY <2>1, <2>2 DEF OwnInv, Sole, Working
<1> QED BY <1>6, <1>9, <1>10 DEF Parsing

(***************************************************************************)
(* The tree the parser has finished.                                       *)
(***************************************************************************)

(* The sequence of the children of a node, by their numbers.               *)
LEMMA KidsOfTree ==
  ASSUME NEW h, NEW r, Tree(h, r), NEW n \in 1 .. Len(h)
  PROVE  /\ NodeShape(h, n)
         /\ h[n].kids \in Seq(1 .. Len(h)) /\ Len(h[n].kids) \in Nat
         /\ DOMAIN h[n].kids = 1 .. Len(h[n].kids)
         /\ \A i \in 1 .. Len(h[n].kids) : h[n].kids[i] \in 1 .. Len(h)
<1>1. NodeShape(h, n)
  BY DEF Tree
<1>2. h[n].kids \in Seq(1 .. Len(h))
  BY <1>1 DEF NodeShape
<1> QED BY <1>1, <1>2, LenProperties, ElementOfSeq

(* What the parser leaves has the shape the passes need.                   *)
LEMMA ParsedTree ==
  ASSUME Parsing
  PROVE  /\ Tree(heap, root)
         /\ \A n \in Nodes : heap[n].node_type = "NULL" /\ heap[n].type # "CAST_TO_FLOAT"
<1>1. PICK V : ParserInv(V) /\ OwnInv /\ LiteralVals
  BY DEF Parsing
<1>2. /\ heap \in Seq(NodeRecord(V)) /\ Len(heap) \in Nat /\ DOMAIN heap = 1 .. Len(heap)
      /\ heap = [n \in 1 .. Len(heap) |-> heap[n]]
  <2>1. heap \in Seq(NodeRecord(V))
    BY <1>1 DEF ParserInv, ParserTypes
  <2> QED BY <2>1
<1>3. ASSUME NEW n \in 1 .. Len(heap)
      PROVE  /\ IsNode(heap[n]) /\ heap[n].type \in BuiltTypes
             /\ heap[n].kids \in Seq(Nat) /\ heap[n].node_type = "NULL"
  <2>1. heap[n] \in NodeRecord(V)
    BY <1>2, ElementOfSeq
  <2> QED BY <2>1 DEF NodeRecord, IsNode
<1>4. ASSUME NEW n \in 1 .. Len(heap) PROVE heap[n].type # "CAST_TO_FLOAT"
  BY <1>3 DEF BuiltTypes
<1>5. ASSUME NEW n \in 1 .. Len(heap)
      PROVE  /\ WellFormed(n) /\ Len(heap[n].kids) \in Nat
             /\ \A i \in 1 .. Len(heap[n].kids) : heap[n].kids[i] \in 1 .. n - 1
             /\ heap[n].kids \in Seq(1 .. Len(heap))
  <2>1. WellFormed(n)
    BY <1>1 DEF ParserInv, TreeShape, Nodes
  <2>2. heap[n].kids \in Seq(Nat)
    BY <1>3
  <2>3. Len(heap[n].kids) \in Nat /\ DOMAIN heap[n].kids = 1 .. Len(heap[n].kids)
    BY <2>2
  <2>4. \A i \in 1 .. Len(heap[n].kids) : heap[n].kids[i] \in 1 .. n - 1
    BY <2>1, <2>3 DEF WellFormed
  <2>5. \A i \in 1 .. Len(heap[n].kids) : heap[n].kids[i] \in 1 .. Len(heap)
    BY <1>2, <2>4
  <2>6. heap[n].kids \in Seq(1 .. Len(heap))
    BY <2>2, <2>5, SeqDef
  <2> QED BY <2>1, <2>3, <2>4, <2>6
<1>6. ASSUME NEW n \in 1 .. Len(heap) PROVE NodeShape(heap, n)
  <2>1. heap[n].type \in NodeTypes \ {"CAST_TO_FLOAT", "FREED"}
    BY <1>3 DEF BuiltTypes
  <2>2. LiteralNode(heap[n])
    BY <1>1 DEF LiteralVals, Nodes
  <2>3. KidsFit(heap, n)
    BY <1>5, <2>1 DEF WellFormed, KidsFit, Operands
  <2> QED BY <1>3, <1>5, <2>1, <2>2, <2>3 DEF NodeShape, LiteralNode
<1>7. Older(heap)
  BY <1>4, <1>5, <1>2, SMTT(30) DEF Older, Base
<1>8. /\ root \in Seq(1 .. Len(heap)) /\ Once(root) /\ KidsOnce(heap)
      /\ \A i \in 1 .. Len(root) : root[i] \notin KidSet(heap)
      /\ \A i \in 1 .. Len(root) : heap[root[i]].type \in StatementTypes
  <2>1. root \in Seq(1 .. Len(heap))
    BY <1>1 DEF ParserInv, ParserTypes, Nodes
  <2>2. DOMAIN root = 1 .. Len(root)
    BY <2>1
  <2>3. \A i \in 1 .. Len(root) : heap[root[i]].type \in StatementTypes
    BY <1>1, <2>2 DEF ParserInv, TreeShape, StatementTypes
  <2> QED BY <1>1, <2>1, <2>3 DEF OwnInv, Sole, StmSet
<1> QED BY <1>2, <1>3, <1>4, <1>6, <1>7, <1>8 DEF Tree, Nodes

(***************************************************************************)
(* A pass that visits the children of a node, or all but the first ones,   *)
(* walks over a forest.                                                    *)
(***************************************************************************)
Rank(h) == [n \in 1 .. Len(h) |-> IF h[n].type = "CAST_TO_FLOAT" THEN 2 * h[n].kids[1] + 1
                                                                 ELSE 2 * n]

VisitsKids(h, visits, skip) ==
  /\ visits \in [1 .. Len(h) -> Seq(1 .. Len(h))]
  /\ \A n \in 1 .. Len(h) :
       /\ skip[n] \in Nat
       /\ Len(visits[n]) + skip[n] = Len(h[n].kids)
       /\ \A i \in 1 .. Len(visits[n]) : visits[n][i] = h[n].kids[i + skip[n]]

(* A child is the child of one node, and comes before it.                  *)
LEMMA VisitsForest ==
  ASSUME NEW h, NEW r, Tree(h, r), NEW visits, NEW skip, VisitsKids(h, visits, skip)
  PROVE  Forest(1 .. Len(h), visits, Rank(h), 2 * Len(h) + 1)
<1>1. Len(h) \in Nat /\ 2 * Len(h) + 1 \in Nat
  BY DEF Tree
<1>2. ASSUME NEW n \in 1 .. Len(h)
      PROVE  /\ Len(visits[n]) \in Nat /\ DOMAIN visits[n] = 1 .. Len(visits[n])
             /\ \A i \in 1 .. Len(visits[n]) :
                  i + skip[n] \in 1 .. Len(h[n].kids) /\ visits[n][i] = h[n].kids[i + skip[n]]
  <2>1. visits[n] \in Seq(1 .. Len(h))
    BY DEF VisitsKids
  <2>2. Len(visits[n]) \in Nat /\ DOMAIN visits[n] = 1 .. Len(visits[n])
    BY <2>1
  <2>3. /\ skip[n] \in Nat /\ Len(visits[n]) + skip[n] = Len(h[n].kids)
        /\ \A i \in 1 .. Len(visits[n]) : visits[n][i] = h[n].kids[i + skip[n]]
    BY DEF VisitsKids
  <2> QED BY <2>2, <2>3, SMTT(30)
<1>3. ASSUME NEW n \in 1 .. Len(h)
      PROVE  /\ Rank(h)[n] \in 0 .. 2 * Len(h) + 1
             /\ Rank(h)[n] = IF h[n].type = "CAST_TO_FLOAT" THEN 2 * h[n].kids[1] + 1 ELSE 2 * n
  <2>1. h[n].type = "CAST_TO_FLOAT" => h[n].kids[1] \in 1 .. Len(h)
    BY KidsOfTree DEF NodeShape, KidsFit
  <2> QED BY <1>1, <2>1 DEF Rank
<1>4. Rank(h) \in [1 .. Len(h) -> 0 .. 2 * Len(h) + 1]
  <2>1. DOMAIN Rank(h) = 1 .. Len(h)
    BY DEF Rank
  <2> QED BY <1>3, <2>1 DEF Rank
<1>5. ASSUME NEW n \in 1 .. Len(h), NEW j \in 1 .. Len(h[n].kids)
      PROVE  Rank(h)[h[n].kids[j]] < Rank(h)[n]
  <2> DEFINE x == h[n].kids[j]
  <2>1. x \in 1 .. Len(h) /\ NodeShape(h, n) /\ NodeShape(h, x)
    BY KidsOfTree
  <2>2. CASE h[n].type = "CAST_TO_FLOAT"
    <3>4. Len(h[n].kids) = 1 /\ h[h[n].kids[1]].type \in Expressions
      BY <2>1, <2>2 DEF NodeShape, KidsFit
    <3>1. j = 1 /\ h[x].type \in Expressions
      BY <3>4
    <3>2. h[x].type # "CAST_TO_FLOAT"
      BY <3>1 DEF Expressions, Tops, Literals, Arithmetic, Additive, Multiplicative
    <3> HIDE DEF x
    <3>3. Rank(h)[x] = 2 * x /\ Rank(h)[n] = 2 * h[n].kids[1] + 1
      BY <1>3, <2>1, <2>2, <3>2
    <3> QED BY <3>1, <3>3, <2>1 DEF x
  <2>3. CASE h[n].type # "CAST_TO_FLOAT"
    <3>1. Base(h, x) < n
      BY <2>3 DEF Tree, Older
    <3> HIDE DEF x
    <3>4. /\ h[x].type = "CAST_TO_FLOAT" => Len(h[x].kids) = 1
          /\ \A i \in 1 .. Len(h[x].kids) : h[x].kids[i] \in 1 .. Len(h)
      BY <2>1, KidsOfTree DEF NodeShape, KidsFit
    <3>2. h[x].type = "CAST_TO_FLOAT" => h[x].kids[1] \in 1 .. Len(h)
      BY <3>4
    <3>3. Rank(h)[x] = (IF h[x].type = "CAST_TO_FLOAT" THEN 2 * h[x].kids[1] + 1 ELSE 2 * x)
          /\ Rank(h)[n] = 2 * n
      BY <1>3, <2>1, <2>3
    <3>5. x \in Int /\ n \in Int
      BY <2>1
    <3>6. CASE h[x].type = "CAST_TO_FLOAT"
      <4>1. h[x].kids[1] < n /\ h[x].kids[1] \in Int
        BY <3>1, <3>2, <3>6 DEF Base
      <4>2. Rank(h)[x] = 2 * h[x].kids[1] + 1
        BY <3>3, <3>6
      <4> QED BY <3>3, <3>5, <4>1, <4>2 DEF x
    <3>7. CASE h[x].type # "CAST_TO_FLOAT"
      <4>1. x < n /\ Rank(h)[x] = 2 * x
        BY <3>1, <3>3, <3>7 DEF Base
      <4> QED BY <3>3, <3>5, <4>1 DEF x
    <3> QED BY <3>6, <3>7
  <2> QED BY <2>2, <2>3
<1>6. ASSUME NEW n \in 1 .. Len(h), NEW i \in 1 .. Len(visits[n])
      PROVE  Rank(h)[visits[n][i]] < Rank(h)[n]
  BY <1>2, <1>5
<1>7. ASSUME NEW n \in 1 .. Len(h), NEW o \in 1 .. Len(h),
             NEW i \in 1 .. Len(visits[n]), NEW j \in 1 .. Len(visits[o]),
             visits[n][i] = visits[o][j]
      PROVE  n = o /\ i = j
  <2>1. i + skip[n] \in DOMAIN h[n].kids /\ j + skip[o] \in DOMAIN h[o].kids
        /\ h[n].kids[i + skip[n]] = h[o].kids[j + skip[o]]
    <3>1. DOMAIN h[n].kids = 1 .. Len(h[n].kids) /\ DOMAIN h[o].kids = 1 .. Len(h[o].kids)
      BY KidsOfTree
    <3> QED BY <1>2, <1>7, <3>1
  <2>2. n = o /\ i + skip[n] = j + skip[o]
    BY <2>1 DEF Tree, KidsOnce
  <2>3. skip[n] \in Nat /\ i \in Int /\ j \in Int
    BY <1>2 DEF VisitsKids
  <2> QED BY <2>2, <2>3
<1>8. visits \in [1 .. Len(h) -> Seq(1 .. Len(h))]
  BY DEF VisitsKids
<1> QED BY <1>1, <1>4, <1>6, <1>7, <1>8 DEF Forest

(* So LeaveOrder gives every node it reaches once, its parent behind it.   *)
LEMMA WalkTour ==
  ASSUME Tree(heap, root), NEW visits, NEW skip, VisitsKids(heap, visits, skip)
  PROVE  Tour(1 .. Len(heap), visits, {root[i] : i \in 1 .. Len(root)}, LeaveOrder(visits))
<1>1. DOMAIN heap = 1 .. Len(heap)
  BY DEF Tree
<1>2. Forest(1 .. Len(heap), visits, Rank(heap), 2 * Len(heap) + 1)
  BY VisitsForest
<1>3. ASSUME NEW i \in 1 .. Len(root), NEW n \in 1 .. Len(heap), Visits(visits, n, root[i])
      PROVE  FALSE
  <2>1. PICK j \in 1 .. Len(visits[n]) : visits[n][j] = root[i]
    BY <1>3 DEF Visits
  <2>2. /\ skip[n] \in Nat /\ Len(visits[n]) + skip[n] = Len(heap[n].kids)
        /\ visits[n][j] = heap[n].kids[j + skip[n]]
    BY DEF VisitsKids
  <2>3. Len(heap[n].kids) \in Nat /\ DOMAIN heap[n].kids = 1 .. Len(heap[n].kids)
        /\ root[i] \in Nat
    BY KidsOfTree, ElementOfSeq, <1>1 DEF Tree
  <2>4. Len(visits[n]) \in Nat
    <3>1. visits[n] \in Seq(1 .. Len(heap))
      BY DEF VisitsKids
    <3> QED BY <3>1
  <2>5. j + skip[n] \in DOMAIN heap[n].kids
    BY <2>2, <2>3, <2>4, SMTT(30)
  <2>6. root[i] \in KidSet(heap)
    BY <2>1, <2>2, <2>3, <2>5 DEF KidSet
  <2> QED BY <2>6 DEF Tree
<1>4. root \in Seq(1 .. Len(heap)) /\ \A i, j \in 1 .. Len(root) : root[i] = root[j] => i = j
  BY DEF Tree, Once
<1>5. PICK rank, m : Forest(DOMAIN heap, visits, rank, m)
  BY <1>1, <1>2
<1>6. Tour(DOMAIN heap, visits, {root[i] : i \in 1 .. Len(root)}, LeaveOrder(visits))
  BY <1>1, <1>3, <1>4, <1>5, LeaveOrderTour
<1> QED BY <1>1, <1>6

(***************************************************************************)
(* The optimizer.                                                          *)
(***************************************************************************)

(* Every node that is no IFSTAT hangs below a statement: its walk does not *)
(* miss one.                                                               *)
LEMMA WalkMeetsAll ==
  ASSUME Parsing, Parsed, NEW s,
         Tour(1 .. Len(heap), Kids(heap), {root[i] : i \in 1 .. Len(root)}, s)
  PROVE  \A n \in 1 .. Len(heap) : heap[n].type # "IFSTAT" => \E p \in 1 .. Len(s) : s[p] = n
<1> DEFINE T == {n \in 1 .. Len(heap) : heap[n].type # "IFSTAT" /\ \A p \in 1 .. Len(s) : s[p] # n}
<1> SUFFICES ASSUME T # {} PROVE FALSE
  OBVIOUS
<1>1. Tree(heap, root) /\ \A n \in 1 .. Len(heap) : heap[n].type # "CAST_TO_FLOAT"
  BY ParsedTree DEF Nodes
<1>2. PICK n \in T : \A o \in T : o <= n
  <2>1. Len(heap) \in Nat /\ T \in SUBSET (0 .. Len(heap))
    BY <1>1 DEF Tree
  <2> QED BY <2>1, GreatestNumber
<1>3. PICK V : ParserInv(V) /\ OwnInv
  BY DEF Parsing
<1>4. n \in KidSet(heap) \cup StmSet(root)
  <2>1. ctl.go = "end" /\ fault = "none" /\ frames = <<>>
    BY <1>3 DEF Parsed, ParserInv, CallStack
  <2>2. Working(frames, ctl) = {} /\ ~Doomed(frames, ctl)
    BY <2>1 DEF Working, LocSet, ResSet, Doomed, DoomedFrames
  <2> QED BY <1>3, <2>1, <2>2 DEF OwnInv, NoneLost
<1>5. CASE n \in StmSet(root)
  BY <1>5 DEF StmSet, Tour
<1>6. CASE n \in KidSet(heap)
  <2>1. PICK m \in 1 .. Len(heap) : \E i \in DOMAIN heap[m].kids : heap[m].kids[i] = n
    BY <1>6 DEF KidSet
  <2>2. PICK i \in 1 .. Len(heap[m].kids) : heap[m].kids[i] = n
    BY <1>1, <2>1, KidsOfTree
  <2>3. n < m
    BY <1>1, <2>2 DEF Tree, Older, Base
  <2>4. heap[m].type # "IFSTAT"
    <3>1. NodeShape(heap, m)
      BY <1>1, KidsOfTree
    <3> QED BY <2>1, <3>1 DEF NodeShape, KidsFit
  <2>5. PICK p \in 1 .. Len(s) : s[p] = m
    <3>1. m \in Int /\ n \in Int /\ ~(m <= n)
      BY <2>3
    <3>2. m \notin T
      BY <1>2, <3>1
    <3> QED BY <2>4, <3>2
  <2>6. Visits(Kids(heap), s[p], n)
    BY <2>2, <2>5 DEF Visits, Kids
  <2>7. PICK q \in 1 .. p - 1 : s[q] = n
    BY <2>6 DEF Tour
  <2>8. Len(s) \in Nat
    BY DEF Tour
  <2>9. q \in 1 .. Len(s)
    BY <2>7, <2>8
  <2> QED BY <2>7, <2>9
<1> QED BY <1>4, <1>5, <1>6

(* The pass starts with every operation on two literals still to come.     *)
LEMMA FoldingStarts ==
  ASSUME Parsing, Parsed, OptimizerStart, UNCHANGED <<heap, root>>
  PROVE  Tree(heap, root)' /\ Folding'
<1>1. /\ Tree(heap, root)
      /\ \A n \in 1 .. Len(heap) : heap[n].node_type = "NULL" /\ heap[n].type # "CAST_TO_FLOAT"
  BY ParsedTree DEF Nodes
<1> DEFINE skip == [n \in 1 .. Len(heap) |-> 0]
<1>2. VisitsKids(heap, Kids(heap), skip)
  <2>1. \A n \in 1 .. Len(heap) : heap[n].kids \in Seq(1 .. Len(heap)) /\ Len(heap[n].kids) \in Nat
    BY <1>1, KidsOfTree
  <2> QED BY <2>1 DEF VisitsKids, Kids
<1>3. unfolded' = LeaveOrder(Kids(heap))
  <2>1. DOMAIN heap = 1 .. Len(heap)
    BY <1>1 DEF Tree
  <2> QED BY <2>1 DEF OptimizerStart, Kids
<1>4. PICK s : s = unfolded'
  OBVIOUS
<1>5. Tour(1 .. Len(heap), Kids(heap), {root[i] : i \in 1 .. Len(root)}, s)
  BY <1>1, <1>2, <1>3, <1>4, WalkTour
<1>6. ASSUME NEW p \in 1 .. Len(s), NEW n \in 1 .. Len(heap), Visits(Kids(heap), n, s[p])
      PROVE  \E q \in p + 1 .. Len(s) : s[q] = n
  <2>1. PICK i \in 1 .. Len(heap[n].kids) : heap[n].kids[i] = s[p]
    BY <1>6 DEF Visits, Kids
  <2>2. /\ Len(heap[n].kids) \in Nat /\ DOMAIN heap[n].kids = 1 .. Len(heap[n].kids)
        /\ heap[n].kids[i] \in 1 .. Len(heap)
    BY <1>1, KidsOfTree
  <2>3. s[p] \in KidSet(heap)
    BY <2>1, <2>2 DEF KidSet
  <2>4. s[p] \notin {root[j] : j \in 1 .. Len(root)}
    BY <1>1, <2>3 DEF Tree
  <2>5. PICK q \in p + 1 .. Len(s) : Visits(Kids(heap), s[q], s[p])
    BY <1>5, <2>4 DEF Tour
  <2>6. s \in Seq(1 .. Len(heap)) /\ Len(s) \in Nat
    BY <1>5 DEF Tour
  <2>7. s[q] \in 1 .. Len(heap)
    <3>1. q \in 1 .. Len(s)
      BY <2>6
    <3> QED BY <2>6, <3>1, ElementOfSeq
  <2>8. PICK j \in 1 .. Len(heap[s[q]].kids) : heap[s[q]].kids[j] = s[p]
    BY <2>5, <2>7 DEF Visits, Kids
  <2>9. DOMAIN heap[s[q]].kids = 1 .. Len(heap[s[q]].kids)
    BY <1>1, <2>7, KidsOfTree
  <2>10. s[q] = n
    BY <1>1, <2>1, <2>2, <2>7, <2>8, <2>9, SMTT(30) DEF Tree, KidsOnce
  <2> QED BY <2>10
<1>7. s \in Seq(1 .. Len(heap)) /\ Once(s)
  BY <1>5 DEF Tour, Once
<1>8. Ahead(heap, s)
  BY <1>6, <1>7 DEF Ahead
<1>9. \A n \in 1 .. Len(heap) : Foldable(n) => \E p \in 1 .. Len(s) : s[p] = n
  <2>1. \A n \in 1 .. Len(heap) : heap[n].type # "IFSTAT" => \E p \in 1 .. Len(s) : s[p] = n
    BY <1>5, WalkMeetsAll
  <2> QED BY <2>1 DEF Foldable, Arithmetic, Additive, Multiplicative
<1>10. heap' = heap /\ root' = root
  OBVIOUS
<1>11. Tree(heap', root')
  BY <1>1, <1>10
<1>12. \A n \in 1 .. Len(heap) : Foldable(n)' <=> Foldable(n)
  BY <1>10 DEF Foldable, is_numeric_literal
<1>13. Ahead(heap', s)
  BY <1>8, <1>10
<1>14. Folding'
  BY <1>1, <1>4, <1>9, <1>10, <1>12, <1>13 DEF Folding
<1> QED BY <1>11, <1>14

(* Leaving a node takes it from the front of the list.                     *)
LEMMA TailFacts ==
  ASSUME NEW S, NEW s \in Seq(S), s # <<>>
  PROVE  /\ Len(s) \in Nat \ {0} /\ Head(s) = s[1] /\ s[1] \in S
         /\ Tail(s) \in Seq(S) /\ Len(Tail(s)) = Len(s) - 1
         /\ \A p \in 1 .. Len(Tail(s)) : p + 1 \in 1 .. Len(s) /\ Tail(s)[p] = s[p + 1]
<1>1. Len(s) \in Nat \ {0}
  BY EmptySeq
<1>2. Len(Tail(s)) = Len(s) - 1 /\ Tail(s) \in Seq(S)
      /\ \A p \in 1 .. Len(s) - 1 : Tail(s)[p] = s[p + 1]
  BY <1>1
<1>3. s[1] \in S
  BY <1>1, ElementOfSeq
<1> QED BY <1>1, <1>2, <1>3

(* What is still to come stays ahead when nodes only lose children.        *)
LEMMA AheadTail ==
  ASSUME NEW h, NEW g, NEW s, Ahead(h, s), s # <<>>, Len(g) = Len(h),
         \A n \in 1 .. Len(h) : g[n].kids = h[n].kids \/ g[n].kids = <<>>
  PROVE  Ahead(g, Tail(s))
<1>1. s \in Seq(1 .. Len(h))
  BY DEF Ahead
<1>2. /\ Len(s) \in Nat \ {0}
      /\ Tail(s) \in Seq(1 .. Len(h)) /\ Len(Tail(s)) = Len(s) - 1
      /\ \A p \in 1 .. Len(Tail(s)) : p + 1 \in 1 .. Len(s) /\ Tail(s)[p] = s[p + 1]
  BY <1>1, TailFacts
<1>3. Once(Tail(s))
  BY <1>2 DEF Once, Ahead
<1>4. ASSUME NEW p \in 1 .. Len(Tail(s)), NEW n \in 1 .. Len(h), Visits(Kids(g), n, Tail(s)[p])
      PROVE  \E q \in p + 1 .. Len(Tail(s)) : Tail(s)[q] = n
  <2>1. PICK i \in 1 .. Len(g[n].kids) : g[n].kids[i] = Tail(s)[p]
    BY <1>4 DEF Visits, Kids
  <2>2. g[n].kids = h[n].kids
    BY <2>1
  <2>3. Visits(Kids(h), n, s[p + 1])
    BY <1>2, <2>1, <2>2 DEF Visits, Kids
  <2>4. PICK q \in p + 2 .. Len(s) : s[q] = n
    <3>1. p + 1 \in 1 .. Len(s) /\ p + 1 + 1 = p + 2
      BY <1>2, SMTT(30)
    <3> QED BY <2>3, <3>1 DEF Ahead
  <2>5. q - 1 \in p + 1 .. Len(Tail(s)) /\ q - 1 + 1 = q /\ q - 1 \in 1 .. Len(Tail(s))
    BY <1>2
  <2> QED BY <1>2, <2>4, <2>5
<1> QED BY <1>2, <1>3, <1>4 DEF Ahead

(* What destroy_astnode and the assignments behind it do to the nodes.     *)
LEMMA Folded ==
  ASSUME Tree(heap, root), NEW n \in 1 .. Len(heap), Foldable(n), heap[n].type # "CAST_TO_FLOAT",
         NEW type, NEW val, BecomeLiteral(n, type, val)
  PROVE  /\ Len(heap') = Len(heap) /\ heap' = [m \in 1 .. Len(heap) |-> heap'[m]]
         /\ heap'[n] = NewNode(type, val, <<>>)
         /\ \A m \in 1 .. Len(heap) : m # n =>
              \/ /\ heap'[m] = heap[m] /\ \A i \in 1 .. 2 : m # heap[n].kids[i]
              \/ /\ heap'[m] = [heap[m] EXCEPT !.type = "FREED"]
                 /\ heap[m].type \in Literals
                 /\ \E i \in 1 .. 2 : m = heap[n].kids[i]
<1>1. DOMAIN heap = 1 .. Len(heap) /\ Len(heap) \in Nat
  BY DEF Tree
<1>2. PICK a, b : a = heap[n].kids[1] /\ b = heap[n].kids[2]
  OBVIOUS
<1>3. \A m : (\E i \in 1 .. 2 : m = heap[n].kids[i]) <=> m = a \/ m = b
  <2>1. \A i : i \in 1 .. 2 <=> i = 1 \/ i = 2
    OBVIOUS
  <2> QED BY <1>2, <2>1, Zenon
<1>4. DOMAIN heap' = 1 .. Len(heap) /\ heap' = [m \in 1 .. Len(heap) |-> heap'[m]]
  BY <1>1 DEF BecomeLiteral
<1>5. Len(heap') = Len(heap)
  BY <1>1, <1>4
<1>6. /\ a \in 1 .. Len(heap) /\ b \in 1 .. Len(heap) /\ a # n /\ b # n
      /\ heap[a].type \in Literals /\ heap[b].type \in Literals
  <2>1. heap[a].type \in Literals /\ heap[b].type \in Literals
    BY <1>2 DEF Foldable, is_numeric_literal
  <2>2. Len(heap[n].kids) = 2
    BY KidsOfTree DEF Foldable, NodeShape, KidsFit
  <2>3. a \in 1 .. Len(heap) /\ b \in 1 .. Len(heap)
    BY <1>2, <2>2, KidsOfTree
  <2>4. Base(heap, a) < n /\ Base(heap, b) < n
    BY <1>2, <2>2 DEF Tree, Older
  <2>5. a < n /\ b < n
    BY <2>1, <2>4 DEF Base, Literals
  <2> QED BY <2>1, <2>3, <2>5
<1>7. heap'[n] = NewNode(type, val, <<>>)
  <2>1. ~(\E i \in 1 .. 2 : n = heap[n].kids[i])
    BY <1>3, <1>6
  <2> QED BY <1>1, <2>1 DEF BecomeLiteral
<1>8. ASSUME NEW m \in 1 .. Len(heap), m # n
      PROVE  \/ /\ heap'[m] = heap[m] /\ \A i \in 1 .. 2 : m # heap[n].kids[i]
             \/ /\ heap'[m] = [heap[m] EXCEPT !.type = "FREED"]
                /\ heap[m].type \in Literals
                /\ \E i \in 1 .. 2 : m = heap[n].kids[i]
  <2>1. CASE \E i \in 1 .. 2 : m = heap[n].kids[i]
    <3>1. heap'[m] = [heap[m] EXCEPT !.type = "FREED"]
      BY <1>1, <1>8, <2>1 DEF BecomeLiteral
    <3>2. heap[m].type \in Literals
      BY <1>3, <1>6, <2>1
    <3> QED BY <2>1, <3>1, <3>2
  <2>2. CASE ~(\E i \in 1 .. 2 : m = heap[n].kids[i])
    <3>1. heap'[m] = heap[m]
      BY <1>1, <1>8, <2>2 DEF BecomeLiteral
    <3> QED BY <2>2, <3>1
  <2> QED BY <2>1, <2>2
<1> QED BY <1>4, <1>5, <1>7, <1>8

(* The new literal is the child of nodes that wanted an expression; the    *)
(* freed operands were children of the folded node alone.                  *)
LEMMA FoldedTree ==
  ASSUME Tree(heap, root), NEW n \in 1 .. Len(heap), Foldable(n), heap[n].type # "CAST_TO_FLOAT",
         NEW type \in Literals, NEW val, LiteralNode(NewNode(type, val, <<>>)),
         \A m \in 1 .. Len(heap) : heap[m].type # "CAST_TO_FLOAT",
         BecomeLiteral(n, type, val), root' = root
  PROVE  /\ Tree(heap', root') /\ Len(heap') = Len(heap)
         /\ \A m \in 1 .. Len(heap) :
              /\ heap'[m].kids = heap[m].kids \/ heap'[m].kids = <<>>
              /\ heap'[m].type = heap[m].type \/ heap'[m].type \in Literals \cup {"FREED"}
              /\ m # n => heap'[m].type = heap[m].type \/ heap'[m].type = "FREED"
              /\ m # n /\ heap'[m].type # "FREED" => heap'[m] = heap[m]
              /\ heap'[m].node_type = "NULL" \/ heap'[m].node_type = heap[m].node_type
<1>1. /\ Len(heap') = Len(heap) /\ heap' = [m \in 1 .. Len(heap) |-> heap'[m]]
      /\ heap'[n] = NewNode(type, val, <<>>)
      /\ \A m \in 1 .. Len(heap) : m # n =>
           \/ /\ heap'[m] = heap[m] /\ \A i \in 1 .. 2 : m # heap[n].kids[i]
           \/ /\ heap'[m] = [heap[m] EXCEPT !.type = "FREED"]
              /\ heap[m].type \in Literals
              /\ \E i \in 1 .. 2 : m = heap[n].kids[i]
  BY Folded
<1>2. Len(heap) \in Nat
  BY DEF Tree
<1>3. ASSUME NEW m \in 1 .. Len(heap), m # n
      PROVE  \/ /\ heap'[m] = heap[m] /\ \A i \in 1 .. 2 : m # heap[n].kids[i]
             \/ /\ heap'[m] = [type |-> "FREED", val |-> heap[m].val, kids |-> <<>>,
                               node_type |-> heap[m].node_type]
                /\ \E i \in 1 .. 2 : m = heap[n].kids[i]
  <2>1. IsNode(heap[m]) /\ (heap[m].type \in Literals => heap[m].kids = <<>>)
    BY DEF Tree, NodeShape, KidsFit, Tops
  <2>2. [heap[m] EXCEPT !.type = "FREED"]
          = [type |-> "FREED", val |-> heap[m].val, kids |-> heap[m].kids,
             node_type |-> heap[m].node_type]
    BY <2>1 DEF IsNode
  <2> QED BY <1>1, <1>3, <2>1, <2>2
<1>4. ASSUME NEW m \in 1 .. Len(heap)
      PROVE  /\ heap'[m].kids = heap[m].kids \/ heap'[m].kids = <<>>
             /\ heap'[m].type = heap[m].type \/ heap'[m].type \in Literals \cup {"FREED"}
             /\ m # n => heap'[m].type = heap[m].type \/ heap'[m].type = "FREED"
             /\ m # n /\ heap'[m].type # "FREED" => heap'[m] = heap[m]
             /\ heap'[m].node_type = "NULL" \/ heap'[m].node_type = heap[m].node_type
             /\ IsNode(heap'[m]) /\ heap'[m].kids \in Seq(1 .. Len(heap))
             /\ heap'[m].type \in NodeTypes
             /\ heap'[m].type = "FREED" => heap'[m].kids = <<>>
             /\ LiteralNode(heap'[m])
  <2>1. CASE m = n
    <3>1. heap'[m] = [type |-> type, val |-> val, kids |-> <<>>, node_type |-> "NULL"]
      BY <1>1, <2>1 DEF NewNode
    <3>2. IsNode(heap'[m]) /\ heap'[m].kids = <<>> /\ heap'[m].node_type = "NULL"
      BY <3>1 DEF IsNode
    <3>3. heap'[m].type \in Literals /\ heap'[m].type \in NodeTypes
      BY <3>1 DEF NodeTypes, Tops
    <3>4. LiteralNode(heap'[m])
      BY <1>1, <2>1
    <3>5. <<>> \in Seq(1 .. Len(heap))
      OBVIOUS
    <3> QED BY <2>1, <3>2, <3>3, <3>4, <3>5
  <2>2. CASE m # n /\ heap'[m] = heap[m]
    BY <2>2 DEF Tree, NodeShape, KidsFit, LiteralNode
  <2>3. CASE m # n /\ heap'[m] = [type |-> "FREED", val |-> heap[m].val, kids |-> <<>>,
                                  node_type |-> heap[m].node_type]
    BY <2>3 DEF IsNode, NodeTypes, LiteralNode
  <2> QED BY <1>3, <2>1, <2>2, <2>3
<1>5. KidSet(heap') \subseteq KidSet(heap) /\ KidsOnce(heap')
  <2>1. \A m \in 1 .. Len(heap) : \A i \in DOMAIN heap'[m].kids :
          i \in DOMAIN heap[m].kids /\ heap'[m].kids[i] = heap[m].kids[i]
    BY <1>4
  <2>2. KidSet(heap') \subseteq KidSet(heap)
    BY <1>1, <2>1 DEF KidSet
  <2>3. KidsOnce(heap)
    BY DEF Tree
  <2>4. KidsOnce(heap')
    BY <1>1, <2>1, <2>3 DEF KidsOnce
  <2> QED BY <2>2, <2>4
<1>6. ASSUME NEW m \in 1 .. Len(heap), NEW types, Literals \subseteq types,
             heap[m].type \in types, \A i \in 1 .. 2 : m # heap[n].kids[i]
      PROVE  heap'[m].type \in types
  <2>1. CASE m = n
    BY <1>1, <1>6, <2>1 DEF NewNode
  <2>2. CASE m # n
    BY <1>3, <1>6, <2>2
  <2> QED BY <2>1, <2>2
<1>7. Len(heap[n].kids) = 2 /\ DOMAIN heap[n].kids = 1 .. 2
  <2>1. NodeShape(heap, n) /\ DOMAIN heap[n].kids = 1 .. Len(heap[n].kids)
    BY KidsOfTree
  <2> QED BY <2>1 DEF NodeShape, KidsFit, Foldable
<1>8. ASSUME NEW m \in 1 .. Len(heap), m # n, NEW i \in 1 .. Len(heap[m].kids)
      PROVE  \A j \in 1 .. 2 : heap[m].kids[i] # heap[n].kids[j]
  <2>1. DOMAIN heap[m].kids = 1 .. Len(heap[m].kids)
    BY KidsOfTree
  <2> QED BY <1>7, <1>8, <2>1 DEF Tree, KidsOnce
<1>9. Literals \subseteq Expressions /\ Literals \subseteq Operands
      /\ Literals \subseteq StatementTypes
  BY DEF Expressions, Operands, StatementTypes, Tops
<1>10. ASSUME NEW m \in 1 .. Len(heap), heap'[m].kids # <<>>
       PROVE  /\ heap'[m] = heap[m]
              /\ \A i \in 1 .. Len(heap[m].kids) :
                   /\ heap[heap[m].kids[i]].type \in Expressions =>
                        heap'[heap[m].kids[i]].type \in Expressions
                   /\ heap[heap[m].kids[i]].type \in Operands =>
                        heap'[heap[m].kids[i]].type \in Operands
  <2>1. m # n
    BY <1>1, <1>10 DEF NewNode
  <2>2. heap'[m] = heap[m]
    BY <1>4, <1>10, <2>1
  <2>3. \A i \in 1 .. Len(heap[m].kids) : heap[m].kids[i] \in 1 .. Len(heap)
    BY KidsOfTree
  <2> QED BY <1>6, <1>8, <1>9, <2>1, <2>2, <2>3
<1>11. ASSUME NEW m \in 1 .. Len(heap) PROVE KidsFit(heap', m)
  <2>1. CASE heap'[m].kids = <<>>
    <3>1. heap'[m].type \in Tops \cup {"IFSTAT", "FREED"}
      <4>1. CASE m = n
        BY <1>1, <4>1 DEF NewNode, Tops
      <4>2. CASE m # n /\ heap'[m] = heap[m]
        <5>1. KidsFit(heap, m) /\ heap[m].type \in NodeTypes /\ Len(heap[m].kids) = 0
          BY <2>1, <4>2 DEF Tree, NodeShape
        <5> QED BY <4>2, <5>1 DEF KidsFit, NodeTypes
      <4> QED BY <1>4, <4>1, <4>2
    <3> QED BY <2>1, <3>1 DEF KidsFit, Tops, Literals, Arithmetic, Additive, Multiplicative
  <2>2. CASE heap'[m].kids # <<>>
    <3>1. KidsFit(heap, m)
      BY DEF Tree, NodeShape
    <3> QED BY <1>10, <2>2, <3>1 DEF KidsFit
  <2> QED BY <2>1, <2>2
<1>12. \A m \in 1 .. Len(heap) : NodeShape(heap', m)
  BY <1>1, <1>4, <1>11 DEF NodeShape, LiteralNode
<1>13. \A i \in 1 .. Len(root) : heap'[root[i]].type \in StatementTypes
  <2> SUFFICES ASSUME NEW i \in 1 .. Len(root) PROVE heap'[root[i]].type \in StatementTypes
    OBVIOUS
  <2>1. root[i] \in 1 .. Len(heap) /\ root[i] \notin KidSet(heap)
        /\ heap[root[i]].type \in StatementTypes
    BY ElementOfSeq DEF Tree
  <2>2. \A j \in 1 .. 2 : root[i] # heap[n].kids[j]
    BY <1>7, <2>1 DEF KidSet
  <2> QED BY <1>6, <1>9, <2>1, <2>2
<1>14. Older(heap')
  <2>1. \A m \in 1 .. Len(heap) : heap'[m].type # "CAST_TO_FLOAT"
    BY <1>4 DEF Literals
  <2>2. ASSUME NEW m \in 1 .. Len(heap), NEW i \in 1 .. Len(heap'[m].kids)
        PROVE  Base(heap', heap'[m].kids[i]) < m
    <3>1. heap'[m] = heap[m]
      <4>1. heap'[m].kids # <<>>
        BY <2>2
      <4> QED BY <1>10, <4>1
    <3>2. heap[m].kids[i] \in 1 .. Len(heap)
      BY <3>1, KidsOfTree
    <3> QED BY <2>1, <3>1, <3>2 DEF Tree, Older, Base
  <2> QED BY <1>1, <2>2 DEF Older
<1>15. Tree(heap', root')
  BY <1>1, <1>2, <1>5, <1>12, <1>13, <1>14 DEF Tree
<1> QED BY <1>1, <1>4, <1>15

(* An operation that becomes one on two literals is the parent of the node *)
(* that became a literal, and so it is still to come.                      *)
LEMMA FoldKeeps ==
  ASSUME Tree(heap, root), Folding, NEW n \in 1 .. Len(heap), Leave(n), Foldable(n),
         NEW type \in Literals, NEW val, LiteralNode(NewNode(type, val, <<>>)),
         BecomeLiteral(n, type, val), root' = root
  PROVE  Tree(heap', root') /\ Folding'
<1>1. /\ Tree(heap', root') /\ Len(heap') = Len(heap)
      /\ \A m \in 1 .. Len(heap) :
           /\ heap'[m].kids = heap[m].kids \/ heap'[m].kids = <<>>
           /\ heap'[m].type = heap[m].type \/ heap'[m].type \in Literals \cup {"FREED"}
           /\ m # n => heap'[m].type = heap[m].type \/ heap'[m].type = "FREED"
           /\ m # n /\ heap'[m].type # "FREED" => heap'[m] = heap[m]
           /\ heap'[m].node_type = "NULL" \/ heap'[m].node_type = heap[m].node_type
  BY FoldedTree DEF Folding
<1>2. /\ unfolded # <<>> /\ unfolded' = Tail(unfolded) /\ n = Head(unfolded)
      /\ Ahead(heap, unfolded) /\ unfolded \in Seq(1 .. Len(heap))
  BY DEF Leave, Folding, Ahead
<1>3. /\ Len(unfolded) \in Nat \ {0} /\ n = unfolded[1] /\ Len(unfolded') = Len(unfolded) - 1
      /\ \A p \in 1 .. Len(unfolded') : p + 1 \in 1 .. Len(unfolded) /\ unfolded'[p] = unfolded[p + 1]
  BY <1>2, TailFacts
<1>4. Ahead(heap', unfolded')
  <2>1. Ahead(heap', Tail(unfolded))
    BY <1>1, <1>2, AheadTail
  <2> QED BY <1>2, <2>1
<1>5. heap'[n].type \in Literals
  BY Folded DEF Folding, NewNode
<1>6. ASSUME NEW m \in 1 .. Len(heap), Foldable(m)'
      PROVE  \E p \in 1 .. Len(unfolded') : unfolded'[p] = m
  <2>1. heap'[m].type \in Arithmetic /\ \A i \in 1 .. 2 : heap'[heap'[m].kids[i]].type \in Literals
    BY <1>6 DEF Foldable, is_numeric_literal
  <2>2. m # n /\ heap'[m] = heap[m]
    BY <1>1, <1>5, <2>1 DEF Literals, Arithmetic, Additive, Multiplicative
  <2>3. Len(heap[m].kids) = 2 /\ \A i \in 1 .. 2 : heap[m].kids[i] \in 1 .. Len(heap)
    <3>1. NodeShape(heap, m) /\ \A i \in 1 .. Len(heap[m].kids) : heap[m].kids[i] \in 1 .. Len(heap)
      BY KidsOfTree
    <3> QED BY <2>1, <2>2, <3>1 DEF NodeShape, KidsFit
  <2>4. PICK q \in 2 .. Len(unfolded) : unfolded[q] = m
    <3>1. CASE \E i \in 1 .. 2 : heap[m].kids[i] = n
      <4>1. Visits(Kids(heap), m, unfolded[1])
        BY <1>3, <2>3, <3>1 DEF Visits, Kids
      <4> QED BY <1>2, <1>3, <4>1 DEF Ahead
    <3>2. CASE \A i \in 1 .. 2 : heap[m].kids[i] # n
      <4>1. \A i \in 1 .. 2 : heap[heap[m].kids[i]].type \in Literals
        <5> TAKE i \in 1 .. 2
        <5>1. heap'[heap[m].kids[i]].type \in Literals
          BY <2>1, <2>2
        <5> QED BY <1>1, <2>3, <3>2, <5>1 DEF Literals
      <4>2. Foldable(m)
        BY <2>1, <2>2, <4>1 DEF Foldable, is_numeric_literal
      <4>3. PICK q \in 1 .. Len(unfolded) : unfolded[q] = m
        BY <4>2 DEF Folding
      <4> QED BY <1>3, <2>2, <4>3
    <3> QED BY <3>1, <3>2
  <2>5. q - 1 \in 1 .. Len(unfolded') /\ q - 1 + 1 = q
    BY <1>3
  <2> QED BY <1>3, <2>4, <2>5
<1>7. \A m \in 1 .. Len(heap) : heap'[m].node_type = "NULL" /\ heap'[m].type # "CAST_TO_FLOAT"
  BY <1>1 DEF Folding, Literals
<1> QED BY <1>1, <1>4, <1>6, <1>7 DEF Folding

(* Leaving a node that cannot be folded.                                   *)
LEMMA KeepKeeps ==
  ASSUME Tree(heap, root), Folding, NEW n \in 1 .. Len(heap), Leave(n), ~Foldable(n),
         heap' = heap, root' = root
  PROVE  Tree(heap', root') /\ Folding'
<1>1. /\ unfolded # <<>> /\ unfolded' = Tail(unfolded) /\ n = Head(unfolded)
      /\ Ahead(heap, unfolded) /\ unfolded \in Seq(1 .. Len(heap))
  BY DEF Leave, Folding, Ahead
<1>2. /\ Len(unfolded) \in Nat \ {0} /\ n = unfolded[1] /\ Len(unfolded') = Len(unfolded) - 1
      /\ \A p \in 1 .. Len(unfolded') : p + 1 \in 1 .. Len(unfolded) /\ unfolded'[p] = unfolded[p + 1]
  BY <1>1, TailFacts
<1>3. Ahead(heap', unfolded')
  <2>1. Ahead(heap, Tail(unfolded))
    BY <1>1, AheadTail
  <2> QED BY <1>1, <2>1
<1>4. ASSUME NEW m \in 1 .. Len(heap), Foldable(m)'
      PROVE  \E p \in 1 .. Len(unfolded') : unfolded'[p] = m
  <2>1. Foldable(m)
    BY <1>4 DEF Foldable, is_numeric_literal
  <2>2. PICK q \in 1 .. Len(unfolded) : unfolded[q] = m
    BY <2>1 DEF Folding
  <2>3. q # 1
    BY <1>2, <2>1, <2>2
  <2>4. q - 1 \in 1 .. Len(unfolded') /\ q - 1 + 1 = q
    BY <1>2, <2>3
  <2> QED BY <1>2, <2>2, <2>4
<1>5. \A m \in 1 .. Len(heap) : heap'[m].node_type = "NULL" /\ heap'[m].type # "CAST_TO_FLOAT"
  BY DEF Folding
<1>6. Tree(heap', root')
  OBVIOUS
<1> QED BY <1>3, <1>4, <1>5, <1>6 DEF Folding

(* A step of the optimizer, unless the processor refuses the division.     *)
LEMMA OptimizerKeeps ==
  ASSUME Tree(heap, root), Folding, OptimizerStep
  PROVE  Tree(heap', root') /\ (fault' = "none" => Folding')
<1>0. root' = root /\ DOMAIN heap = 1 .. Len(heap)
  BY DEF OptimizerStep, Tree
<1>1. CASE KeepNode
  BY <1>0, <1>1, KeepKeeps DEF KeepNode
<1>2. CASE FoldFloat
  <2>1. PICK n \in 1 .. Len(heap) :
          /\ Leave(n) /\ Foldable(n)
          /\ BecomeLiteral(n, "NUMLIT", <<heap[n].type, cast_val_to_double(heap[n].kids[1]),
                                         cast_val_to_double(heap[n].kids[2])>>)
    BY <1>0, <1>2 DEF FoldFloat
  <2> DEFINE val == <<heap[n].type, cast_val_to_double(heap[n].kids[1]),
                      cast_val_to_double(heap[n].kids[2])>>
  <2>2. heap[n].type # "int"
    BY <2>1 DEF Foldable, Arithmetic, Additive, Multiplicative
  <2>3. "NUMLIT" \in Literals /\ LiteralNode(NewNode("NUMLIT", val, <<>>))
    BY <2>2 DEF Literals, LiteralNode, NewNode, IsInt
  <2> HIDE DEF val
  <2>4. BecomeLiteral(n, "NUMLIT", val)
    BY <2>1 DEF val
  <2> QED BY <1>0, <2>1, <2>3, <2>4, FoldKeeps
<1>3. CASE FoldInt
  <2>1. PICK n \in 1 .. Len(heap) :
          /\ Leave(n) /\ Foldable(n)
          /\ \/ fault' = "SIGFPE" /\ heap' = heap
                /\ IntTraps(heap[n].type, heap[heap[n].kids[1]].val[2], heap[heap[n].kids[2]].val[2])
             \/ BecomeLiteral(n, "INTEGERLIT",
                   <<"int", IntResult(heap[n].type, heap[heap[n].kids[1]].val[2],
                                      heap[heap[n].kids[2]].val[2])>>)
    BY <1>0, <1>3 DEF FoldInt
  <2>2. CASE fault' = "SIGFPE" /\ heap' = heap
    BY <1>0, <2>2
  <2> DEFINE val == <<"int", IntResult(heap[n].type, heap[heap[n].kids[1]].val[2],
                                       heap[heap[n].kids[2]].val[2])>>
  <2>3. "INTEGERLIT" \in Literals /\ LiteralNode(NewNode("INTEGERLIT", val, <<>>))
    BY DEF Literals, LiteralNode, NewNode, IsInt
  <2> HIDE DEF val
  <2>4. CASE BecomeLiteral(n, "INTEGERLIT", val)
    BY <1>0, <2>1, <2>3, <2>4, FoldKeeps
  <2> QED BY <2>1, <2>2, <2>4 DEF val
<1> QED BY <1>1, <1>2, <1>3 DEF OptimizerStep

(***************************************************************************)
(* The type pass.                                                          *)
(***************************************************************************)

(* A child that is read is nobody's target, and a root is nobody's child.  *)
LEMMA ReadFacts ==
  ASSUME NEW h, NEW r, Tree(h, r), NEW n \in 1 .. Len(h)
  PROVE  /\ \A i \in Read(h, n) : /\ i \in 1 .. Len(h[n].kids) /\ h[n].kids[i] \in 1 .. Len(h)
                                  /\ ~Named(h, h[n].kids[i])
         /\ Named(h, n) => n \in KidSet(h)
         /\ Named(h, n) => h[n].type \in Expressions
<1>1. ASSUME NEW s \in 1 .. Len(h), h[s].type = "ASSIGN"
      PROVE  1 \in DOMAIN h[s].kids /\ h[h[s].kids[1]].type \in Expressions
  <2>1. NodeShape(h, s) /\ DOMAIN h[s].kids = 1 .. Len(h[s].kids)
    BY KidsOfTree
  <2> QED BY <1>1, <2>1 DEF NodeShape, KidsFit
<1>2. ASSUME NEW i \in Read(h, n)
      PROVE  /\ i \in 1 .. Len(h[n].kids) /\ h[n].kids[i] \in 1 .. Len(h)
             /\ ~Named(h, h[n].kids[i])
  <2>1. i \in 1 .. Len(h[n].kids) /\ (h[n].type = "ASSIGN" => i = 2)
    BY DEF Read
  <2>2. DOMAIN h[n].kids = 1 .. Len(h[n].kids) /\ h[n].kids[i] \in 1 .. Len(h)
    BY <2>1, KidsOfTree
  <2>3. ASSUME NEW s \in 1 .. Len(h), h[s].type = "ASSIGN", h[s].kids[1] = h[n].kids[i]
        PROVE  FALSE
    BY <1>1, <2>1, <2>2, <2>3, SMTT(30) DEF Tree, KidsOnce
  <2> QED BY <2>1, <2>2, <2>3 DEF Named
<1>3. Named(h, n) => n \in KidSet(h)
  BY <1>1 DEF Named, KidSet
<1>4. Named(h, n) => h[n].type \in Expressions
  BY <1>1 DEF Named
<1> QED BY <1>2, <1>3, <1>4

(* A walk that leaves out the first children of some nodes meets a node    *)
(* behind the children it reads, and before the node that reads it.        *)
ReadFrom(h, skip, n) == {i \in 1 .. Len(h[n].kids) : i > skip[n]}

Walked(h, r, skip, s) ==
  /\ s \in Seq(1 .. Len(h)) /\ Once(s) /\ Len(s) \in Nat
  /\ \A p \in 1 .. Len(s) : \A i \in ReadFrom(h, skip, s[p]) :
       \E q \in 1 .. p - 1 : s[q] = h[s[p]].kids[i]
  /\ \A p \in 1 .. Len(s) :
       \/ \E k \in 1 .. Len(r) : r[k] = s[p]
       \/ \E q \in p + 1 .. Len(s) : \E i \in ReadFrom(h, skip, s[q]) : h[s[q]].kids[i] = s[p]
  /\ \A k \in 1 .. Len(r) : \E p \in 1 .. Len(s) : s[p] = r[k]

(* The post-order over what a pass visits reads before it is read.         *)
LEMMA WalkReads ==
  ASSUME Tree(heap, root), NEW visits, NEW skip, VisitsKids(heap, visits, skip),
         NEW s, s = LeaveOrder(visits)
  PROVE  Walked(heap, root, skip, s)
<1>1. Tour(1 .. Len(heap), visits, {root[i] : i \in 1 .. Len(root)}, s)
  BY WalkTour
<1>2. s \in Seq(1 .. Len(heap)) /\ Once(s) /\ Len(s) \in Nat
  BY <1>1 DEF Tour, Once
<1>3. \A p \in 1 .. Len(s) : s[p] \in 1 .. Len(heap)
  BY <1>2, ElementOfSeq
<1>4. ASSUME NEW n \in 1 .. Len(heap), NEW x
      PROVE  /\ Visits(visits, n, x) => \E i \in ReadFrom(heap, skip, n) : heap[n].kids[i] = x
             /\ \A i \in ReadFrom(heap, skip, n) : heap[n].kids[i] = x => Visits(visits, n, x)
  <2>1. /\ Len(visits[n]) \in Nat /\ skip[n] \in Nat
        /\ Len(visits[n]) + skip[n] = Len(heap[n].kids)
        /\ \A i \in 1 .. Len(visits[n]) : visits[n][i] = heap[n].kids[i + skip[n]]
    <3>1. visits[n] \in Seq(1 .. Len(heap))
      BY DEF VisitsKids
    <3>2. Len(visits[n]) \in Nat
      BY <3>1
    <3>3. /\ skip[n] \in Nat /\ Len(visits[n]) + skip[n] = Len(heap[n].kids)
          /\ \A i \in 1 .. Len(visits[n]) : visits[n][i] = heap[n].kids[i + skip[n]]
      BY DEF VisitsKids
    <3> QED BY <3>2, <3>3
  <2>2. ASSUME NEW i \in 1 .. Len(visits[n]), visits[n][i] = x
        PROVE  i + skip[n] \in ReadFrom(heap, skip, n) /\ heap[n].kids[i + skip[n]] = x
    <3>1. i + skip[n] \in 1 .. Len(heap[n].kids) /\ i + skip[n] > skip[n]
      BY <2>1
    <3> QED BY <2>1, <2>2, <3>1 DEF ReadFrom
  <2>3. ASSUME NEW i \in ReadFrom(heap, skip, n), heap[n].kids[i] = x
        PROVE  i - skip[n] \in 1 .. Len(visits[n]) /\ visits[n][i - skip[n]] = x
    <3>1. i \in 1 .. Len(heap[n].kids) /\ i > skip[n]
      BY DEF ReadFrom
    <3>2. i - skip[n] \in 1 .. Len(visits[n]) /\ i - skip[n] + skip[n] = i
      BY <2>1, <3>1, SMTT(30)
    <3> QED BY <2>1, <2>3, <3>2
  <2> QED BY <2>2, <2>3 DEF Visits
<1>5. ASSUME NEW p \in 1 .. Len(s), NEW i \in ReadFrom(heap, skip, s[p])
      PROVE  \E q \in 1 .. p - 1 : s[q] = heap[s[p]].kids[i]
  <2>1. heap[s[p]].kids[i] \in 1 .. Len(heap)
    <3>1. i \in 1 .. Len(heap[s[p]].kids)
      BY DEF ReadFrom
    <3> QED BY <1>3, <3>1, KidsOfTree
  <2>2. Visits(visits, s[p], heap[s[p]].kids[i])
    BY <1>3, <1>4
  <2> QED BY <1>1, <2>1, <2>2, SMTT(30) DEF Tour
<1>6. ASSUME NEW p \in 1 .. Len(s), ~\E k \in 1 .. Len(root) : root[k] = s[p]
      PROVE  \E q \in p + 1 .. Len(s) : \E i \in ReadFrom(heap, skip, s[q]) :
               heap[s[q]].kids[i] = s[p]
  <2>0. s[p] \notin {root[i] : i \in 1 .. Len(root)}
    BY <1>6
  <2>1. PICK q \in p + 1 .. Len(s) : Visits(visits, s[q], s[p])
    BY <1>1, <2>0 DEF Tour
  <2>2. q \in 1 .. Len(s)
    BY <1>2
  <2> QED BY <1>3, <1>4, <2>1, <2>2
<1>7. \A k \in 1 .. Len(root) : \E p \in 1 .. Len(s) : s[p] = root[k]
  BY <1>1 DEF Tour
<1> QED BY <1>2, <1>5, <1>6, <1>7 DEF Walked

(* What the passes visit of a node: its children but for the first k.      *)
VisitsFrom(h, visits, n, k) ==
  /\ visits[n] \in Seq(1 .. Len(h)) /\ Len(visits[n]) \in Nat
  /\ k \in Nat /\ Len(visits[n]) + k = Len(h[n].kids)
  /\ \A i \in 1 .. Len(visits[n]) : visits[n][i] = h[n].kids[i + k]

(* Types and code generator skip the target of an assignment only.         *)
LEMMA VisitedKids ==
  ASSUME Tree(heap, root), NEW n \in 1 .. Len(heap),
         NEW k \in Nat, heap[n].type = "ASSIGN" => k = 1, heap[n].type # "ASSIGN" => k = 0
  PROVE  VisitsFrom(heap, Visited, n, k)
<1>1. /\ heap[n].kids \in Seq(1 .. Len(heap)) /\ Len(heap[n].kids) \in Nat
      /\ heap[n].type = "ASSIGN" => Len(heap[n].kids) = 2
      /\ DOMAIN heap = 1 .. Len(heap)
  BY KidsOfTree DEF NodeShape, KidsFit, Tree
<1>2. CASE heap[n].type = "ASSIGN"
  <2>1. Visited[n] = Tail(heap[n].kids) /\ k = 1
    BY <1>1, <1>2 DEF Visited
  <2>2. heap[n].kids # <<>>
    <3>1. Len(heap[n].kids) # 0
      BY <1>1, <1>2, SMTT(30)
    <3> QED BY <3>1
  <2>3. /\ Tail(heap[n].kids) \in Seq(1 .. Len(heap))
        /\ Len(Tail(heap[n].kids)) = Len(heap[n].kids) - 1
        /\ \A i \in 1 .. Len(Tail(heap[n].kids)) : Tail(heap[n].kids)[i] = heap[n].kids[i + 1]
    BY <1>1, <2>2, TailFacts
  <2> QED BY <1>1, <1>2, <2>1, <2>3 DEF VisitsFrom
<1>3. CASE heap[n].type # "ASSIGN"
  <2>1. Visited[n] = heap[n].kids /\ k = 0
    BY <1>1, <1>3 DEF Visited
  <2>2. \A i \in 1 .. Len(heap[n].kids) : i + k = i
    BY <1>1, <2>1
  <2>3. /\ Visited[n] \in Seq(1 .. Len(heap)) /\ Len(Visited[n]) \in Nat
        /\ k \in Nat /\ Len(Visited[n]) + k = Len(heap[n].kids)
    <3>1. Len(Visited[n]) = Len(heap[n].kids) /\ Len(heap[n].kids) \in Nat /\ k = 0
      BY <1>1, <2>1
    <3>2. Visited[n] \in Seq(1 .. Len(heap))
      BY <1>1, <2>1
    <3>3. PICK m \in Nat : m = Len(heap[n].kids)
      BY <3>1
    <3>4. Len(Visited[n]) = m /\ k \in Nat /\ m + k = m
      BY <3>1, <3>3
    <3> QED BY <3>2, <3>3, <3>4
  <2>4. \A i \in 1 .. Len(Visited[n]) : Visited[n][i] = heap[n].kids[i + k]
    BY <2>1, <2>2
  <2> QED BY <2>3, <2>4 DEF VisitsFrom
<1> QED BY <1>2, <1>3

(* The nodes the type pass and the code generator reach.                   *)
LEMMA VisitedTour ==
  ASSUME Tree(heap, root), NEW s, s = LeaveOrder(Visited)
  PROVE  /\ s \in Seq(1 .. Len(heap)) /\ Once(s) /\ Len(s) \in Nat
         /\ \A p \in 1 .. Len(s) : \A i \in Read(heap, s[p]) :
              \E q \in 1 .. p - 1 : s[q] = heap[s[p]].kids[i]
         /\ \A p \in 1 .. Len(s) :
              \/ \E k \in 1 .. Len(root) : root[k] = s[p]
              \/ \E q \in p + 1 .. Len(s) : \E i \in Read(heap, s[q]) : heap[s[q]].kids[i] = s[p]
         /\ \A k \in 1 .. Len(root) : \E p \in 1 .. Len(s) : s[p] = root[k]
<1> DEFINE skip == [n \in 1 .. Len(heap) |-> IF heap[n].type = "ASSIGN" THEN 1 ELSE 0]
<1>1. DOMAIN heap = 1 .. Len(heap) /\ Len(heap) \in Nat
  BY DEF Tree
<1>2. ASSUME NEW n \in 1 .. Len(heap)
      PROVE  /\ Visited[n] \in Seq(1 .. Len(heap)) /\ Len(Visited[n]) \in Nat
             /\ Len(Visited[n]) + skip[n] = Len(heap[n].kids)
             /\ \A i \in 1 .. Len(Visited[n]) : Visited[n][i] = heap[n].kids[i + skip[n]]
  <2>1. /\ skip[n] \in Nat /\ (heap[n].type = "ASSIGN" => skip[n] = 1)
        /\ heap[n].type # "ASSIGN" => skip[n] = 0
    OBVIOUS
  <2> HIDE DEF skip
  <2>2. VisitsFrom(heap, Visited, n, skip[n])
    BY <2>1, VisitedKids
  <2> QED BY <2>2 DEF VisitsFrom
<1>3. \A n \in 1 .. Len(heap) : skip[n] \in Nat /\ skip[n] = IF heap[n].type = "ASSIGN" THEN 1 ELSE 0
  OBVIOUS
<1> HIDE DEF skip
<1>4. VisitsKids(heap, Visited, skip)
  <2>1. Visited \in [1 .. Len(heap) -> Seq(1 .. Len(heap))]
    <3>1. Visited = [n \in 1 .. Len(heap) |-> Visited[n]]
      BY <1>1 DEF Visited
    <3> QED BY <1>2, <3>1
  <2> QED BY <1>2, <1>3, <2>1 DEF VisitsKids
<1>5. /\ s \in Seq(1 .. Len(heap)) /\ Once(s) /\ Len(s) \in Nat
      /\ \A p \in 1 .. Len(s) : \A i \in ReadFrom(heap, skip, s[p]) :
           \E q \in 1 .. p - 1 : s[q] = heap[s[p]].kids[i]
      /\ \A p \in 1 .. Len(s) :
           \/ \E k \in 1 .. Len(root) : root[k] = s[p]
           \/ \E q \in p + 1 .. Len(s) : \E i \in ReadFrom(heap, skip, s[q]) :
                heap[s[q]].kids[i] = s[p]
      /\ \A k \in 1 .. Len(root) : \E p \in 1 .. Len(s) : s[p] = root[k]
  <2>1. Walked(heap, root, skip, s)
    BY <1>4, WalkReads
  <2> QED BY <2>1 DEF Walked
<1>6. \A p \in 1 .. Len(s) : s[p] \in 1 .. Len(heap)
  BY <1>5, ElementOfSeq
<1>7. \A n \in 1 .. Len(heap) : Read(heap, n) = ReadFrom(heap, skip, n)
  <2> SUFFICES ASSUME NEW n \in 1 .. Len(heap) PROVE Read(heap, n) = ReadFrom(heap, skip, n)
    OBVIOUS
  <2>1. /\ Len(heap[n].kids) \in Nat /\ (heap[n].type = "ASSIGN" => Len(heap[n].kids) = 2)
        /\ skip[n] = IF heap[n].type = "ASSIGN" THEN 1 ELSE 0
    BY <1>3, KidsOfTree DEF NodeShape, KidsFit
  <2>2. \A i \in 1 .. Len(heap[n].kids) : i > skip[n] <=> (heap[n].type = "ASSIGN" => i = 2)
    <3>1. CASE heap[n].type = "ASSIGN"
      <4>1. skip[n] = 1 /\ Len(heap[n].kids) = 2
        BY <2>1, <3>1
      <4> QED BY <3>1, <4>1
    <3>2. CASE heap[n].type # "ASSIGN"
      <4>1. skip[n] = 0
        BY <2>1, <3>2
      <4> QED BY <2>1, <3>2, <4>1
    <3> QED BY <3>1, <3>2
  <2> QED BY <2>2 DEF Read, ReadFrom
<1>8. ASSUME NEW p \in 1 .. Len(s), NEW i \in Read(heap, s[p])
      PROVE  \E q \in 1 .. p - 1 : s[q] = heap[s[p]].kids[i]
  <2>1. i \in ReadFrom(heap, skip, s[p])
    BY <1>6, <1>7
  <2> QED BY <1>5, <2>1
<1>9. ASSUME NEW p \in 1 .. Len(s), ~\E k \in 1 .. Len(root) : root[k] = s[p]
      PROVE  \E q \in p + 1 .. Len(s) : \E i \in Read(heap, s[q]) : heap[s[q]].kids[i] = s[p]
  <2>1. PICK q \in p + 1 .. Len(s) :
             \E i \in ReadFrom(heap, skip, s[q]) : heap[s[q]].kids[i] = s[p]
    BY <1>5, <1>9
  <2>2. PICK i \in ReadFrom(heap, skip, s[q]) : heap[s[q]].kids[i] = s[p]
    BY <2>1
  <2>3. q \in 1 .. Len(s)
    BY <1>5
  <2>4. i \in Read(heap, s[q])
    BY <1>6, <1>7, <2>2, <2>3
  <2> QED BY <2>1, <2>2, <2>4
<1> QED BY <1>5, <1>8, <1>9

(* A node the walk meets is nobody's target.                               *)
LEMMA VisitedNotNamed ==
  ASSUME Tree(heap, root), NEW s, s = LeaveOrder(Visited)
  PROVE  \A p \in 1 .. Len(s) : ~Named(heap, s[p])
<1>1. /\ s \in Seq(1 .. Len(heap)) /\ Len(s) \in Nat
      /\ \A p \in 1 .. Len(s) :
           \/ \E k \in 1 .. Len(root) : root[k] = s[p]
           \/ \E q \in p + 1 .. Len(s) : \E i \in Read(heap, s[q]) : heap[s[q]].kids[i] = s[p]
  BY VisitedTour
<1>2. \A p \in 1 .. Len(s) : s[p] \in 1 .. Len(heap)
  BY <1>1, ElementOfSeq
<1> SUFFICES ASSUME NEW p \in 1 .. Len(s) PROVE ~Named(heap, s[p])
  OBVIOUS
<1>3. CASE \E k \in 1 .. Len(root) : root[k] = s[p]
  <2>1. s[p] \notin KidSet(heap)
    BY <1>3 DEF Tree
  <2> QED BY <1>2, <2>1, ReadFacts
<1>4. CASE \E q \in p + 1 .. Len(s) : \E i \in Read(heap, s[q]) : heap[s[q]].kids[i] = s[p]
  <2>1. PICK q \in p + 1 .. Len(s) : \E i \in Read(heap, s[q]) : heap[s[q]].kids[i] = s[p]
    BY <1>4
  <2>2. s[q] \in 1 .. Len(heap)
    BY <1>1, <1>2
  <2> QED BY <2>1, <2>2, ReadFacts
<1> QED BY <1>1, <1>3, <1>4

(* The pass starts with no type and with every statement still to come.    *)
LEMMA TypesStartInv ==
  ASSUME Tree(heap, root), Folding, unfolded = <<>>, layout' = <<>>, TypesStart,
         heap' = heap, root' = root
  PROVE  Types(heap', root', untyped', layout')
<1>1. PICK s : s = LeaveOrder(Visited)
  OBVIOUS
<1>2. untyped' = s
  BY <1>1 DEF TypesStart
<1>3. /\ s \in Seq(1 .. Len(heap)) /\ Once(s) /\ Len(s) \in Nat
      /\ \A p \in 1 .. Len(s) : \A i \in Read(heap, s[p]) :
           \E q \in 1 .. p - 1 : s[q] = heap[s[p]].kids[i]
      /\ \A k \in 1 .. Len(root) : \E p \in 1 .. Len(s) : s[p] = root[k]
  BY <1>1, VisitedTour
<1>4. \A p \in 1 .. Len(s) : s[p] \in 1 .. Len(heap) /\ ~Named(heap, s[p])
  BY <1>1, <1>3, ElementOfSeq, VisitedNotNamed
<1>5. \A n \in 1 .. Len(heap) : /\ heap[n].node_type = "NULL" /\ heap[n].type # "CAST_TO_FLOAT"
                                /\ ~Foldable(n)
  BY DEF Folding
<1>6. \A n \in 1 .. Len(heap) : ~FoldableIn(heap, n)
  BY <1>5 DEF FoldableIn, Foldable, is_numeric_literal
<1>7. LayoutTypes(<<>>)
  BY DEF LayoutTypes
<1>8. \A p \in 1 .. Len(s) : Waiting(heap, s, p)
  BY <1>3, <1>4, <1>5 DEF Waiting, Typed
<1>9. Types(heap, root, s, <<>>)
  BY <1>3, <1>5, <1>6, <1>7, <1>8 DEF Types, Typed
<1> QED BY <1>2, <1>9

(* What a step of the pass does to the tree and the layout: n gets its     *)
(* type, the target of an assignment may get one, and casts are new.       *)
Advances(h, l, g, k, n) ==
  /\ Len(g) \in Nat /\ Len(h) \in Nat /\ Len(g) >= Len(h)
  /\ \A m \in 1 .. Len(h) :
       /\ g[m].type = h[m].type /\ g[m].val = h[m].val
       /\ m # n => g[m].kids = h[m].kids
       /\ m # n /\ ~Named(h, m) => g[m] = h[m]
  /\ h[n].type = "ASSIGN" => g[n].kids = h[n].kids
  /\ ~FoldableIn(g, n) /\ Settled(g, k, n)
  /\ \A m \in Len(h) + 1 .. Len(g) : g[m].type = "CAST_TO_FLOAT" /\ Settled(g, k, m)
  /\ LayoutTypes(k)
  /\ \A name : FieldsIn(l, name) # {} => FieldsIn(k, name) # {} /\ TypeIn(k, name) = TypeIn(l, name)

(* Such a step leaves the rest of the tree as typed as it was.             *)
LEMMA TypesAdvance ==
  ASSUME NEW h, NEW r, NEW u, NEW l, NEW g, NEW k, NEW n,
         Tree(h, r), Types(h, r, u, l), u # <<>>, n = Head(u), Advances(h, l, g, k, n)
  PROVE  Types(g, r, Tail(u), k)
<1>1. /\ Len(g) \in Nat /\ Len(h) \in Nat /\ Len(g) >= Len(h)
      /\ \A m \in 1 .. Len(h) : m \in 1 .. Len(g)
  BY DEF Advances
<1>2. /\ u \in Seq(1 .. Len(h)) /\ Once(u) /\ Len(u) \in Nat \ {0} /\ n = u[1] /\ n \in 1 .. Len(h)
      /\ Len(Tail(u)) = Len(u) - 1 /\ Tail(u) \in Seq(1 .. Len(h))
      /\ \A p \in 1 .. Len(Tail(u)) : p + 1 \in 1 .. Len(u) /\ Tail(u)[p] = u[p + 1]
  BY TailFacts DEF Types
<1>3. Waiting(h, u, 1) /\ ~Typed(h, n) /\ ~Named(h, n)
  BY <1>2 DEF Types, Waiting
<1>4. ASSUME NEW m \in 1 .. Len(h) PROVE Named(g, m) <=> Named(h, m)
  <2>1. ASSUME NEW s \in 1 .. Len(g), g[s].type = "ASSIGN"
        PROVE  s \in 1 .. Len(h) /\ h[s].type = "ASSIGN" /\ g[s].kids = h[s].kids
    BY <2>1 DEF Advances
  <2>2. ASSUME NEW s \in 1 .. Len(h), h[s].type = "ASSIGN"
        PROVE  s \in 1 .. Len(g) /\ g[s].type = "ASSIGN" /\ g[s].kids = h[s].kids
    BY <2>2 DEF Advances
  <2> QED BY <2>1, <2>2 DEF Named
<1>5. Typed(g, n)
  BY DEF Advances, Settled, Typed
<1>6. ASSUME NEW m \in 1 .. Len(h), m # n, ~Named(h, m) PROVE g[m] = h[m]
  BY <1>6 DEF Advances
<1>7. ASSUME NEW m \in 1 .. Len(h), ~Named(h, m), Typed(h, m) PROVE g[m] = h[m] /\ Typed(g, m)
  BY <1>3, <1>6, <1>7 DEF Typed
<1>8. ASSUME NEW m \in 1 .. Len(h), NEW i \in Read(h, m)
      PROVE  /\ h[m].kids[i] \in 1 .. Len(h) /\ ~Named(h, h[m].kids[i])
             /\ i \in 1 .. Len(h[m].kids)
  BY ReadFacts
<1>9. ASSUME NEW m \in 1 .. Len(g) PROVE ~FoldableIn(g, m)
  <2>1. CASE m = n
    BY <2>1 DEF Advances
  <2>2. CASE m \in 1 .. Len(h) /\ m # n
    <3>1. ~FoldableIn(h, m) /\ g[m].type = h[m].type /\ g[m].kids = h[m].kids
      BY <2>2 DEF Types, Advances
    <3>2. h[m].type \in Arithmetic => \A i \in 1 .. 2 : h[m].kids[i] \in 1 .. Len(h)
      <4>1. NodeShape(h, m) /\ \A i \in 1 .. Len(h[m].kids) : h[m].kids[i] \in 1 .. Len(h)
        BY <2>2, KidsOfTree
      <4> QED BY <4>1 DEF NodeShape, KidsFit
    <3>3. h[m].type \in Arithmetic => \A i \in 1 .. 2 : g[h[m].kids[i]].type = h[h[m].kids[i]].type
      BY <3>2 DEF Advances
    <3> QED BY <3>1, <3>3 DEF FoldableIn
  <2>3. CASE m \in Len(h) + 1 .. Len(g)
    BY <2>3 DEF Advances, FoldableIn, Arithmetic, Additive, Multiplicative
  <2> QED BY <1>1, <2>1, <2>2, <2>3
<1>10. ASSUME NEW p \in 1 .. Len(Tail(u)) PROVE Waiting(g, Tail(u), p)
  <2>1. p + 1 \in 1 .. Len(u) /\ Tail(u)[p] = u[p + 1] /\ p \in Nat
    BY <1>2
  <2>2. PICK m : m = u[p + 1]
    OBVIOUS
  <2>3. m \in 1 .. Len(h) /\ m # n
    BY <1>2, <2>1, <2>2, ElementOfSeq DEF Once
  <2>4. /\ ~Typed(h, m) /\ h[m].type # "CAST_TO_FLOAT" /\ ~Named(h, m)
        /\ \A i \in Read(h, m) :
             Typed(h, h[m].kids[i]) \/ \E q \in 1 .. p + 1 - 1 : u[q] = h[m].kids[i]
    BY <2>1, <2>2 DEF Types, Waiting
  <2>5. g[m] = h[m] /\ Read(g, m) = Read(h, m) /\ ~Typed(g, m) /\ ~Named(g, m)
    BY <1>4, <1>6, <2>3, <2>4 DEF Read, Typed
  <2>6. ASSUME NEW i \in Read(h, m)
        PROVE  Typed(g, h[m].kids[i]) \/ \E q \in 1 .. p - 1 : Tail(u)[q] = h[m].kids[i]
    <3>1. CASE Typed(h, h[m].kids[i])
      BY <1>7, <1>8, <2>3, <3>1
    <3>2. CASE \E q \in 1 .. p + 1 - 1 : u[q] = h[m].kids[i]
      <4>1. PICK q \in 1 .. p + 1 - 1 : u[q] = h[m].kids[i]
        BY <3>2
      <4>2. CASE q = 1
        BY <1>2, <1>5, <4>1, <4>2
      <4>3. CASE q # 1
        <5>1. q - 1 \in 1 .. p - 1 /\ q - 1 + 1 = q /\ q - 1 \in 1 .. Len(Tail(u))
          BY <1>2, <2>1, <4>3
        <5> QED BY <1>2, <4>1, <5>1
      <4> QED BY <4>2, <4>3
    <3> QED BY <2>4, <3>1, <3>2
  <2> QED BY <2>1, <2>2, <2>4, <2>5, <2>6 DEF Waiting
<1>11. ASSUME NEW i \in 1 .. Len(r)
       PROVE  Typed(g, r[i]) \/ \E q \in 1 .. Len(Tail(u)) : Tail(u)[q] = r[i]
  <2>1. r[i] \in 1 .. Len(h) /\ ~Named(h, r[i])
    <3>1. r[i] \in 1 .. Len(h) /\ r[i] \notin KidSet(h)
      BY ElementOfSeq DEF Tree
    <3> QED BY <3>1, ReadFacts
  <2>2. CASE Typed(h, r[i])
    BY <1>7, <2>1, <2>2
  <2>3. CASE \E q \in 1 .. Len(u) : u[q] = r[i]
    <3>1. PICK q \in 1 .. Len(u) : u[q] = r[i]
      BY <2>3
    <3>2. CASE q = 1
      BY <1>2, <1>5, <3>1, <3>2
    <3>3. CASE q # 1
      <4>1. q - 1 \in 1 .. Len(Tail(u)) /\ q - 1 + 1 = q
        BY <1>2, <3>3
      <4> QED BY <1>2, <3>1, <4>1
    <3> QED BY <3>2, <3>3
  <2> QED BY <2>2, <2>3 DEF Types
<1>12. ASSUME NEW m \in 1 .. Len(g), Typed(g, m), ~Named(g, m)
       PROVE  Settled(g, k, m)
  <2>1. CASE m = n \/ m \in Len(h) + 1 .. Len(g)
    BY <2>1 DEF Advances
  <2>2. CASE m \in 1 .. Len(h) /\ m # n
    <3>1. g[m] = h[m] /\ Typed(h, m) /\ Settled(h, l, m)
      BY <1>4, <1>6, <1>12, <2>2 DEF Types, Typed
    <3>2. ASSUME NEW i \in Read(h, m)
          PROVE  g[h[m].kids[i]] = h[h[m].kids[i]] /\ Typed(g, h[m].kids[i])
      <4>1. Typed(h, h[m].kids[i])
        BY <3>1 DEF Settled
      <4> QED BY <1>7, <1>8, <2>2, <4>1
    <3>3. h[m].type \in Arithmetic => 1 \in Read(h, m) /\ 2 \in Read(h, m)
      BY <2>2, KidsOfTree, SMTT(30)
        DEF NodeShape, KidsFit, Read, Arithmetic, Additive, Multiplicative
    <3>4. h[m].type = "CAST_TO_FLOAT" => 1 \in Read(h, m)
      BY <2>2, KidsOfTree DEF NodeShape, KidsFit, Read
    <3>5. Read(g, m) = Read(h, m)
      BY <3>1 DEF Read
    <3>6. h[m].type = "NAME" => /\ FieldsIn(k, h[m].val) # {}
                                /\ h[m].node_type = TypeIn(k, h[m].val)
      BY <3>1 DEF Settled, Advances
    <3>7. h[m].type = "ASSIGN" => FieldsIn(k, NameIn(g, h[m].kids[1])) # {}
      <4>1. h[m].type = "ASSIGN" => h[m].kids[1] \in 1 .. Len(h)
        BY <2>2, KidsOfTree DEF NodeShape, KidsFit
      <4>2. h[m].type = "ASSIGN" => NameIn(g, h[m].kids[1]) = NameIn(h, h[m].kids[1])
        BY <4>1 DEF NameIn, CName, Advances
      <4>3. h[m].type = "ASSIGN" => FieldsIn(l, NameIn(h, h[m].kids[1])) # {}
        BY <3>1 DEF Settled
      <4> QED BY <4>2, <4>3 DEF Advances
    <3> QED BY <3>1, <3>2, <3>3, <3>4, <3>5, <3>6, <3>7 DEF Settled
  <2> QED BY <1>1, <2>1, <2>2
<1>13. Tail(u) \in Seq(1 .. Len(g)) /\ Once(Tail(u))
  <2>1. \A p \in 1 .. Len(Tail(u)) : Tail(u)[p] \in 1 .. Len(g)
    BY <1>1, <1>2, ElementOfSeq
  <2>2. Tail(u) \in Seq(1 .. Len(g))
    <3> DEFINE t == Tail(u)
    <3> HIDE DEF t
    <3>1. t \in Seq(1 .. Len(h)) /\ \A p \in 1 .. Len(t) : t[p] \in 1 .. Len(g)
      BY <1>2, <2>1 DEF t
    <3>2. t \in Seq(1 .. Len(g))
      BY <3>1, SeqInto
    <3> QED BY <3>2 DEF t
  <2>3. Once(Tail(u))
    BY <1>2 DEF Once
  <2> QED BY <2>2, <2>3
<1>14. LayoutTypes(k)
  BY DEF Advances
<1> QED BY <1>9, <1>10, <1>11, <1>12, <1>13, <1>14 DEF Types

(* Whether the children of a node fit depends on the kinds of nodes only.  *)
LEMMA KidsFitSame ==
  ASSUME NEW h, NEW g, NEW m, g[m].type = h[m].type, g[m].kids = h[m].kids,
         \A i \in 1 .. Len(h[m].kids) : g[h[m].kids[i]].type = h[h[m].kids[i]].type,
         KidsFit(h, m)
  PROVE  KidsFit(g, m)
BY DEF KidsFit

(* A node that gets another type stays where it is.                        *)
LEMMA RetypedTree ==
  ASSUME NEW h, NEW r, NEW g, Tree(h, r), Len(g) = Len(h), g = [m \in 1 .. Len(h) |-> g[m]],
         \A m \in 1 .. Len(h) : /\ IsNode(g[m]) /\ g[m].type = h[m].type
                                /\ g[m].val = h[m].val /\ g[m].kids = h[m].kids
  PROVE  Tree(g, r)
<1>1. Len(g) \in Nat /\ r \in Seq(1 .. Len(g)) /\ Once(r)
  BY DEF Tree
<1>2. KidsOnce(g)
  <2>1. KidsOnce(h)
    BY DEF Tree
  <2> QED BY <2>1 DEF KidsOnce
<1>3. KidSet(g) = KidSet(h)
  BY DEF KidSet
<1>4. \A m \in 1 .. Len(h) : Base(g, m) = Base(h, m)
  BY DEF Base
<1>5. ASSUME NEW m \in 1 .. Len(h) PROVE NodeShape(g, m)
  <2>1. NodeShape(h, m) /\ \A i \in 1 .. Len(h[m].kids) : h[m].kids[i] \in 1 .. Len(h)
    BY KidsOfTree
  <2>3. \A i \in 1 .. Len(h[m].kids) : g[h[m].kids[i]].type = h[h[m].kids[i]].type
    BY <2>1
  <2>2. KidsFit(g, m)
    <3>1. KidsFit(h, m)
      BY <2>1 DEF NodeShape
    <3> QED BY <2>3, <3>1, KidsFitSame
  <2> QED BY <2>1, <2>2 DEF NodeShape
<1>6. Older(g)
  <2>1. Older(h)
    BY DEF Tree
  <2>2. ASSUME NEW m \in 1 .. Len(h), NEW i \in 1 .. Len(h[m].kids)
        PROVE  h[m].kids[i] \in 1 .. Len(h)
    BY KidsOfTree
  <2> QED BY <1>4, <2>1, <2>2 DEF Older
<1>7. \A i \in 1 .. Len(r) : r[i] \in 1 .. Len(h) /\ h[r[i]].type \in StatementTypes
                             /\ r[i] \notin KidSet(h)
  BY ElementOfSeq DEF Tree
<1> QED BY <1>1, <1>2, <1>3, <1>5, <1>6, <1>7 DEF Tree

SettledChild(h, l, n, x) ==
  /\ x \in 1 .. Len(h) /\ x # n /\ ~Named(h, x) /\ Typed(h, x)
  /\ Settled(h, l, x) /\ h[x].node_type \in {"INT", "FLOAT"}

(* The node whose turn it is reads nodes that have their types.            *)
LEMMA HeadReads ==
  ASSUME NEW h, NEW r, NEW u, NEW l, NEW n,
         Tree(h, r), Types(h, r, u, l), u # <<>>, n = Head(u)
  PROVE  /\ n \in 1 .. Len(h) /\ Len(h) \in Nat /\ ~Typed(h, n) /\ ~Named(h, n)
         /\ h[n].type # "CAST_TO_FLOAT" /\ ~FoldableIn(h, n)
         /\ \A i \in Read(h, n) : SettledChild(h, l, n, h[n].kids[i])
<1>1. n \in 1 .. Len(h) /\ n = u[1] /\ 1 \in 1 .. Len(u)
  BY TailFacts DEF Types
<1>2. Waiting(h, u, 1) /\ ~FoldableIn(h, n)
  BY <1>1 DEF Types
<1>3. /\ ~Typed(h, n) /\ ~Named(h, n) /\ h[n].type # "CAST_TO_FLOAT"
      /\ \A i \in Read(h, n) : Typed(h, h[n].kids[i])
  BY <1>1, <1>2 DEF Waiting
<1>4. ASSUME NEW i \in Read(h, n)
      PROVE  SettledChild(h, l, n, h[n].kids[i])
  <2>1. PICK x : x = h[n].kids[i]
    OBVIOUS
  <2>2. x \in 1 .. Len(h) /\ ~Named(h, x)
    BY <1>1, <2>1, ReadFacts
  <2>3. Typed(h, x) /\ x # n
    BY <1>3, <2>1
  <2>4. Settled(h, l, x)
    BY <2>2, <2>3 DEF Types
  <2>5. h[x].node_type \in {"INT", "FLOAT"}
    BY <2>4 DEF Settled
  <2> QED BY <2>1, <2>2, <2>3, <2>4, <2>5 DEF SettledChild
<1>5. Len(h) \in Nat
  BY DEF Tree
<1> QED BY <1>1, <1>2, <1>3, <1>4, <1>5

(* A node gets the type t that its fields and its children call for, alone *)
(* or together with the target x of an assignment.                         *)
Retypes(h, l, g, k, n, x, t) ==
  /\ x # n => x \in 1 .. Len(h) /\ Named(h, x)
  /\ t \in {"INT", "FLOAT"}
  /\ Len(g) = Len(h) /\ g = [m \in 1 .. Len(h) |-> g[m]]
  /\ \A m \in 1 .. Len(h) :
       g[m] = IF m = n \/ m = x THEN [h[m] EXCEPT !.node_type = t] ELSE h[m]
  /\ h[n].type \in Arithmetic => /\ h[h[n].kids[1]].node_type = t
                                 /\ h[h[n].kids[2]].node_type = t
  /\ h[n].type \in Literals => t = FamilyOf(h[n].val)
  /\ h[n].type = "NAME" => FieldsIn(k, h[n].val) # {} /\ t = TypeIn(k, h[n].val)
  /\ h[n].type = "ASSIGN" => FieldsIn(k, NameIn(h, h[n].kids[1])) # {}
  /\ LayoutTypes(k)
  /\ \A name : FieldsIn(l, name) # {} => FieldsIn(k, name) # {} /\ TypeIn(k, name) = TypeIn(l, name)

(* Then the tree stays a tree, and as typed as it was.                     *)
LEMMA RetypeAdvances ==
  ASSUME NEW h, NEW r, NEW u, NEW l, NEW g, NEW k, NEW n, NEW x, NEW t,
         Tree(h, r), Types(h, r, u, l), u # <<>>, n = Head(u), Retypes(h, l, g, k, n, x, t)
  PROVE  Tree(g, r) /\ Types(g, r, Tail(u), k)
<1>1. /\ n \in 1 .. Len(h) /\ Len(h) \in Nat /\ ~Typed(h, n) /\ ~Named(h, n)
      /\ h[n].type # "CAST_TO_FLOAT" /\ ~FoldableIn(h, n)
      /\ \A i \in Read(h, n) : SettledChild(h, l, n, h[n].kids[i])
  BY HeadReads
<1>2. ASSUME NEW m \in 1 .. Len(h)
      PROVE  /\ IsNode(g[m]) /\ g[m].type = h[m].type /\ g[m].val = h[m].val
             /\ g[m].kids = h[m].kids
             /\ m = n => g[m].node_type = t
             /\ m # n /\ ~Named(h, m) => g[m] = h[m]
  <2>1. IsNode(h[m])
    BY DEF Tree, NodeShape
  <2>4. /\ x # n => Named(h, x)
        /\ g[m] = IF m = n \/ m = x THEN [h[m] EXCEPT !.node_type = t] ELSE h[m]
    BY DEF Retypes
  <2>2. CASE m = n \/ m = x
    <3>1. g[m] = [type |-> h[m].type, val |-> h[m].val, kids |-> h[m].kids, node_type |-> t]
      BY <2>1, <2>2, <2>4 DEF IsNode
    <3> QED BY <2>2, <2>4, <3>1 DEF IsNode
  <2>3. CASE ~(m = n \/ m = x)
    BY <2>1, <2>3, <2>4
  <2> QED BY <2>2, <2>3 DEF Retypes
<1>3. Tree(g, r)
  <2>1. Len(g) = Len(h) /\ g = [m \in 1 .. Len(h) |-> g[m]]
    BY DEF Retypes
  <2> QED BY <1>2, <2>1, RetypedTree
<1>4. ~FoldableIn(g, n)
  <2>1. h[n].type \in Arithmetic => \A i \in 1 .. 2 : h[n].kids[i] \in 1 .. Len(h)
    <3>1. NodeShape(h, n) /\ \A i \in 1 .. Len(h[n].kids) : h[n].kids[i] \in 1 .. Len(h)
      BY <1>1, KidsOfTree
    <3> QED BY <3>1 DEF NodeShape, KidsFit
  <2>2. h[n].type \in Arithmetic => \A i \in 1 .. 2 : g[h[n].kids[i]].type = h[h[n].kids[i]].type
    BY <1>2, <2>1
  <2>3. g[n].type = h[n].type /\ g[n].kids = h[n].kids
    BY <1>1, <1>2
  <2> QED BY <1>1, <2>2, <2>3 DEF FoldableIn
<1>5. Settled(g, k, n)
  <2>1. Read(g, n) = Read(h, n)
    BY <1>1, <1>2 DEF Read
  <2>2. ASSUME NEW i \in Read(h, n)
        PROVE  g[h[n].kids[i]] = h[h[n].kids[i]] /\ Typed(g, h[n].kids[i])
    BY <1>1, <1>2 DEF Typed, SettledChild
  <2>3. h[n].type \in Arithmetic => 1 \in Read(h, n) /\ 2 \in Read(h, n)
    <3>1. NodeShape(h, n)
      BY <1>1 DEF Tree
    <3> QED BY <3>1 DEF NodeShape, KidsFit, Read, Arithmetic, Additive, Multiplicative
  <2>4. h[n].type \in Arithmetic =>
          /\ g[h[n].kids[1]].node_type = t /\ g[h[n].kids[2]].node_type = t
    BY <2>2, <2>3 DEF Retypes
  <2>5. g[n].type = h[n].type /\ g[n].val = h[n].val /\ g[n].kids = h[n].kids /\ g[n].node_type = t
    BY <1>1, <1>2
  <2>6. h[n].type = "ASSIGN" => FieldsIn(k, NameIn(g, h[n].kids[1])) # {}
    <3>1. h[n].type = "ASSIGN" => h[n].kids[1] \in 1 .. Len(h)
      BY <1>1, KidsOfTree DEF NodeShape, KidsFit
    <3>2. h[n].type = "ASSIGN" => NameIn(g, h[n].kids[1]) = NameIn(h, h[n].kids[1])
      BY <1>2, <3>1 DEF NameIn, CName
    <3> QED BY <3>2 DEF Retypes
  <2> QED BY <1>1, <2>1, <2>2, <2>4, <2>5, <2>6 DEF Settled, Retypes
<1>6. Advances(h, l, g, k, n)
  BY <1>1, <1>2, <1>4, <1>5 DEF Advances, Retypes
<1> QED BY <1>3, <1>6, TypesAdvance

(* A field has one of the two types.                                       *)
LEMMA FieldTypes ==
  ASSUME NEW l, LayoutTypes(l), NEW name, FieldsIn(l, name) # {}
  PROVE  TypeIn(l, name) \in {"INT", "FLOAT"}
<1>1. PICK F : l \in Seq([name : F, field_t : {"INT", "FLOAT"}])
  BY DEF LayoutTypes
<1>2. PICK i : i = CHOOSE j \in FieldsIn(l, name) : TRUE
  OBVIOUS
<1>3. i \in FieldsIn(l, name)
  BY <1>2, Zenon
<1>4. i \in 1 .. Len(l)
  BY <1>1, <1>3 DEF FieldsIn
<1>5. l[i] \in [name : F, field_t : {"INT", "FLOAT"}]
  BY <1>1, <1>4, ElementOfSeq
<1>6. l[i].field_t \in {"INT", "FLOAT"}
  BY <1>5
<1> QED BY <1>2, <1>6 DEF TypeIn

Field(name, t) == [name |-> name, field_t |-> t]
FieldTo(l, k)  == \E new, t : /\ FieldsIn(l, new) = {} /\ t \in {"INT", "FLOAT"}
                              /\ k = Append(l, Field(new, t))

(* A new field changes nothing for the names that have one.                *)
LEMMA FieldAdded ==
  ASSUME NEW l, LayoutTypes(l), NEW k, FieldTo(l, k)
  PROVE  /\ LayoutTypes(k)
         /\ \A name : FieldsIn(l, name) # {} =>
              FieldsIn(k, name) # {} /\ TypeIn(k, name) = TypeIn(l, name)
<1>1. PICK F : l \in Seq([name : F, field_t : {"INT", "FLOAT"}])
  BY DEF LayoutTypes
<1>0. PICK new, t : /\ FieldsIn(l, new) = {} /\ t \in {"INT", "FLOAT"}
                    /\ k = Append(l, Field(new, t))
  BY DEF FieldTo
<1>2. k = Append(l, [name |-> new, field_t |-> t])
  BY <1>0 DEF Field
<1>3. /\ k \in Seq([name : F \cup {new}, field_t : {"INT", "FLOAT"}])
      /\ Len(l) \in Nat /\ DOMAIN l = 1 .. Len(l) /\ DOMAIN k = 1 .. Len(l) + 1
      /\ \A i \in 1 .. Len(l) : k[i] = l[i]
      /\ k[Len(l) + 1].name = new
  <2>0. /\ Len(l) \in Nat /\ DOMAIN l = 1 .. Len(l)
        /\ \A i \in 1 .. Len(l) : l[i] \in [name : F, field_t : {"INT", "FLOAT"}]
    <3>1. Len(l) \in Nat /\ DOMAIN l = 1 .. Len(l)
      BY <1>1
    <3>2. \A i \in 1 .. Len(l) : l[i] \in [name : F, field_t : {"INT", "FLOAT"}]
      BY <1>1, ElementOfSeq
    <3> QED BY <3>1, <3>2
  <2>1. \A i \in 1 .. Len(l) : l[i] \in [name : F \cup {new}, field_t : {"INT", "FLOAT"}]
    BY <2>0
  <2>2. l \in Seq([name : F \cup {new}, field_t : {"INT", "FLOAT"}])
    BY <1>1, <2>1, SeqInto
  <2>3. [name |-> new, field_t |-> t] \in [name : F \cup {new}, field_t : {"INT", "FLOAT"}]
    BY <1>0
  <2>4. /\ k \in Seq([name : F \cup {new}, field_t : {"INT", "FLOAT"}])
        /\ Len(k) = Len(l) + 1 /\ \A i \in 1 .. Len(l) : k[i] = l[i]
        /\ k[Len(l) + 1] = [name |-> new, field_t |-> t]
    BY <1>2, <2>2, <2>3, AppendFacts
  <2>5. DOMAIN k = 1 .. Len(l) + 1
    BY <2>4
  <2>6. k[Len(l) + 1].name = new
    BY <2>4
  <2> QED BY <2>0, <2>4, <2>5, <2>6
<1>4. ASSUME NEW name, FieldsIn(l, name) # {}
      PROVE  FieldsIn(k, name) # {} /\ TypeIn(k, name) = TypeIn(l, name)
  <2>1. name # new
    BY <1>0, <1>4
  <2>2. FieldsIn(k, name) = FieldsIn(l, name)
    BY <1>3, <2>1 DEF FieldsIn
  <2>3. PICK i : i = CHOOSE j \in FieldsIn(l, name) : TRUE
    OBVIOUS
  <2>4. i \in FieldsIn(l, name)
    BY <1>4, <2>3, Zenon
  <2>5. k[i] = l[i]
    BY <1>3, <2>4 DEF FieldsIn
  <2> QED BY <1>4, <2>2, <2>3, <2>5 DEF TypeIn
<1>5. LayoutTypes(k)
  BY <1>3 DEF LayoutTypes
<1> QED BY <1>4, <1>5

(* And it is there.                                                        *)
LEMMA FieldIsThere ==
  ASSUME NEW l, LayoutTypes(l), NEW new, NEW t, NEW k, k = Append(l, Field(new, t))
  PROVE  FieldsIn(k, new) # {}
<1>1. PICK F : l \in Seq([name : F, field_t : {"INT", "FLOAT"}])
  BY DEF LayoutTypes
<1>2. \A i \in 1 .. Len(l) : l[i] \in {l[j] : j \in 1 .. Len(l)} \cup {Field(new, t)}
  OBVIOUS
<1>3. l \in Seq({l[j] : j \in 1 .. Len(l)} \cup {Field(new, t)})
  BY <1>1, <1>2, SeqInto
<1>4. Field(new, t) \in {l[j] : j \in 1 .. Len(l)} \cup {Field(new, t)}
  OBVIOUS
<1>5. /\ k \in Seq({l[j] : j \in 1 .. Len(l)} \cup {Field(new, t)})
      /\ Len(k) = Len(l) + 1 /\ k[Len(l) + 1] = Field(new, t)
  BY <1>3, <1>4, AppendFacts
<1>6. Len(l) + 1 \in DOMAIN k
  BY <1>1, <1>5
<1> QED BY <1>5, <1>6 DEF FieldsIn, Field

(* The two updates of the pass that change types alone.                    *)
One(h, n, t)    == [h EXCEPT ![n].node_type = t]
Two(h, n, x, t) == [h EXCEPT ![n].node_type = t, ![x].node_type = t]

(* The first gives the node n the type t and changes nothing else.         *)
LEMMA RetypeOne ==
  ASSUME NEW h, NEW r, Tree(h, r), NEW n \in 1 .. Len(h), NEW t, NEW g, g = One(h, n, t)
  PROVE  /\ Len(g) = Len(h) /\ g = [m \in 1 .. Len(h) |-> g[m]]
         /\ \A m \in 1 .. Len(h) :
              g[m] = IF m = n THEN [h[m] EXCEPT !.node_type = t] ELSE h[m]
<1>1. h = [m \in 1 .. Len(h) |-> h[m]] /\ DOMAIN h = 1 .. Len(h) /\ Len(h) \in Nat
  BY DEF Tree
<1>2. DOMAIN g = 1 .. Len(h) /\ g = [m \in 1 .. Len(h) |-> g[m]]
  BY <1>1 DEF One
<1>3. Len(g) = Len(h)
  BY <1>1, <1>2
<1>4. \A m \in 1 .. Len(h) : g[m] = IF m = n THEN [h[m] EXCEPT !.node_type = t] ELSE h[m]
  BY <1>1 DEF One
<1> QED BY <1>2, <1>3, <1>4

(* The second gives it to the target x of an assignment too.               *)
LEMMA RetypeTwo ==
  ASSUME NEW h, NEW r, Tree(h, r), NEW n \in 1 .. Len(h), NEW x \in 1 .. Len(h), x # n, NEW t,
         NEW g, g = Two(h, n, x, t)
  PROVE  /\ Len(g) = Len(h) /\ g = [m \in 1 .. Len(h) |-> g[m]]
         /\ \A m \in 1 .. Len(h) :
              g[m] = IF m = n \/ m = x THEN [h[m] EXCEPT !.node_type = t] ELSE h[m]
<1>1. h = [m \in 1 .. Len(h) |-> h[m]] /\ DOMAIN h = 1 .. Len(h) /\ Len(h) \in Nat
  BY DEF Tree
<1>2. DOMAIN g = 1 .. Len(h) /\ g = [m \in 1 .. Len(h) |-> g[m]]
  BY <1>1 DEF Two
<1>3. Len(g) = Len(h)
  BY <1>1, <1>2
<1>4. \A m \in 1 .. Len(h) :
        g[m] = IF m = n \/ m = x THEN [h[m] EXCEPT !.node_type = t] ELSE h[m]
  BY <1>1 DEF Two
<1> QED BY <1>2, <1>3, <1>4

(* What every step of the pass begins with.                                *)
Leaving(n) == untyped # <<>> /\ n = Head(untyped) /\ untyped' = Tail(untyped) /\ root' = root

Typing0 == Tree(heap, root) /\ Types(heap, root, untyped, layout)
Typing1 == Tree(heap', root') /\ Types(heap', root', untyped', layout')

(* The layout keeps its fields when it stays, and its names have types.    *)
LEMMA LayoutStays ==
  ASSUME Typing0, layout' = layout
  PROVE  /\ LayoutTypes(layout')
         /\ \A name : FieldsIn(layout, name) # {} =>
              FieldsIn(layout', name) # {} /\ TypeIn(layout', name) = TypeIn(layout, name)
BY DEF Typing0, Types

(* One node gets its type.                                                 *)
LEMMA TypeOneKeeps ==
  ASSUME Typing0, NEW n, Leaving(n), layout' = layout, NEW t \in {"INT", "FLOAT"}, TypeOf(n, t),
         heap[n].type # "ASSIGN",
         heap[n].type \in Arithmetic => /\ heap[heap[n].kids[1]].node_type = t
                                        /\ heap[heap[n].kids[2]].node_type = t,
         heap[n].type \in Literals => t = FamilyOf(heap[n].val),
         heap[n].type = "NAME" => /\ FieldsIn(layout, heap[n].val) # {}
                                  /\ t = TypeIn(layout, heap[n].val)
  PROVE  Typing1
<1>1. n \in 1 .. Len(heap)
  BY HeadReads DEF Typing0, Leaving
<1>2. /\ Len(heap') = Len(heap) /\ heap' = [m \in 1 .. Len(heap) |-> heap'[m]]
      /\ \A m \in 1 .. Len(heap) :
           heap'[m] = IF m = n THEN [heap[m] EXCEPT !.node_type = t] ELSE heap[m]
  <2>1. heap' = One(heap, n, t) /\ Tree(heap, root)
    BY DEF TypeOf, Typing0, One
  <2> QED BY <1>1, <2>1, RetypeOne
<1>3. Retypes(heap, layout, heap', layout', n, n, t)
  BY <1>2, LayoutStays DEF Retypes
<1> QED BY <1>3, RetypeAdvances DEF Typing0, Typing1, Leaving

(* The children of a node whose turn it is.                                *)
LEMMA LeavingReads ==
  ASSUME Typing0, NEW n, Leaving(n)
  PROVE  /\ n \in 1 .. Len(heap) /\ Len(heap) \in Nat /\ NodeShape(heap, n) /\ ~Typed(heap, n)
         /\ heap[n].type # "CAST_TO_FLOAT" /\ ~FoldableIn(heap, n)
         /\ \A i \in Read(heap, n) : SettledChild(heap, layout, n, heap[n].kids[i])
<1>1. /\ n \in 1 .. Len(heap) /\ Len(heap) \in Nat /\ ~Typed(heap, n)
      /\ heap[n].type # "CAST_TO_FLOAT" /\ ~FoldableIn(heap, n)
      /\ \A i \in Read(heap, n) : SettledChild(heap, layout, n, heap[n].kids[i])
  BY HeadReads DEF Typing0, Leaving
<1> QED BY <1>1 DEF Typing0, Tree

(* A literal has the type of its value.                                    *)
LEMMA TypeLiteralKeeps ==
  ASSUME Typing0, TypeLiteral, root' = root
  PROVE  Typing1
<1>1. PICK n : n = Head(untyped)
  OBVIOUS
<1>2. Leaving(n) /\ layout' = layout /\ heap[n].type \in Literals
  BY <1>1 DEF TypeLiteral, Typing, Leaving
<1>3. PICK t : t = IF heap[n].type = "INTEGERLIT" THEN "INT" ELSE "FLOAT"
  OBVIOUS
<1>4. TypeOf(n, t) /\ t \in {"INT", "FLOAT"}
  BY <1>1, <1>3 DEF TypeLiteral
<1>5. t = FamilyOf(heap[n].val)
  BY <1>2, <1>3, LeavingReads DEF NodeShape, FamilyOf, Literals
<1>6. heap[n].type \notin Arithmetic /\ heap[n].type \notin {"NAME", "ASSIGN"}
  BY <1>2 DEF Literals, Arithmetic, Additive, Multiplicative
<1> QED BY <1>2, <1>4, <1>5, <1>6, TypeOneKeeps

(* A name has the type of its field, if it has one.                        *)
LEMMA TypeNameKeeps ==
  ASSUME Typing0, TypeName, root' = root
  PROVE  Tree(heap', root') /\ (fault' = "none" => Typing1)
<1>1. PICK n : n = Head(untyped)
  OBVIOUS
<1>2. Leaving(n) /\ layout' = layout /\ heap[n].type = "NAME"
  BY <1>1 DEF TypeName, Typing, Leaving
<1>3. \/ fault' # "none" /\ heap' = heap
      \/ TypeOf(n, get_field_type(heap[n].val)) /\ FieldsOf(heap[n].val) # {}
  <2>1. CASE ~HasName(n)
    BY <1>1, <2>1 DEF TypeName
  <2>2. CASE HasName(n) /\ FieldsOf(heap[n].val) = {}
    BY <1>1, <2>2 DEF TypeName
  <2>3. CASE HasName(n) /\ FieldsOf(heap[n].val) # {}
    BY <1>1, <2>3 DEF TypeName
  <2> QED BY <2>1, <2>2, <2>3
<1>4. CASE fault' # "none" /\ heap' = heap
  BY <1>4 DEF Typing0
<1>5. CASE TypeOf(n, get_field_type(heap[n].val)) /\ FieldsOf(heap[n].val) # {}
  <2>1. PICK t : t = TypeIn(layout, heap[n].val)
    OBVIOUS
  <2>2. get_field_type(heap[n].val) = t /\ FieldsIn(layout, heap[n].val) # {}
    BY <1>5, <2>1 DEF get_field_type, TypeIn, FieldsOf, FieldsIn
  <2>3. t \in {"INT", "FLOAT"}
    BY <2>1, <2>2, FieldTypes DEF Typing0, Types
  <2>4. heap[n].type \notin Arithmetic \cup Literals /\ heap[n].type # "ASSIGN"
    BY <1>2 DEF Literals, Arithmetic, Additive, Multiplicative
  <2>5. TypeOf(n, t)
    BY <1>5, <2>2
  <2>6. Typing1
    BY <1>2, <2>1, <2>2, <2>3, <2>4, <2>5, TypeOneKeeps
  <2> QED BY <2>6 DEF Typing1
<1> QED BY <1>3, <1>4, <1>5

(* An operation on two operands of one type has that type.                 *)
LEMMA TypeArithmeticKeeps ==
  ASSUME Typing0, TypeArithmetic, root' = root
  PROVE  Typing1
<1>1. PICK n : n = Head(untyped)
  OBVIOUS
<1>2. Leaving(n) /\ layout' = layout /\ heap[n].type \in Arithmetic
  BY <1>1 DEF TypeArithmetic, Typing, Leaving
<1>3. PICK t : t = heap[heap[n].kids[1]].node_type
  OBVIOUS
<1>4. TypeOf(n, t) /\ heap[heap[n].kids[2]].node_type = t
  <2>1. PICK e : e = [i \in 1 .. 2 |-> heap[heap[n].kids[i]].node_type]
    OBVIOUS
  <2>2. e[1] = e[2] /\ TypeOf(n, e[1])
    BY <1>1, <2>1 DEF TypeArithmetic
  <2>3. e[1] = t /\ e[2] = heap[heap[n].kids[2]].node_type
    BY <1>3, <2>1
  <2> QED BY <2>2, <2>3
<1>5. t \in {"INT", "FLOAT"}
  <2>1. NodeShape(heap, n) /\ \A i \in Read(heap, n) : SettledChild(heap, layout, n, heap[n].kids[i])
    BY <1>2, LeavingReads
  <2>2. 1 \in Read(heap, n)
    BY <1>2, <2>1 DEF NodeShape, KidsFit, Read, Arithmetic, Additive, Multiplicative
  <2> QED BY <1>3, <2>1, <2>2 DEF SettledChild
<1>6. heap[n].type \notin Literals /\ heap[n].type \notin {"NAME", "ASSIGN"}
  BY <1>2 DEF Literals, Arithmetic, Additive, Multiplicative
<1> QED BY <1>2, <1>3, <1>4, <1>5, <1>6, TypeOneKeeps

(* A write has the type of what it writes.                                 *)
LEMMA TypeWriteKeeps ==
  ASSUME Typing0, TypeWrite, root' = root
  PROVE  Typing1
<1>1. PICK n : n = Head(untyped)
  OBVIOUS
<1>2. Leaving(n) /\ layout' = layout /\ heap[n].type = "WRITE"
  BY <1>1 DEF TypeWrite, Typing, Leaving
<1>3. PICK t : t = heap[heap[n].kids[1]].node_type
  OBVIOUS
<1>4. TypeOf(n, t)
  BY <1>1, <1>3 DEF TypeWrite
<1>5. t \in {"INT", "FLOAT"}
  <2>1. NodeShape(heap, n) /\ \A i \in Read(heap, n) : SettledChild(heap, layout, n, heap[n].kids[i])
    BY <1>2, LeavingReads
  <2>2. 1 \in Read(heap, n)
    BY <1>2, <2>1 DEF NodeShape, KidsFit, Read
  <2> QED BY <1>3, <2>1, <2>2 DEF SettledChild
<1>6. heap[n].type \notin Literals \cup Arithmetic /\ heap[n].type \notin {"NAME", "ASSIGN"}
  BY <1>2 DEF Literals, Arithmetic, Additive, Multiplicative
<1> QED BY <1>2, <1>4, <1>5, <1>6, TypeOneKeeps

(* An assignment and its target have the type of the value, and a new      *)
(* variable gets a field of that type.                                     *)
LEMMA TypeAssignKeeps ==
  ASSUME Typing0, TypeAssign, root' = root
  PROVE  Tree(heap', root') /\ (fault' = "none" => Typing1)
<1>1. PICK n, x : n = Head(untyped) /\ x = heap[n].kids[1]
  OBVIOUS
<1>2. Leaving(n) /\ heap[n].type = "ASSIGN"
  BY <1>1 DEF TypeAssign, Typing, Leaving
<1>3. PICK t : t = heap[heap[n].kids[2]].node_type
  OBVIOUS
<1>4. \/ fault' # "none" /\ heap' = heap
      \/ /\ heap' = Two(heap, n, x, t)
         /\ \/ FieldsOf(NameOf(x)) = {}
               /\ layout' = Append(layout, Field(NameOf(x), t))
            \/ FieldsOf(NameOf(x)) # {} /\ layout' = layout
  BY <1>1, <1>3 DEF TypeAssign, Two, Field
<1>5. CASE fault' # "none" /\ heap' = heap
  BY <1>5 DEF Typing0
<1>6. ASSUME heap' = Two(heap, n, x, t),
             \/ FieldsOf(NameOf(x)) = {}
                /\ layout' = Append(layout, Field(NameOf(x), t))
             \/ FieldsOf(NameOf(x)) # {} /\ layout' = layout
      PROVE  Typing1
  <2>1. /\ NodeShape(heap, n) /\ n \in 1 .. Len(heap)
        /\ \A i \in Read(heap, n) : SettledChild(heap, layout, n, heap[n].kids[i])
    BY <1>2, LeavingReads
  <2>2. Len(heap[n].kids) = 2 /\ heap[x].type \in Expressions
    BY <1>1, <1>2, <2>1 DEF NodeShape, KidsFit
  <2>3. t \in {"INT", "FLOAT"}
    <3>1. 2 \in Read(heap, n)
      BY <2>2 DEF Read
    <3> QED BY <1>3, <2>1, <3>1 DEF SettledChild
  <2>4. x \in 1 .. Len(heap)
    BY <1>1, <2>1, <2>2, KidsOfTree DEF Typing0
  <2>5. x # n /\ Named(heap, x)
    BY <1>1, <1>2, <2>1, <2>2 DEF Named, Expressions, Tops, Literals, Arithmetic, Additive,
                                  Multiplicative
  <2>6. /\ Len(heap') = Len(heap) /\ heap' = [m \in 1 .. Len(heap) |-> heap'[m]]
        /\ \A m \in 1 .. Len(heap) :
             heap'[m] = IF m = n \/ m = x THEN [heap[m] EXCEPT !.node_type = t] ELSE heap[m]
    <3>1. Tree(heap, root)
      BY DEF Typing0
    <3>2. n \in 1 .. Len(heap) /\ x # n
      BY <2>1, <2>5
    <3> QED BY <1>6, <2>4, <3>1, <3>2, RetypeTwo
  <2>7. /\ LayoutTypes(layout')
        /\ \A name : FieldsIn(layout, name) # {} =>
             FieldsIn(layout', name) # {} /\ TypeIn(layout', name) = TypeIn(layout, name)
        /\ FieldsIn(layout', NameIn(heap, x)) # {}
    <3>0. NameIn(heap, x) = NameOf(x)
      BY DEF NameIn, NameOf
    <3>1. CASE FieldsOf(NameOf(x)) # {} /\ layout' = layout
      BY <3>0, <3>1, LayoutStays DEF FieldsOf, FieldsIn
    <3>2. CASE FieldsOf(NameOf(x)) = {}
               /\ layout' = Append(layout, Field(NameOf(x), t))
      <4>1. PICK new : new = NameOf(x)
        OBVIOUS
      <4>2. FieldsIn(layout, new) = {} /\ layout' = Append(layout, Field(new, t))
        BY <3>2, <4>1 DEF FieldsOf, FieldsIn
      <4>3. LayoutTypes(layout)
        BY DEF Typing0, Types
      <4>4. PICK k : k = layout'
        OBVIOUS
      <4>5. k = Append(layout, Field(new, t)) /\ FieldsIn(layout, new) = {}
        BY <4>2, <4>4
      <4>6. /\ LayoutTypes(k)
            /\ \A name : FieldsIn(layout, name) # {} =>
                 FieldsIn(k, name) # {} /\ TypeIn(k, name) = TypeIn(layout, name)
        <5>1. FieldTo(layout, k)
          BY <2>3, <4>5 DEF FieldTo
        <5> QED BY <4>3, <5>1, FieldAdded
      <4>7. FieldsIn(k, new) # {}
        BY <2>3, <4>3, <4>5, FieldIsThere
      <4> QED BY <3>0, <4>1, <4>4, <4>6, <4>7
    <3> QED BY <1>6, <3>1, <3>2
  <2>8. heap[n].type \notin Literals \cup Arithmetic /\ heap[n].type # "NAME"
    BY <1>2 DEF Literals, Arithmetic, Additive, Multiplicative
  <2>9. Retypes(heap, layout, heap', layout', n, x, t)
    BY <1>1, <2>3, <2>4, <2>5, <2>6, <2>7, <2>8 DEF Retypes
  <2> QED BY <1>2, <2>9, RetypeAdvances DEF Typing0, Typing1, Leaving
<1> QED BY <1>4, <1>5, <1>6 DEF Typing1

(* A cast is put between the node n, an operation, and its child i.        *)
Cast(x) == [type |-> "CAST_TO_FLOAT", val |-> NoVal, kids |-> <<x>>, node_type |-> "FLOAT"]

Casts(h, g, n, i) ==
  /\ Len(g) = Len(h) + 1 /\ g = [m \in 1 .. Len(h) + 1 |-> g[m]]
  /\ g[Len(h) + 1] = Cast(h[n].kids[i])
  /\ \A m \in 1 .. Len(h) : m # n => g[m] = h[m]
  /\ IsNode(g[n]) /\ g[n].type = h[n].type /\ g[n].val = h[n].val /\ g[n].node_type = "FLOAT"
  /\ g[n].kids = [h[n].kids EXCEPT ![i] = Len(h) + 1]

Casting(h, n, i) ==
  /\ n \in 1 .. Len(h) /\ h[n].type \in Arithmetic /\ i \in 1 .. 2
  /\ h[h[n].kids[i]].type \in Expressions

(* The children around the cast: only the node and the cast get another.   *)
Recast(h, g, n, i) ==
  /\ Len(h) \in Nat /\ h[n].kids \in Seq(1 .. Len(h)) /\ Len(h[n].kids) = 2
  /\ h[n].kids[i] \in 1 .. Len(h)
  /\ g[n].kids \in Seq(1 .. Len(h) + 1) /\ Len(g[n].kids) = 2 /\ DOMAIN g[n].kids = 1 .. 2
  /\ g[n].kids[i] = Len(h) + 1
  /\ \A j \in 1 .. 2 : j # i =>
       g[n].kids[j] = h[n].kids[j] /\ h[n].kids[j] \in 1 .. Len(h)
  /\ g[n].kids[3 - i] = h[n].kids[3 - i]

(* That is what a cast does to the children of its node.                   *)
LEMMA CastKids ==
  ASSUME NEW h, NEW r, Tree(h, r), NEW n, NEW i, Casting(h, n, i), NEW g, Casts(h, g, n, i)
  PROVE  Recast(h, g, n, i)
<1>1. n \in 1 .. Len(h) /\ h[n].type \in Arithmetic /\ i \in 1 .. 2
  BY DEF Casting
<1>2. /\ h[n].kids \in Seq(1 .. Len(h)) /\ Len(h[n].kids) = 2 /\ Len(h) \in Nat
      /\ DOMAIN h[n].kids = 1 .. Len(h[n].kids)
      /\ \A j \in 1 .. Len(h[n].kids) : h[n].kids[j] \in 1 .. Len(h)
  BY <1>1, KidsOfTree DEF NodeShape, KidsFit, Tree
<1>3. g[n].kids = [h[n].kids EXCEPT ![i] = Len(h) + 1]
  BY DEF Casts
<1>4. PICK old, new, N : old = h[n].kids /\ new = g[n].kids /\ N = Len(h)
  OBVIOUS
<1>5. old \in Seq(1 .. N + 1)
  BY <1>2, <1>4, SeqInto
<1>6. /\ new \in Seq(1 .. N + 1) /\ Len(new) = 2 /\ DOMAIN new = 1 .. 2 /\ new[i] = N + 1
      /\ \A j \in 1 .. 2 : j # i => new[j] = old[j]
  BY <1>1, <1>2, <1>3, <1>4, <1>5, SMTT(30)
<1>7. 3 - i \in 1 .. 2 /\ 3 - i # i
  BY <1>1
<1> QED BY <1>1, <1>2, <1>4, <1>6, <1>7 DEF Recast

(* The tree stays a tree.                                                  *)
LEMMA CastTree ==
  ASSUME NEW h, NEW r, Tree(h, r), NEW n, NEW i, Casting(h, n, i), NEW g, Casts(h, g, n, i)
  PROVE  Tree(g, r)
<1>1. PICK N, x : N = Len(h) /\ x = h[n].kids[i]
  OBVIOUS
<1>2. /\ n \in 1 .. N /\ h[n].type \in Arithmetic /\ i \in 1 .. 2 /\ h[x].type \in Expressions
      /\ h[n].type # "CAST_TO_FLOAT" /\ h[x].type # "CAST_TO_FLOAT"
  BY <1>1 DEF Casting, Expressions, Arithmetic, Additive, Multiplicative, Tops, Literals
<1>3. /\ N \in Nat /\ Len(h[n].kids) = 2 /\ x \in 1 .. N /\ DOMAIN h[n].kids = 1 .. 2
      /\ g[n].kids \in Seq(1 .. N + 1) /\ Len(g[n].kids) = 2 /\ DOMAIN g[n].kids = 1 .. 2
      /\ g[n].kids[i] = N + 1
      /\ \A j \in 1 .. 2 : j # i => g[n].kids[j] = h[n].kids[j] /\ h[n].kids[j] \in 1 .. N
  <2>1. Recast(h, g, n, i)
    BY CastKids
  <2>2. h[n].kids \in Seq(1 .. N) /\ Len(h[n].kids) = 2 /\ x \in 1 .. N
    BY <1>1, <2>1 DEF Recast
  <2>3. DOMAIN h[n].kids = 1 .. 2
    BY <2>2, LenProperties
  <2>4. /\ N \in Nat /\ g[n].kids \in Seq(1 .. N + 1) /\ Len(g[n].kids) = 2
        /\ DOMAIN g[n].kids = 1 .. 2 /\ g[n].kids[i] = N + 1
    BY <1>1, <2>1 DEF Recast
  <2>5. \A j \in 1 .. 2 : j # i => g[n].kids[j] = h[n].kids[j] /\ h[n].kids[j] \in 1 .. N
    BY <1>1, <2>1 DEF Recast
  <2> QED BY <2>2, <2>3, <2>4, <2>5
<1>4. /\ Len(g) = N + 1 /\ g = [m \in 1 .. N + 1 |-> g[m]] /\ g[N + 1] = Cast(x)
      /\ \A m \in 1 .. N : m # n => g[m] = h[m]
      /\ IsNode(g[n]) /\ g[n].type = h[n].type /\ g[n].val = h[n].val /\ g[n].node_type = "FLOAT"
  BY <1>1 DEF Casts
<1>0. /\ \A m \in 1 .. N : m # n => g[m] = h[m]
      /\ \A m \in 1 .. N + 1 : m # N + 1 => m \in 1 .. N
  <2>1. \A m \in 1 .. N : m # n => g[m] = h[m]
    BY <1>4
  <2>2. N \in Nat
    BY <1>3
  <2> QED BY <2>1, <2>2
<1>5. /\ g[N + 1].type = "CAST_TO_FLOAT" /\ g[N + 1].kids = <<x>> /\ Len(g[N + 1].kids) = 1
      /\ g[N + 1].kids[1] = x /\ DOMAIN g[N + 1].kids = {1} /\ IsNode(g[N + 1])
  <2>1. /\ g[N + 1].type = "CAST_TO_FLOAT" /\ g[N + 1].kids = <<x>> /\ IsNode(g[N + 1])
    <3>1. g[N + 1] = Cast(x)
      BY <1>4
    <3> QED BY <3>1 DEF Cast, IsNode
  <2>2. Len(<<x>>) = 1 /\ <<x>>[1] = x /\ DOMAIN <<x>> = {1}
    OBVIOUS
  <2> QED BY <2>1, <2>2
<1>6. \A m \in 1 .. N : /\ NodeShape(h, m) /\ Len(h[m].kids) \in Nat
                        /\ DOMAIN h[m].kids = 1 .. Len(h[m].kids)
                        /\ \A j \in 1 .. Len(h[m].kids) : h[m].kids[j] \in 1 .. N
                        /\ h[m].kids \in Seq(1 .. N)
  BY <1>1, KidsOfTree
<1>7. \A m \in 1 .. N : g[m].type = h[m].type
  BY <1>4
<1>8. ASSUME NEW m \in 1 .. N + 1, NEW j \in DOMAIN g[m].kids
      PROVE  \/ m = n /\ j = i /\ g[m].kids[j] = N + 1
             \/ m = N + 1 /\ j = 1 /\ g[m].kids[j] = x
             \/ /\ m \in 1 .. N /\ j \in DOMAIN h[m].kids /\ (m = n => j # i)
                /\ g[m].kids[j] = h[m].kids[j] /\ g[m].kids[j] \in 1 .. N
  <2>1. CASE m = n
    BY <1>2, <1>3, <2>1
  <2>2. CASE m = N + 1
    BY <1>5, <2>2
  <2>3. CASE m # n /\ m # N + 1
    <3>1. m \in 1 .. N /\ g[m] = h[m]
      BY <1>0, <2>3
    <3> QED BY <1>6, <2>3, <3>1
  <2> QED BY <2>1, <2>2, <2>3
<1>9. KidsOnce(g)
  <2>1. N + 1 \notin 1 .. N
    BY <1>3
  <2>2. \A m1, m2 \in 1 .. N : \A j \in DOMAIN h[m1].kids : \A k \in DOMAIN h[m2].kids :
          h[m1].kids[j] = h[m2].kids[k] => m1 = m2 /\ j = k
    BY <1>1 DEF Tree, KidsOnce
  <2>3. i \in DOMAIN h[n].kids /\ x = h[n].kids[i]
    BY <1>1, <1>2, <1>3
  <2>4. ASSUME NEW m1 \in 1 .. N + 1, NEW m2 \in 1 .. N + 1,
               NEW j \in DOMAIN g[m1].kids, NEW k \in DOMAIN g[m2].kids,
               g[m1].kids[j] = g[m2].kids[k]
        PROVE  m1 = m2 /\ j = k
    <3>1. CASE m1 = n /\ j = i /\ g[m1].kids[j] = N + 1
      <4>1. g[m2].kids[k] = N + 1 /\ x # N + 1
        BY <1>3, <2>4, <3>1
      <4>2. m2 = n /\ k = i
        BY <1>8, <2>1, <4>1, SMTT(30)
      <4> QED BY <3>1, <4>2
    <3>2. CASE m1 = N + 1 /\ j = 1 /\ g[m1].kids[j] = x
      <4>1. CASE m2 = n /\ k = i /\ g[m2].kids[k] = N + 1
        BY <1>3, <2>1, <2>4, <3>2, <4>1
      <4>2. CASE m2 = N + 1 /\ k = 1 /\ g[m2].kids[k] = x
        BY <3>2, <4>2
      <4>3. CASE /\ m2 \in 1 .. N /\ k \in DOMAIN h[m2].kids /\ (m2 = n => k # i)
                 /\ g[m2].kids[k] = h[m2].kids[k] /\ g[m2].kids[k] \in 1 .. N
        BY <1>2, <2>2, <2>3, <2>4, <3>2, <4>3
      <4> QED BY <1>8, <4>1, <4>2, <4>3
    <3>3. CASE /\ m1 \in 1 .. N /\ j \in DOMAIN h[m1].kids /\ (m1 = n => j # i)
               /\ g[m1].kids[j] = h[m1].kids[j] /\ g[m1].kids[j] \in 1 .. N
      <4>1. CASE m2 = n /\ k = i /\ g[m2].kids[k] = N + 1
        BY <2>1, <2>4, <3>3, <4>1
      <4>2. CASE m2 = N + 1 /\ k = 1 /\ g[m2].kids[k] = x
        <5>1. h[m1].kids[j] = h[n].kids[i]
          BY <2>3, <2>4, <3>3, <4>2
        <5>2. m1 = n /\ j = i
          BY <1>2, <2>2, <2>3, <3>3, <5>1
        <5> QED BY <3>3, <5>2
      <4>3. CASE /\ m2 \in 1 .. N /\ k \in DOMAIN h[m2].kids /\ (m2 = n => k # i)
                 /\ g[m2].kids[k] = h[m2].kids[k] /\ g[m2].kids[k] \in 1 .. N
        <5>1. h[m1].kids[j] = h[m2].kids[k]
          BY <2>4, <3>3, <4>3
        <5> QED BY <2>2, <3>3, <4>3, <5>1
      <4> QED BY <1>8, <4>1, <4>2, <4>3
    <3> QED BY <1>8, <3>1, <3>2, <3>3
  <2> QED BY <1>4, <2>4 DEF KidsOnce
<1>10. ASSUME NEW k \in 1 .. Len(r)
       PROVE  r[k] \notin KidSet(g) /\ g[r[k]].type \in StatementTypes
  <2>1. r[k] \in 1 .. N /\ r[k] \notin KidSet(h) /\ h[r[k]].type \in StatementTypes
    BY <1>1, ElementOfSeq DEF Tree
  <2>2. ASSUME NEW m \in 1 .. N + 1, NEW j \in DOMAIN g[m].kids, g[m].kids[j] = r[k]
        PROVE  FALSE
    <3>1. \A m1 \in 1 .. N : \A j1 \in DOMAIN h[m1].kids : h[m1].kids[j1] # r[k]
      BY <1>1, <1>3, <2>1, SMTT(60) DEF KidSet
    <3>2. N + 1 # r[k] /\ x # r[k]
      BY <1>1, <1>2, <1>3, <2>1, <3>1, SMTT(60)
    <3> QED BY <1>8, <2>2, <3>1, <3>2
  <2>3. g[r[k]].type = h[r[k]].type
    BY <1>7, <2>1
  <2> QED BY <1>4, <2>1, <2>2, <2>3 DEF KidSet
<1>11. ASSUME NEW m \in 1 .. N + 1 PROVE NodeShape(g, m)
  <2>1. CASE m = n
    <3>1. KidsFit(h, n) /\ (h[n].type \in NodeTypes) /\ h[n].type \notin Literals
      BY <1>2, <1>6 DEF NodeShape, Arithmetic, Additive, Multiplicative, Literals
    <3>2. ASSUME NEW j \in 1 .. 2 PROVE g[g[n].kids[j]].type \in Operands
      <4>1. h[h[n].kids[j]].type \in Operands
        BY <1>2, <3>1 DEF KidsFit
      <4>2. CASE j = i
        BY <1>3, <1>5, <4>2 DEF Operands
      <4>3. CASE j # i
        BY <1>3, <1>7, <4>1, <4>3
      <4> QED BY <4>2, <4>3
    <3>3. g[n].type \in Arithmetic
      BY <1>2, <1>4
    <3>4. KidsFit(g, n)
      <4>1. /\ g[n].type \notin Tops \cup {"IFSTAT", "FREED"}
            /\ g[n].type \notin {"WRITE", "CAST_TO_FLOAT"} /\ g[n].type # "ASSIGN"
        BY <3>3 DEF Arithmetic, Additive, Multiplicative, Tops, Literals
      <4>2. Len(g[n].kids) = 2 /\ g[g[n].kids[1]].type \in Operands
            /\ g[g[n].kids[2]].type \in Operands
        BY <1>3, <3>2
      <4> QED BY <4>1, <4>2 DEF KidsFit
    <3> QED BY <1>3, <1>4, <2>1, <3>1, <3>4 DEF NodeShape, Literals
  <2>2. CASE m = N + 1
    <3>1. <<x>> \in Seq(1 .. N + 1)
      BY <1>3
    <3>2. g[x].type = h[x].type
      BY <1>3, <1>7
    <3>3. KidsFit(g, N + 1)
      BY <1>2, <1>5, <3>2 DEF KidsFit, Arithmetic, Additive, Multiplicative, Tops, Literals
    <3>4. "CAST_TO_FLOAT" \in NodeTypes
      BY DEF NodeTypes
    <3> QED BY <1>4, <1>5, <2>2, <3>1, <3>3, <3>4 DEF NodeShape
  <2>3. CASE m # n /\ m # N + 1
    <3>1. m \in 1 .. N /\ g[m] = h[m]
      BY <1>0, <2>3
    <3>2. /\ NodeShape(h, m) /\ h[m].kids \in Seq(1 .. N) /\ Len(h[m].kids) \in Nat
          /\ \A j \in 1 .. Len(h[m].kids) : h[m].kids[j] \in 1 .. N
      BY <1>6, <3>1
    <3>3. KidsFit(g, m)
      <4>1. \A j \in 1 .. Len(h[m].kids) : g[h[m].kids[j]].type = h[h[m].kids[j]].type
        BY <1>7, <3>2
      <4>2. KidsFit(h, m) /\ g[m].type = h[m].type /\ g[m].kids = h[m].kids
        BY <3>1, <3>2 DEF NodeShape
      <4> QED BY <4>1, <4>2, KidsFitSame
    <3>4. h[m].kids \in Seq(1 .. N + 1)
      <4>1. \A j \in 1 .. Len(h[m].kids) : h[m].kids[j] \in 1 .. N + 1
        BY <1>3, <3>2, SMTT(30)
      <4> QED BY <3>2, <4>1, SeqInto
    <3> QED BY <1>4, <3>1, <3>2, <3>3, <3>4 DEF NodeShape
  <2> QED BY <2>1, <2>2, <2>3
<1>12. Older(g)
  <2>1. Older(h)
    BY DEF Tree
  <2>2. ASSUME NEW y \in 1 .. N PROVE Base(g, y) = Base(h, y)
    <3>1. g[y].type = h[y].type /\ (h[y].type = "CAST_TO_FLOAT" => g[y] = h[y])
      BY <1>2, <1>4, <1>7
    <3> QED BY <3>1 DEF Base
  <2>3. Base(g, N + 1) = x /\ Base(h, x) = x
    BY <1>2, <1>5 DEF Base
  <2>4. x < n
    BY <1>1, <1>2, <1>3, <2>1, <2>3 DEF Older
  <2>5. ASSUME NEW m \in 1 .. N + 1, g[m].type # "CAST_TO_FLOAT", NEW j \in 1 .. Len(g[m].kids)
        PROVE  Base(g, g[m].kids[j]) < m
    <3>1. m \in 1 .. N /\ h[m].type # "CAST_TO_FLOAT"
      BY <1>3, <1>5, <1>7, <2>5
    <3>2. j \in DOMAIN g[m].kids
      BY <1>3, <1>4, <1>6, <3>1
    <3>3. CASE m = n /\ j = i /\ g[m].kids[j] = N + 1
      BY <2>3, <2>4, <3>3
    <3>4. CASE j \in DOMAIN h[m].kids /\ g[m].kids[j] = h[m].kids[j] /\ g[m].kids[j] \in 1 .. N
      <4>1. j \in 1 .. Len(h[m].kids)
        BY <1>6, <3>1, <3>4
      <4>2. Base(h, h[m].kids[j]) < m
        BY <1>1, <2>1, <3>1, <4>1 DEF Older
      <4> QED BY <2>2, <3>4, <4>2
    <3>5. m # N + 1
      BY <1>3, <3>1
    <3> QED BY <1>8, <3>2, <3>3, <3>4, <3>5
  <2> QED BY <1>4, <2>5 DEF Older
<1>13. /\ Len(g) \in Nat /\ r \in Seq(1 .. N + 1) /\ Once(r)
  <2>1. Len(g) \in Nat /\ r \in Seq(1 .. N) /\ Once(r)
    BY <1>1, <1>3, <1>4 DEF Tree
  <2>2. \A k \in 1 .. Len(r) : r[k] \in 1 .. N + 1
    <3>1. \A k \in 1 .. Len(r) : r[k] \in 1 .. N
      BY <2>1, ElementOfSeq
    <3>2. N \in Nat
      BY <1>3
    <3> QED BY <3>1, <3>2
  <2> QED BY <2>1, <2>2, SeqInto
<1> QED BY <1>4, <1>9, <1>10, <1>11, <1>12, <1>13 DEF Tree

(* A FLOAT operation with FLOAT operands has settled.                      *)
LEMMA SettledOperation ==
  ASSUME NEW h, NEW l, NEW n, h[n].type \in Arithmetic, h[n].node_type = "FLOAT",
         \A j \in 1 .. 2 : h[h[n].kids[j]].node_type = "FLOAT",
         \A j \in Read(h, n) : Typed(h, h[n].kids[j])
  PROVE  Settled(h, l, n)
<1>1. h[n].type \notin Literals /\ h[n].type \notin {"NAME", "CAST_TO_FLOAT", "ASSIGN"}
  BY DEF Arithmetic, Additive, Multiplicative, Literals
<1> QED BY <1>1 DEF Settled

(* It stays as typed as it was when the child is an INT that its type.     *)
LEMMA CastAdvances ==
  ASSUME NEW h, NEW r, NEW u, NEW l, NEW n, NEW i, NEW g,
         Tree(h, r), Types(h, r, u, l), u # <<>>, n = Head(u), h[n].type \in Arithmetic,
         i \in 1 .. 2, h[h[n].kids[i]].node_type = "INT", h[h[n].kids[3 - i]].node_type = "FLOAT",
         Casts(h, g, n, i)
  PROVE  Tree(g, r) /\ Types(g, r, Tail(u), l)
<1>1. PICK N, x, y : N = Len(h) /\ x = h[n].kids[i] /\ y = h[n].kids[3 - i]
  OBVIOUS
<1>2. 3 - i \in 1 .. 2 /\ 3 - i # i /\ \A j \in 1 .. 2 : j = i \/ j = 3 - i
  OBVIOUS
<1>3. /\ n \in 1 .. N /\ N \in Nat /\ ~Typed(h, n)
      /\ \A j \in Read(h, n) : SettledChild(h, l, n, h[n].kids[j])
  BY <1>1, HeadReads
<1>4. NodeShape(h, n)
  BY <1>1, <1>3 DEF Tree
<1>5. i \in Read(h, n) /\ 3 - i \in Read(h, n) /\ h[x].type \in Operands
  <2>1. Len(h[n].kids) = 2 /\ h[n].type # "ASSIGN"
    BY <1>4 DEF NodeShape, KidsFit, Arithmetic, Additive, Multiplicative
  <2>2. h[x].type \in Operands
    <3>1. KidsFit(h, n)
      BY <1>4 DEF NodeShape
    <3>2. h[h[n].kids[1]].type \in Operands /\ h[h[n].kids[2]].type \in Operands
      BY <3>1 DEF KidsFit
    <3>3. i = 1 \/ i = 2
      OBVIOUS
    <3> QED BY <1>1, <3>2, <3>3
  <2> QED BY <1>2, <2>1, <2>2 DEF Read
<1>6. /\ x \in 1 .. N /\ x # n /\ Typed(h, x) /\ Settled(h, l, x)
      /\ y \in 1 .. N /\ y # n /\ h[x].node_type = "INT" /\ h[y].node_type = "FLOAT"
  BY <1>1, <1>3, <1>5 DEF SettledChild
<1>7. h[x].type \in Expressions
  <2>1. h[x].type # "CAST_TO_FLOAT"
    BY <1>6 DEF Settled
  <2> QED BY <1>5, <2>1 DEF Operands
<1>8. Casting(h, n, i)
  BY <1>1, <1>3, <1>7 DEF Casting
<1>9. Tree(g, r)
  BY <1>8, CastTree
<1>10. /\ Len(g[n].kids) = 2 /\ g[n].kids[i] = N + 1 /\ g[n].kids[3 - i] = y
  <2>1. /\ Len(g[n].kids) = 2 /\ g[n].kids[i] = Len(h) + 1
        /\ g[n].kids[3 - i] = h[n].kids[3 - i]
    <3>1. Recast(h, g, n, i)
      BY <1>8, CastKids
    <3> QED BY <3>1 DEF Recast
  <2> QED BY <1>1, <2>1
<1>11. /\ Len(g) = N + 1 /\ g[N + 1] = Cast(x)
       /\ \A m \in 1 .. N : m # n => g[m] = h[m]
       /\ g[n].type = h[n].type /\ g[n].val = h[n].val /\ g[n].node_type = "FLOAT"
  BY <1>1 DEF Casts
<1>12. /\ g[N + 1].type = "CAST_TO_FLOAT" /\ g[N + 1].kids = <<x>> /\ Len(g[N + 1].kids) = 1
       /\ g[N + 1].kids[1] = x /\ g[N + 1].node_type = "FLOAT"
  BY <1>11 DEF Cast
<1>13. g[x] = h[x] /\ g[y] = h[y]
  BY <1>6, <1>11
<1>14. ~FoldableIn(g, n)
  BY <1>10, <1>12 DEF FoldableIn, Literals
<1>15. Settled(g, l, n)
  <2>1. \A j \in 1 .. 2 : g[g[n].kids[j]].node_type = "FLOAT"
    BY <1>2, <1>6, <1>10, <1>12, <1>13, SMTT(30)
  <2>2. \A j \in Read(g, n) : Typed(g, g[n].kids[j])
    BY <1>10, <2>1 DEF Read, Typed
  <2> QED BY <1>11, <2>1, <2>2, SettledOperation
<1>16. Settled(g, l, N + 1)
  <2>1. \A j \in Read(g, N + 1) : Typed(g, g[N + 1].kids[j])
    BY <1>6, <1>12, <1>13 DEF Read, Typed
  <2>2. /\ g[N + 1].type \notin Literals /\ g[N + 1].type # "NAME"
        /\ g[N + 1].type \notin Arithmetic /\ g[N + 1].type # "ASSIGN"
    BY <1>12 DEF Arithmetic, Additive, Multiplicative, Literals
  <2> QED BY <1>6, <1>12, <1>13, <2>1, <2>2 DEF Settled
<1>17. Advances(h, l, g, l, n)
  <2>1. \A m \in 1 .. N : /\ g[m].type = h[m].type /\ g[m].val = h[m].val
                         /\ m # n => g[m] = h[m]
    BY <1>11
  <2>2. \A m \in N + 1 .. N + 1 : m = N + 1
    BY <1>3
  <2>3. h[n].type # "ASSIGN"
    BY DEF Arithmetic, Additive, Multiplicative
  <2>4. LayoutTypes(l)
    BY DEF Types
  <2>5. Len(g) \in Nat /\ Len(g) >= N
    BY <1>3, <1>11
  <2> QED BY <1>1, <1>3, <1>11, <1>12, <1>14, <1>15, <1>16, <2>1, <2>2, <2>3, <2>4, <2>5 DEF Advances
<1> QED BY <1>9, <1>17, TypesAdvance

(* What is put in above the INT operand of a FLOAT operation is a cast.     *)
LEMMA MixedCasts ==
  ASSUME Typing0, TypeMixedArithmetic, root' = root, NEW n, n = Head(untyped)
  PROVE  /\ Leaving(n) /\ layout' = layout /\ heap[n].type \in Arithmetic /\ n \in 1 .. Len(heap)
         /\ \E i \in 1 .. 2 :
              /\ heap[heap[n].kids[i]].node_type = "INT"
              /\ heap[heap[n].kids[3 - i]].node_type = "FLOAT"
              /\ Casts(heap, heap', n, i)
<1>2. Leaving(n) /\ layout' = layout /\ heap[n].type \in Arithmetic
  BY DEF TypeMixedArithmetic, Typing, Leaving
<1>3. PICK i \in 1 .. 2 :
        /\ heap[heap[n].kids[i]].node_type = "INT"
        /\ heap[heap[n].kids[3 - i]].node_type = "FLOAT"
        /\ heap' = Append([heap EXCEPT ![n].node_type = "FLOAT",
                                       ![n].kids[i] = Len(heap) + 1],
                          [NewNode("CAST_TO_FLOAT", NoVal, <<heap[n].kids[i]>>)
                             EXCEPT !.node_type = "FLOAT"])
  BY DEF TypeMixedArithmetic
<1>4. n \in 1 .. Len(heap) /\ Len(heap) \in Nat /\ NodeShape(heap, n)
  BY <1>2, LeavingReads
<1>5. heap = [m \in 1 .. Len(heap) |-> heap[m]] /\ DOMAIN heap = 1 .. Len(heap)
  BY DEF Typing0, Tree
<1>6. PICK g : g = [heap EXCEPT ![n].node_type = "FLOAT", ![n].kids[i] = Len(heap) + 1]
  OBVIOUS
<1>7. /\ Len(g) = Len(heap) /\ DOMAIN g = 1 .. Len(heap)
      /\ \A m \in 1 .. Len(heap) : m # n => g[m] = heap[m]
      /\ g[n] = [heap[n] EXCEPT !.node_type = "FLOAT", !.kids[i] = Len(heap) + 1]
  <2>1. DOMAIN g = 1 .. Len(heap)
    BY <1>5, <1>6
  <2>2. \A m \in 1 .. Len(heap) : m # n => g[m] = heap[m]
    BY <1>4, <1>5, <1>6
  <2>3. g[n] = [heap[n] EXCEPT !.node_type = "FLOAT", !.kids[i] = Len(heap) + 1]
    BY <1>4, <1>5, <1>6
  <2>4. g = [m \in 1 .. Len(heap) |-> g[m]]
    BY <1>5, <1>6
  <2> QED BY <1>4, <2>1, <2>2, <2>3, <2>4
<1>8. /\ IsNode(g[n]) /\ g[n].type = heap[n].type /\ g[n].val = heap[n].val
      /\ g[n].node_type = "FLOAT" /\ g[n].kids = [heap[n].kids EXCEPT ![i] = Len(heap) + 1]
  <2>1. heap[n] = [type |-> heap[n].type, val |-> heap[n].val, kids |-> heap[n].kids,
                   node_type |-> heap[n].node_type]
    BY <1>4 DEF NodeShape, IsNode
  <2>2. g[n] = [type |-> heap[n].type, val |-> heap[n].val,
                kids |-> [heap[n].kids EXCEPT ![i] = Len(heap) + 1], node_type |-> "FLOAT"]
    BY <1>7, <2>1
  <2> QED BY <2>2 DEF IsNode
<1>9. heap' = Append(g, Cast(heap[n].kids[i]))
  BY <1>3, <1>6 DEF NewNode, Cast
<1>10. PICK h, c : h = heap' /\ c = Cast(heap[n].kids[i])
  OBVIOUS
<1>11. /\ Len(h) = Len(heap) + 1 /\ h = [m \in 1 .. Len(heap) + 1 |-> h[m]]
       /\ h[Len(heap) + 1] = c /\ \A m \in 1 .. Len(heap) : h[m] = g[m]
  <2>1. g \in Seq({g[m] : m \in 1 .. Len(heap)} \cup {c})
    <3>1. g = [m \in 1 .. Len(heap) |-> g[m]]
      BY <1>5, <1>6
    <3> QED BY <1>4, <1>7, <3>1, SeqDef
  <2>2. h = Append(g, c)
    BY <1>9, <1>10
  <2>3. /\ Len(h) = Len(g) + 1 /\ h[Len(g) + 1] = c /\ \A m \in 1 .. Len(g) : h[m] = g[m]
        /\ h \in Seq({g[m] : m \in 1 .. Len(heap)} \cup {c})
    <3>1. c \in {g[m] : m \in 1 .. Len(heap)} \cup {c}
      OBVIOUS
    <3> QED BY <2>1, <2>2, <3>1, AppendFacts
  <2>4. h = [m \in 1 .. Len(h) |-> h[m]]
    BY <2>3
  <2>5. Len(g) = Len(heap)
    BY <1>7
  <2> QED BY <2>3, <2>4, <2>5
<1>12. Casts(heap, h, n, i)
  <2>1. Len(h) = Len(heap) + 1 /\ h = [m \in 1 .. Len(heap) + 1 |-> h[m]]
        /\ h[Len(heap) + 1] = Cast(heap[n].kids[i])
    BY <1>10, <1>11
  <2>2. \A m \in 1 .. Len(heap) : m # n => h[m] = heap[m]
    BY <1>7, <1>11
  <2>3. /\ IsNode(h[n]) /\ h[n].type = heap[n].type /\ h[n].val = heap[n].val
        /\ h[n].node_type = "FLOAT" /\ h[n].kids = [heap[n].kids EXCEPT ![i] = Len(heap) + 1]
    BY <1>4, <1>8, <1>11
  <2> QED BY <2>1, <2>2, <2>3 DEF Casts
<1> QED BY <1>2, <1>3, <1>4, <1>10, <1>12

(* An operation on an INT and a FLOAT gets a cast above the INT.           *)
LEMMA TypeMixedArithmeticKeeps ==
  ASSUME Typing0, TypeMixedArithmetic, root' = root
  PROVE  Typing1
<1>1. PICK n, h : n = Head(untyped) /\ h = heap'
  OBVIOUS
<1>2. Leaving(n) /\ layout' = layout /\ heap[n].type \in Arithmetic
  BY <1>1, MixedCasts
<1>3. PICK i \in 1 .. 2 : /\ heap[heap[n].kids[i]].node_type = "INT"
                          /\ heap[heap[n].kids[3 - i]].node_type = "FLOAT"
                          /\ Casts(heap, h, n, i)
  BY <1>1, MixedCasts
<1>4. Tree(h, root) /\ Types(h, root, Tail(untyped), layout)
  BY <1>2, <1>3, CastAdvances DEF Typing0, Leaving
<1> QED BY <1>1, <1>2, <1>4 DEF Typing1, Leaving

(* A step of the pass that goes on leaves a tree as typed as it was, and   *)
(* one that dies leaves the tree.                                          *)
LEMMA TypesKeeps ==
  ASSUME Typing0, TypesStep
  PROVE  Tree(heap', root') /\ (fault' = "none" => Types(heap', root', untyped', layout'))
<1>1. root' = root /\ (\/ TypeLiteral \/ TypeName \/ TypeArithmetic \/ TypeMixedArithmetic
                       \/ TypeWrite \/ TypeAssign)
  BY DEF TypesStep
<1> SUFFICES Tree(heap', root') /\ (fault' = "none" => Typing1)
  BY DEF Typing1
<1>2. Typing1 => Tree(heap', root')
  BY DEF Typing1
<1>3. CASE TypeLiteral
  BY <1>1, <1>2, <1>3, TypeLiteralKeeps
<1>4. CASE TypeName
  BY <1>1, <1>4, TypeNameKeeps
<1>5. CASE TypeArithmetic
  BY <1>1, <1>2, <1>5, TypeArithmeticKeeps
<1>6. CASE TypeMixedArithmetic
  BY <1>1, <1>2, <1>6, TypeMixedArithmeticKeeps
<1>7. CASE TypeWrite
  BY <1>1, <1>2, <1>7, TypeWriteKeeps
<1>8. CASE TypeAssign
  BY <1>1, <1>8, TypeAssignKeeps
<1> QED BY <1>1, <1>3, <1>4, <1>5, <1>6, <1>7, <1>8

(***************************************************************************)
(* The passes of the compiler, one after the other.                        *)
(***************************************************************************)

(* The tree in every phase: read, built, folded, typed, then left alone.   *)
PassInv ==
  /\ phase = "lex" => Reading
  /\ phase = "parse" => Parsing
  /\ phase \notin {"lex", "parse"} => Tree(heap, root)
  /\ phase = "optimize" /\ fault = "none" => Folding
  /\ phase \notin {"lex", "parse", "optimize"} /\ fault = "none" =>
       Types(heap, root, untyped, layout)

(* Every run starts with nothing read.                                     *)
LEMMA PassInitial == CompilerInit => PassInv
<1> SUFFICES ASSUME CompilerInit PROVE PassInv
  OBVIOUS
<1>1. tokens = IF Lexer!At(0) = " " THEN <<Lexer!Lexem("ERROR", <<>>, 0)>> ELSE <<>>
  BY DEF CompilerInit, Lexer!Unread
<1>2. tokens \in Seq({Lexer!Lexem("ERROR", <<>>, 0)})
  <2>1. \A e : <<>> \in Seq({e}) /\ <<e>> \in Seq({e})
    OBVIOUS
  <2> QED BY <1>1, <2>1
<1> QED BY <1>2 DEF CompilerInit, PassInv, Reading

(* The steps of a parse, and of the phases that leave the tree alone.      *)
LEMMA ParseKeeps ==
  ASSUME Parsing, ParserStep
  PROVE  Parsing'
<1>1. PICK V : ParserInv(V) /\ OwnInv /\ LiteralVals
  BY DEF Parsing
<1>2. ParserInv(V)'
  BY <1>1, ParserStepInv
<1>3. OwnInv'
  BY <1>1, OwnStepInv
<1>4. LiteralVals'
  BY <1>1, LiteralStep
<1> QED BY <1>2, <1>3, <1>4 DEF Parsing

(* The passes behind the types leave the tree alone.                       *)
LEMMA PassesStay ==
  ASSUME PassInv, phase \notin {"lex", "parse", "optimize"},
         phase' \notin {"lex", "parse", "optimize"}, fault' = "none" => fault = "none",
         UNCHANGED <<heap, root, untyped, layout>>
  PROVE  PassInv'
BY DEF PassInv

(* What leaves the state alone.                                            *)
LEMMA PassesStutter ==
  ASSUME PassInv, UNCHANGED compilerVars
  PROVE  PassInv'
<1>1. UNCHANGED <<heap, root, fault, lexems, currlexem, frames, ctl, tokens, unfolded, untyped,
                  layout, phase>>
  BY DEF compilerVars, astVars, textVars, walkerVars, passVars
<1>2. phase = "lex" => Reading'
  BY <1>1 DEF PassInv, Reading
<1>3. phase = "parse" => Parsing'
  <2>1. ASSUME Parsing PROVE Parsing'
    <3>1. PICK V : ParserInv(V) /\ OwnInv /\ LiteralVals
      BY <2>1 DEF Parsing
    <3>2. UNCHANGED parserVars
      BY <1>1 DEF parserVars
    <3>3. ParserInv(V)' /\ OwnInv'
      BY <3>1, <3>2, ParserStutters, OwnStutters
    <3>4. LiteralVals'
      BY <1>1, <3>1 DEF LiteralVals, LexemAt, Nodes
    <3> QED BY <3>3, <3>4 DEF Parsing
  <2> QED BY <2>1 DEF PassInv
<1>4. phase = "optimize" /\ fault = "none" => Folding'
  BY <1>1 DEF PassInv, Folding, Foldable, is_numeric_literal
<1> QED BY <1>1, <1>2, <1>3, <1>4 DEF PassInv

(* Every step of the compiler keeps the invariant.                         *)
LEMMA PassStep ==
  ASSUME PassInv, CompilerStep
  PROVE  PassInv'
<1>1. CASE ReadText
  <2>1. phase = "lex" /\ phase' = phase
    BY <1>1 DEF ReadText, In
  <2>2. Reading'
    BY <1>1, <2>1, TokensGrow DEF PassInv
  <2> QED BY <2>1, <2>2 DEF PassInv
<1>2. CASE HandOver
  <2>1. phase = "lex" /\ phase' = "parse"
    BY <1>2 DEF HandOver, Then, In
  <2>2. Parsing'
    BY <1>2, <2>1, HandOverParses DEF PassInv
  <2> QED BY <2>1, <2>2 DEF PassInv
<1>3. CASE Parse
  <2>1. phase = "parse" /\ phase' = phase /\ ParserStep
    BY <1>3 DEF Parse, In
  <2>2. Parsing'
    BY <2>1, ParseKeeps DEF PassInv
  <2> QED BY <2>1, <2>2 DEF PassInv
<1>4. CASE StartOptimizer
  <2>1. /\ phase = "parse" /\ phase' = "optimize" /\ Parsed /\ OptimizerStart
        /\ UNCHANGED <<heap, root>>
    BY <1>4 DEF StartOptimizer, Then, In, astVars
  <2>2. Tree(heap, root)' /\ Folding'
    BY <2>1, FoldingStarts DEF PassInv
  <2> QED BY <2>1, <2>2 DEF PassInv
<1>5. CASE Optimize
  <2>1. phase = "optimize" /\ phase' = phase /\ fault = "none" /\ OptimizerStep
    BY <1>5 DEF Optimize, In
  <2>2. Tree(heap, root) /\ Folding
    BY <2>1 DEF PassInv
  <2>3. Tree(heap', root') /\ (fault' = "none" => Folding')
    BY <2>1, <2>2, OptimizerKeeps
  <2> QED BY <2>1, <2>3 DEF PassInv
<1>6. CASE StartTypes
  <2>1. /\ phase = "optimize" /\ phase' = "types" /\ fault = "none" /\ unfolded = <<>>
        /\ layout' = <<>> /\ TypesStart /\ heap' = heap /\ root' = root
    BY <1>6 DEF StartTypes, Then, In, astVars
  <2>2. Tree(heap, root) /\ Folding
    BY <2>1 DEF PassInv
  <2>3. Types(heap', root', untyped', layout')
    BY <2>1, <2>2, TypesStartInv
  <2> QED BY <2>1, <2>2, <2>3 DEF PassInv
<1>7. CASE InferTypes
  <2>1. phase = "types" /\ phase' = phase /\ fault = "none" /\ TypesStep
    BY <1>7 DEF InferTypes, In
  <2>2. Typing0
    BY <2>1 DEF PassInv, Typing0
  <2>3. Tree(heap', root') /\ (fault' = "none" => Types(heap', root', untyped', layout'))
    BY <2>1, <2>2, TypesKeeps
  <2> QED BY <2>1, <2>3 DEF PassInv
<1>8. CASE CountPlaces
  BY <1>8, PassesStay DEF CountPlaces, Then, In, astVars
<1>9. CASE StartCodegen
  BY <1>9, PassesStay DEF StartCodegen, Then, In, astVars
<1>10. CASE GenerateCode
  BY <1>10, PassesStay DEF GenerateCode, In, CodegenStep
<1>11. CASE PrintCode
  BY <1>11, PassesStay DEF PrintCode, In, passVars
<1>12. CASE Run
  BY <1>12, PassesStay DEF Run, In, passVars
<1>13. CASE Stop
  BY <1>13, PassesStay DEF Stop, Then, In, astVars, passVars
<1> QED BY <1>1, <1>2, <1>3, <1>4, <1>5, <1>6, <1>7, <1>8, <1>9, <1>10, <1>11, <1>12, <1>13
        DEF CompilerStep

(* The passes do what the next one needs, for every program, every layout  *)
(* of the characters and every size of the tree.                           *)
THEOREM CompilerPasses == CompilerSpec => []PassInv
<1>1. PassInv /\ [CompilerNext]_compilerVars => PassInv'
  BY PassStep, PassesStutter DEF CompilerNext, CompilerDone
<1> QED BY <1>1, PassInitial, PTL DEF CompilerSpec

(***************************************************************************)
(* What the runs check.                                                    *)
(***************************************************************************)

(* No tree that a pass can see has a freed node in it.                     *)
LEMMA PassesUseNothingFreed == PassInv => NoUseAfterFree
<1> SUFFICES ASSUME PassInv PROVE NoUseAfterFree
  OBVIOUS
<1>1. CASE phase = "lex"
  BY <1>1 DEF PassInv, Reading, NoUseAfterFree
<1>2. CASE phase = "parse"
  <2>1. PICK V : ParserInv(V)
    BY <1>2 DEF PassInv, Parsing
  <2>2. heap \in Seq(NodeRecord(V)) /\ root \in Seq(Nodes) /\ DOMAIN heap = Nodes
    <3>1. heap \in Seq(NodeRecord(V)) /\ root \in Seq(Nodes)
      BY <2>1 DEF ParserInv, ParserTypes
    <3> QED BY <3>1, LenProperties DEF Nodes
  <2>3. \A n \in Nodes : heap[n].type # "FREED"
    <3>1. \A n \in Nodes : heap[n] \in NodeRecord(V)
      BY <2>2, ElementOfSeq DEF Nodes
    <3> QED BY <3>1 DEF NodeRecord, BuiltTypes
  <2>4. \A i \in DOMAIN root : root[i] \in Nodes
    BY <2>2, ElementOfSeq, LenProperties
  <2>5. ASSUME NEW n \in Nodes, NEW i \in DOMAIN heap[n].kids PROVE heap[n].kids[i] \in Nodes
    <3>1. heap[n].kids[i] \in 1 .. n - 1
      BY <2>1 DEF ParserInv, TreeShape, WellFormed
    <3>2. Len(heap) \in Nat
      BY <2>2
    <3> QED BY <3>1, <3>2 DEF Nodes
  <2> QED BY <2>2, <2>3, <2>4, <2>5 DEF NoUseAfterFree
<1>3. CASE phase \notin {"lex", "parse"}
  <2>1. Tree(heap, root)
    BY <1>3 DEF PassInv
  <2>2. DOMAIN heap = 1 .. Len(heap) /\ root \in Seq(1 .. Len(heap))
    BY <2>1 DEF Tree
  <2>3. ASSUME NEW i \in DOMAIN root PROVE heap[root[i]].type # "FREED"
    <3>1. i \in 1 .. Len(root)
      BY <2>2
    <3> QED BY <2>1, <3>1 DEF Tree, StatementTypes, Expressions, Tops, Literals, Arithmetic,
               Additive, Multiplicative
  <2>4. ASSUME NEW n \in 1 .. Len(heap), heap[n].type # "FREED", NEW i \in DOMAIN heap[n].kids
        PROVE  heap[heap[n].kids[i]].type # "FREED"
    <3>1. /\ NodeShape(heap, n) /\ Len(heap[n].kids) \in Nat
          /\ DOMAIN heap[n].kids = 1 .. Len(heap[n].kids)
      BY <2>1, KidsOfTree
    <3>2. i \in 1 .. Len(heap[n].kids) /\ heap[n].kids # <<>>
      BY <3>1
    <3>3. heap[heap[n].kids[i]].type \in Operands
      <4>1. heap[n].type \in Arithmetic \cup {"WRITE", "CAST_TO_FLOAT", "ASSIGN"}
        BY <3>1, <3>2 DEF NodeShape, KidsFit, NodeTypes
      <4>2. CASE heap[n].type \in {"WRITE", "CAST_TO_FLOAT"}
        BY <3>1, <3>2, <4>2 DEF NodeShape, KidsFit, Operands
      <4>3. CASE heap[n].type = "ASSIGN"
        <5>1. /\ Len(heap[n].kids) = 2 /\ heap[heap[n].kids[1]].type \in Expressions
              /\ heap[heap[n].kids[2]].type \in Expressions
          BY <3>1, <4>3 DEF NodeShape, KidsFit
        <5>2. i = 1 \/ i = 2
          BY <3>2, <5>1
        <5> QED BY <5>1, <5>2 DEF Operands
      <4>4. CASE heap[n].type \in Arithmetic
        BY <3>1, <3>2, <4>4 DEF NodeShape, KidsFit
      <4> QED BY <4>1, <4>2, <4>3, <4>4
    <3> QED BY <3>3 DEF Operands, Expressions, Tops, Literals, Arithmetic, Additive, Multiplicative
  <2> QED BY <2>2, <2>3, <2>4 DEF NoUseAfterFree
<1> QED BY <1>1, <1>2, <1>3

(* destroy_astnode gives away only operands that nothing refers to any     *)
(* more: no pass of any compilation sees a freed node.                     *)
THEOREM CompilerNoUseAfterFree == CompilerSpec => []NoUseAfterFree
<1> QED BY CompilerPasses, PassesUseNothingFreed, PTL

(* The nodes the code generator will reach have their types or are still   *)
(* to leave: the last one that had neither would be a statement, or be     *)
(* read by a later one.                                                    *)
LEMMA ReachedAreTyped ==
  ASSUME Tree(heap, root), Types(heap, root, untyped, layout), NEW s, s = LeaveOrder(Visited)
  PROVE  \A p \in 1 .. Len(s) : Typed(heap, s[p]) \/ \E q \in 1 .. Len(untyped) : untyped[q] = s[p]
<1> DEFINE Done(x) == Typed(heap, x) \/ \E q \in 1 .. Len(untyped) : untyped[q] = x
           T       == {p \in 1 .. Len(s) : ~Done(s[p])}
<1> SUFFICES ASSUME T # {} PROVE FALSE
  OBVIOUS
<1>1. /\ s \in Seq(1 .. Len(heap)) /\ Len(s) \in Nat
      /\ \A p \in 1 .. Len(s) :
           \/ \E k \in 1 .. Len(root) : root[k] = s[p]
           \/ \E q \in p + 1 .. Len(s) : \E i \in Read(heap, s[q]) : heap[s[q]].kids[i] = s[p]
  BY VisitedTour
<1>2. \A p \in 1 .. Len(s) : s[p] \in 1 .. Len(heap) /\ ~Named(heap, s[p])
  BY <1>1, ElementOfSeq, VisitedNotNamed
<1>3. PICK p \in T : \A q \in T : q <= p
  <2>1. T \in SUBSET (0 .. Len(s))
    BY <1>1
  <2> QED BY <1>1, <2>1, GreatestNumber
<1>4. p \in 1 .. Len(s) /\ ~Done(s[p])
  BY <1>3
<1>5. CASE \E k \in 1 .. Len(root) : root[k] = s[p]
  BY <1>4, <1>5 DEF Types
<1>6. CASE \E q \in p + 1 .. Len(s) : \E i \in Read(heap, s[q]) : heap[s[q]].kids[i] = s[p]
  <2>1. PICK q \in p + 1 .. Len(s) : \E i \in Read(heap, s[q]) : heap[s[q]].kids[i] = s[p]
    BY <1>6
  <2>2. q \in 1 .. Len(s) /\ ~(q <= p)
    BY <1>1, <1>4
  <2>3. Done(s[q])
    BY <1>3, <2>2
  <2>4. PICK i \in Read(heap, s[q]) : heap[s[q]].kids[i] = s[p]
    BY <2>1
  <2>5. CASE Typed(heap, s[q])
    <3>1. Settled(heap, layout, s[q])
      BY <1>2, <2>2, <2>5 DEF Types
    <3> QED BY <1>4, <2>4, <3>1 DEF Settled
  <2>6. CASE \E a \in 1 .. Len(untyped) : untyped[a] = s[q]
    <3>1. PICK a \in 1 .. Len(untyped) : untyped[a] = s[q]
      BY <2>6
    <3>2. Waiting(heap, untyped, a)
      BY DEF Types
    <3>3. Typed(heap, s[p]) \/ \E b \in 1 .. a - 1 : untyped[b] = s[p]
      BY <2>4, <3>1, <3>2 DEF Waiting
    <3>4. \A b \in 1 .. a - 1 : b \in 1 .. Len(untyped)
      <4>1. Len(untyped) \in Nat
        BY DEF Types
      <4> QED BY <4>1
    <3> QED BY <1>4, <3>3, <3>4
  <2> QED BY <2>3, <2>5, <2>6
<1> QED BY <1>1, <1>4, <1>5, <1>6

(* What is settled is what the code generator assumes.                     *)
LEMMA SettledIsWellTyped ==
  ASSUME NEW n, ~FoldableIn(heap, n), Settled(heap, layout, n)
  PROVE  WellTyped(n)
<1>1. heap[n].type \in Arithmetic => ~Foldable(n)
  BY DEF FoldableIn, Foldable, is_numeric_literal
<1>2. heap[n].type = "NAME" => heap[n].node_type = get_field_type(heap[n].val)
  BY DEF Settled, get_field_type, TypeIn, FieldsOf, FieldsIn
<1> QED BY <1>1, <1>2 DEF Settled, WellTyped

(* What the code generator reaches and nobody still has to type is typed.  *)
LEMMA PassesLeaveTypes == PassInv => TypedTree
<1> SUFFICES ASSUME PassInv, fault = "none", phase \in {"types", "codegen"}, NEW n \in Reached
             PROVE  n \in Range(untyped) \/ WellTyped(n)
  BY DEF TypedTree, In
<1>1. Tree(heap, root) /\ Types(heap, root, untyped, layout)
  BY DEF PassInv
<1>2. PICK s : s = LeaveOrder(Visited)
  OBVIOUS
<1>3. s \in Seq(1 .. Len(heap)) /\ Len(s) \in Nat
  BY <1>1, <1>2, VisitedTour
<1>4. PICK p \in 1 .. Len(s) : s[p] = n
  BY <1>2, <1>3 DEF Reached, Range
<1>5. n \in 1 .. Len(heap) /\ ~Named(heap, n)
  BY <1>1, <1>2, <1>3, <1>4, ElementOfSeq, VisitedNotNamed
<1>6. CASE \E q \in 1 .. Len(untyped) : untyped[q] = n
  <2>1. DOMAIN untyped = 1 .. Len(untyped)
    BY <1>1 DEF Types
  <2> QED BY <1>6, <2>1 DEF Range
<1>7. CASE Typed(heap, n)
  <2>1. Settled(heap, layout, n) /\ ~FoldableIn(heap, n)
    BY <1>1, <1>5, <1>7 DEF Types
  <2> QED BY <2>1, SettledIsWellTyped
<1> QED BY <1>1, <1>2, <1>4, <1>6, <1>7, ReachedAreTyped

(* The code generator finds what it assumes: every node it reaches has the *)
(* type of its children, with a cast above every INT operand of a FLOAT    *)
(* operation, and no operation on two literals is left.                    *)
THEOREM CompilerTypedTree == CompilerSpec => []TypedTree
<1> QED BY CompilerPasses, PassesLeaveTypes, PTL
=============================================================================
