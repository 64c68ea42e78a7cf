----------------------------- MODULE DulGrammar -----------------------------
(***************************************************************************)
(* What the parser promises, without call stack or heap: a program is read *)
(* one statement at a time, and the tree of a statement is the one that    *)
(* operator precedence gives to the lexems it spans.                       *)
(***************************************************************************)
EXTENDS Integers, Sequences, FiniteSetsExt, TLC

VARIABLES
  lexems,     (* the program, a sequence of lexems                         *)
  program,    (* the trees of the statements read so far                   *)
  outcome     (* "reading", "accepted" or "rejected"                       *)

grammarVars == <<lexems, program, outcome>>

Positions == 1 .. Len(lexems)
OfType(p, T)     == p \in Positions /\ lexems[p].type \in T
Symbol(p, S)     == OfType(p, {"SPECIAL"}) /\ lexems[p].val[2] \in S
OperandAt(p)     == OfType(p, {"IDENTIFIER", "NUMLITERAL", "NUMINTLITERAL"})
OperatorAt(p)    == Symbol(p, {"plus", "minus", "asterisk", "slash"})
AdditiveAt(p)    == Symbol(p, {"plus", "minus"})

(* The last position of the expression that starts at p, 0 if none does:   *)
(* operands separated by operators, as many as there are.                  *)
ExprLast ==
  LET last[p \in 1 .. Len(lexems) + 2] ==
        IF ~OperandAt(p) THEN 0
        ELSE IF OperatorAt(p + 1) THEN last[p + 2] ELSE p
  IN last

(* The operator at the root of the expression i .. j: its last additive    *)
(* operator, or without one its first multiplicative operator.  Sums group *)
(* to the left, products to the right.                                     *)
RootOf(i, j) == LET additive == {p \in i .. j : AdditiveAt(p)}
                IN  IF additive # {} THEN Max(additive) ELSE i + 1

(* The tree of a <<first, last>>; one that is no expression has none.      *)
Branches(tree, i, at, j) ==
  IF at \in i + 1 .. j - 1
    THEN <<lexems[at].val, tree[<<i, at - 1>>], tree[<<at + 1, j>>]>>
    ELSE <<>>

Tree ==
  LET tree[span \in Positions \X Positions] ==
        IF span[1] = span[2] THEN <<lexems[span[1]].val>>
        ELSE Branches(tree, span[1], RootOf(span[1], span[2]), span[2])
  IN tree

(* The statement that starts at p: its kind, the expressions it consists   *)
(* of as <<first, last>>, and the position of the next one.  After a write *)
(* and after an assignment one lexem is skipped, whatever it is.           *)
Statement(kind, target, value, next) ==
  [kind |-> kind, target |-> target, value |-> value, next |-> next]
Rejected == Statement("rejected", <<>>, <<>>, 0)

StatementAt(p) ==
  IF Symbol(p, {"kwwrite"})
    THEN LET e == ExprLast[p + 1] IN
           IF e = 0 THEN Rejected ELSE Statement("write", <<>>, <<p + 1, e>>, e + 2)
    ELSE LET e == ExprLast[p] IN
           IF e = 0 THEN Rejected
           ELSE CASE Symbol(e + 1, {"EOL"}) -> Statement("bare", <<>>, <<p, e>>, e + 2)
                  [] Symbol(e + 1, {"assign"}) ->
                       LET r == ExprLast[e + 2] IN
                         IF r = 0 THEN Rejected
                         ELSE Statement("assign", <<p, e>>, <<e + 2, r>>, r + 2)
                  [] OTHER -> Rejected

StatementTree(s) ==
  CASE s.kind = "write"  -> <<<<"sp", "kwwrite">>, Tree[s.value]>>
    [] s.kind = "bare"   -> Tree[s.value]
    [] s.kind = "assign" -> <<<<"sp", "assign">>, Tree[s.target], Tree[s.value]>>

(* Where statement number k starts. *)
Start ==
  LET start[k \in 1 .. Len(lexems) + 1] ==
        IF k = 1 THEN 1 ELSE StatementAt(start[k - 1]).next
  IN start

Here == Start[Len(program) + 1]

GrammarInit == program = <<>> /\ outcome = "reading"

ReadStatement ==
  /\ outcome = "reading" /\ Here \in Positions
  /\ StatementAt(Here) # Rejected
  /\ program' = Append(program, StatementTree(StatementAt(Here)))
  /\ UNCHANGED <<lexems, outcome>>

Accept ==
  /\ outcome = "reading" /\ Here \notin Positions
  /\ outcome' = "accepted"
  /\ UNCHANGED <<lexems, program>>

Reject ==
  /\ outcome = "reading" /\ Here \in Positions
  /\ StatementAt(Here) = Rejected
  /\ outcome' = "rejected"
  /\ UNCHANGED <<lexems, program>>

GrammarNext == ReadStatement \/ Accept \/ Reject

(* Without the promise that anything happens. *)
GrammarSafety == GrammarInit /\ [][GrammarNext]_grammarVars

(* Every program is read to an end. *)
GrammarSpec == GrammarSafety /\ WF_grammarVars(GrammarNext)
=============================================================================
