----------------------------- MODULE DulSource -----------------------------
(***************************************************************************)
(* What compiling and running a program promises, told on its statements:  *)
(* no passes, no layout, no operations.  A program is read, refused or     *)
(* compiled, and then executed one statement after the other.              *)
(***************************************************************************)
EXTENDS DulGrammar, DulArith

CONSTANT NameRoom   \* the longest names the compiler can keep and print

VARIABLES
  status,     (* "reading", "compiling", "refused", "running", "finished", *)
              (* "trapped", or "unspecified": nothing is promised          *)
  done,       (* how many statements have been executed                    *)
  env,        (* the values of the variables assigned so far               *)
  out         (* the values written so far                                 *)

runVars    == <<done, env, out>>
sourceVars == <<grammarVars, status, runVars>>

Statements == 1 .. Len(program)

(***************************************************************************)
(* Expressions: <<val>> or <<operator, lhs, rhs>>.  The value of a literal *)
(* is the double nearest to what its characters say; the literal is an INT *)
(* when that double is an int64_t.                                         *)
(***************************************************************************)
IsName(e)     == e[1][1] = "id"
IsOperation(e) == Len(e) = 3

RECURSIVE Subexpressions(_)
Subexpressions(e) ==
  {e} \cup IF IsOperation(e) THEN Subexpressions(e[2]) \cup Subexpressions(e[3]) ELSE {}

Names(e)    == {sub[1] : sub \in {t \in Subexpressions(e) : IsName(t)}}
Constant(e) == Names(e) = {}

(* An expression is FLOAT when any of its operands is; types gives the     *)
(* types of the variables.                                                 *)
TypeIn(types, e) ==
  IF \E operand \in Subexpressions(e) :
       \/ operand[1][1] = "lit"
       \/ operand[1] \in DOMAIN types /\ types[operand[1]] = "FLOAT"
    THEN "FLOAT" ELSE "INT"

Trap == <<"trap">>

TermOf == [plus |-> "PLUS", minus |-> "MINUS", asterisk |-> "MULT", slash |-> "DIV"]

Apply(type, x, y) ==
  CASE Trap \in {x, y} -> Trap
    [] Trap \notin {x, y} /\ IsInt(x) /\ IsInt(y) ->
         IF IntTraps(type, x[2], y[2]) THEN Trap
         ELSE <<"int", IntResult(type, x[2], y[2])>>
    [] OTHER -> <<type, ToDouble(x), ToDouble(y)>>

RECURSIVE ValueIn(_, _)
ValueIn(values, e) ==
  CASE IsOperation(e) -> Apply(TermOf[e[1][2]], ValueIn(values, e[2]), ValueIn(values, e[3]))
    [] IsName(e)      -> values[e[1]]
    [] OTHER          -> e[1]

(***************************************************************************)
(* Statements: <<write, value>>, <<assign, target, value>>, or a bare      *)
(* expression.                                                             *)
(***************************************************************************)
Writes(s)  == s[1] = <<"sp", "kwwrite">>
Assigns(s) == s[1] = <<"sp", "assign">>
Expr(s)    == IF Writes(s) \/ Assigns(s) THEN s[Len(s)] ELSE s
Variable(s) == s[2][1]

(* The variables that statements 1 .. k - 1 introduce, with the types of   *)
(* their first assignments.                                                *)
TypesBefore ==
  LET types[k \in 1 .. Len(program) + 1] ==
        IF k = 1 THEN <<>>
        ELSE LET before == types[k - 1]
                 s      == program[k - 1]
             IN  IF Assigns(s) THEN before @@ (Variable(s) :> TypeIn(before, Expr(s)))
                 ELSE before
  IN types

(* The constructs for which the compiler promises nothing: a name is too   *)
(* long; the target of an assignment is not a name; a variable is assigned *)
(* a value of another type than its first; a variable is copied; an        *)
(* operation has a FLOAT operand that is computed at run time and a        *)
(* constant INT operand.                                                   *)
Unsupported(k) ==
  LET s     == program[k]
      types == TypesBefore[k]
  IN  \/ \E name \in Names(Expr(s)) \cup IF Assigns(s) THEN Names(s[2]) ELSE {} :
           Len(name[2]) > NameRoom
      \/ /\ Assigns(s)
         /\ \/ ~IsName(s[2])
            \/ /\ Variable(s) \in DOMAIN types
               /\ types[Variable(s)] # TypeIn(types, Expr(s))
            \/ IsName(Expr(s))
      \/ \E e \in Subexpressions(Expr(s)) :
           /\ IsOperation(e) /\ TypeIn(types, e) = "FLOAT" /\ ~Constant(e)
           /\ \E i \in 2 .. 3 : Constant(e[i]) /\ TypeIn(types, e[i]) = "INT"

(* The compiler stops at a variable that no earlier statement assigns, and *)
(* at an INT division by a constant zero of a constant.                    *)
Refused(k) ==
  LET e == Expr(program[k])
  IN  \/ ~(Names(e) \subseteq DOMAIN TypesBefore[k])
      \/ \E sub \in Subexpressions(e) : Constant(sub) /\ ValueIn(<<>>, sub) = Trap

(* A statement that computes nothing: a bare operand or a bare constant.   *)
Silent(k) ==
  LET s == program[k]
  IN  ~Writes(s) /\ ~Assigns(s) /\ (~IsOperation(s) \/ Constant(s))

(***************************************************************************)
(* Behaviours.                                                             *)
(***************************************************************************)
SourceInit == /\ GrammarInit
              /\ status = "reading" /\ done = 0 /\ env = <<>> /\ out = <<>>

Read == GrammarNext /\ UNCHANGED <<status, runVars>>

Compile ==
  /\ status = "reading" /\ outcome = "accepted"
  /\ status' = IF \E k \in Statements : Unsupported(k) THEN "unspecified" ELSE "compiling"
  /\ UNCHANGED <<grammarVars, runVars>>

Refuse ==
  /\ status = "compiling" /\ \E k \in Statements : Refused(k)
  /\ status' = "refused"
  /\ UNCHANGED <<grammarVars, runVars>>

(* Silent statements are passed over with the step before them. *)
SilentUpTo(n) == done' \in n .. Len(program) /\ \A k \in n + 1 .. done' : Silent(k)

Run ==
  /\ status = "compiling" /\ ~\E k \in Statements : Refused(k)
  /\ status' = "running"
  /\ SilentUpTo(0)
  /\ UNCHANGED <<grammarVars, env, out>>

Execute ==
  /\ status = "running" /\ done < Len(program)
  /\ LET s     == program[done + 1]
         value == ValueIn(env, Expr(s))
     IN  IF value = Trap
           THEN status' = "trapped" /\ UNCHANGED runVars
           ELSE /\ SilentUpTo(done + 1)
                /\ env' = IF Assigns(s) THEN (Variable(s) :> value) @@ env ELSE env
                /\ out' = IF Writes(s) THEN Append(out, value) ELSE out
                /\ UNCHANGED status
  /\ UNCHANGED grammarVars

Finish ==
  /\ status = "running" /\ done = Len(program)
  /\ status' = "finished"
  /\ UNCHANGED <<grammarVars, runVars>>

SourceNext == Read \/ Compile \/ Refuse \/ Run \/ Execute \/ Finish

Ended == outcome = "rejected" \/ status \in {"refused", "finished", "trapped", "unspecified"}

(* Every program is read, refused or run to its end. *)
SourceSpec == SourceInit /\ [][SourceNext]_sourceVars /\ <>Ended
=============================================================================
