---------------------------- MODULE DulLanguage ----------------------------
(***************************************************************************)
(* The whole program implements the language of DulSource.                 *)
(***************************************************************************)
EXTENDS DulCompiler

Reading == phase \in {"lex", "parse"}

TreesRead == IF Reading THEN [i \in DOMAIN root |-> TreeOf[root[i]]] ELSE source

(* Statements of which the machine has executed the last operation. *)
Executed == IF phase \in {"run", "done"}
              THEN Cardinality({k \in DOMAIN bounds : bounds[k] < next_op}) ELSE 0

SourceOutcome == CASE ~Reading         -> "accepted"
                   [] fault # "none"  -> "rejected"
                   [] ctl.go = "end"  -> "accepted"
                   [] OTHER           -> "reading"

Text == INSTANCE DulSource WITH
  NameRoom <- PrintRoom,
  lexems <- words, program <- TreesRead, outcome <- SourceOutcome,
  status <- "reading", done <- 0, env <- <<>>, out <- <<>>

Specified == \A k \in DOMAIN source : ~Text!Unsupported(k)

(* The variables that executed assignments have stored. *)
Environment ==
  LET names == {source[k][2][1] : k \in {i \in 1 .. Executed : source[i][1] = <<"sp", "assign">>}}
  IN  [name \in names |-> Slot(layout_count_offset(name))]

Status ==
  CASE Reading                                -> "reading"
    [] ~Specified                             -> "unspecified"
    [] phase = "done"                         -> "finished"
    [] Specified /\ phase = "run"             -> IF fault = "none" THEN "running" ELSE "trapped"
    [] OTHER                                  -> IF fault = "none" THEN "compiling" ELSE "refused"

Language == INSTANCE DulSource WITH
  NameRoom <- PrintRoom,
  lexems <- words, program <- TreesRead, outcome <- SourceOutcome, status <- Status,
  done <- IF Specified THEN Executed ELSE 0,
  env  <- IF Specified THEN Environment ELSE <<>>,
  out  <- IF Specified THEN out ELSE <<>>

(* The text of every program the language gives a meaning to, whatever     *)
(* blanks set its words apart, is compiled to operations that, executed,   *)
(* assign and write what the program says, in its order, and stop where an *)
(* INT division traps; what the language refuses, the compiler stops at;   *)
(* and every program comes to an end.                                      *)
ImplementsLanguage == Language!SourceSpec
=============================================================================
