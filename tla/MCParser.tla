------------------------------ MODULE MCParser ------------------------------
(***************************************************************************)
(* Every program of at most MaxLexems lexems over lexems that take the     *)
(* parser down different paths, and longer programs whose expressions have *)
(* up to MaxOperands operands.                                             *)
(***************************************************************************)
EXTENDS DulParser

CONSTANTS MaxLexems, MaxOperands

Name(n)  == Lexem("IDENTIFIER", <<"id", <<n>>>>)
Alphabet ==
  {Name(1), Lexem("NUMINTLITERAL", <<"int", 1>>), Lexem("STRLNGLITERAL", NoVal)}
    \cup {Special(s) : s \in {"minus", "slash", "assign", "kwwrite", "EOL"}}

AnyProgram == UNION {[1 .. n -> Alphabet] : n \in 0 .. MaxLexems}

(* n operands separated by the operators ops. *)
Chain(n, ops) == [i \in 1 .. 2 * n - 1 |->
                    IF i % 2 = 1 THEN Name((i + 1) \div 2) ELSE Special(ops[i \div 2])]
Chains == UNION {{Chain(n, ops) : ops \in [1 .. n - 1 -> {"minus", "slash"}]} :
                 n \in 1 .. MaxOperands}

Beginnings == {<<>>, <<Special("kwwrite")>>, <<Name(1), Special("assign")>>,
             <<Special("kwif")>>}
Endings == {<<>>, <<Special("slash")>>, <<Special("EOL"), Name(2), Special("EOL")>>,
             <<Special("comma"), Special("kwwrite"), Name(2)>>}

LongProgram == {p \o c \o s : p \in Beginnings, c \in Chains, s \in Endings}

MCStreams == AnyProgram \cup LongProgram
MCValues  == {lex.val : lex \in Alphabet}
               \cup {<<"id", <<n>>>> : n \in 1 .. MaxOperands} \cup {<<"sp", "kwif">>, <<"sp", "comma">>}
=============================================================================
