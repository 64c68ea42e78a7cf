----------------------------- MODULE MCCompiler -----------------------------
(***************************************************************************)
(* Every program of at most MaxStatements of the statements below, alone   *)
(* and after assignments that give the variables their types.  An int64_t  *)
(* has sixteen bits, and a double twelve for its significand: from 4096 on *)
(* it holds every second integer, from 8192 on every fourth, from 16384 on *)
(* every eighth, and the largest int64_t, 32767, becomes 32768.            *)
(***************************************************************************)
EXTENDS DulLanguage

CONSTANT MaxStatements

MCCode == [a |-> 97, b |-> 98] @@ [c \in {"0","1","2","3","4","5","6","7","8","9"} |->
             48 + (CHOOSE n \in 0 .. 9 : ToString(n) = c)]

(* Words; a name of three letters is too long to print, one of four to keep. *)
Word(lex, chars) == [lexem |-> lex, chars |-> chars]
Spaced(word)     == [word EXCEPT !.chars = <<" ">> \o @]

A == Word(Lexem("IDENTIFIER", <<"id", <<97>>>>), <<"a">>)
B == Word(Lexem("IDENTIFIER", <<"id", <<98>>>>), <<"b">>)
AB  == Word(Lexem("IDENTIFIER", <<"id", <<97, 98>>>>), <<"a", "b">>)
ABA == Word(Lexem("IDENTIFIER", <<"id", <<97, 98, 97>>>>), <<"a", "b", "a">>)
ABAB == Word(Lexem("IDENTIFIER", <<"id", <<97, 98, 97, 98>>>>), <<"a", "b", "a", "b">>)
Num(n, chars) == Word(Lexem("NUMINTLITERAL", <<"int", n>>), chars)
Real(sig, exp, chars) == Word(Lexem("NUMLITERAL", <<"lit", [sig |-> sig, exp |-> exp]>>), chars)
Sym(s, chars) == Word(Special(s), chars)

Zero == Num(0, <<"0">>)
One  == Num(1, <<"1">>)
Two  == Num(2, <<"2", ".", "0">>)
Half == Real(2560, -10, <<"2", ".", "5">>)

(* Literals whose double is not what their characters say, and the largest *)
(* that is an int64_t.                                                     *)
Above == Num(4096, <<"4", "0", "9", "7">>)
Tied  == Num(4100, <<"4", "0", "9", "9">>)
Split == Num(4098, <<"4", "0", "9", "7", ".", "5">>)
Near1 == Num(1, <<"1", ".", "0", "0", "0", "1">>)
Third == Real(2731, -13, <<"0", ".", "3", "3", "3", "4">>)
Large == Real(2048, 4, <<"3", "2", "7", "6", "7">>)
Most  == Num(32760, <<"3", "2", "7", "6", "3">>)
Eight == Num(8, <<"8">>)

Plus  == Sym("plus", <<"+">>)
Minus == Sym("minus", <<"-">>)
Times == Sym("asterisk", <<"*">>)
Slash == Spaced(Sym("slash", <<"/">>))
Eol   == Sym("EOL", <<"\n">>)

Is(name, e) == <<name, Spaced(Sym("assign", <<"=">>))>> \o e \o <<Eol>>
Write(e)    == <<Sym("kwwrite", <<"w","r","i","t","e">>), Spaced(Head(e))>> \o Tail(e) \o <<Eol>>
Bare(e)     == e \o <<Eol>>

Menu ==
  { Is(A, <<Num(7, <<"7">>)>>),
    Is(A, <<Half>>),
    Is(A, <<A, Minus, Two>>),
    Is(B, <<Num(7, <<"7">>), Slash, A>>),
    Is(B, <<Spaced(A), Times, Half, Plus, A>>),
    Is(B, <<Num(3, <<"3">>), Slash, Two, Minus, Half>>),
    Is(B, <<A>>),
    Is(Num(97, <<"9", "7">>), <<Zero>>),
    Is(Half, <<Zero>>),
    Write(<<A>>),
    Write(<<Num(7, <<"7">>)>>),
    Write(<<B, Times, A, Minus, A, Slash, Spaced(B), Minus, A>>),
    Write(<<Half, Plus, One>>),
    Bare(<<One, Slash, A>>),
    Bare(<<One, Slash, Zero>>) }

(* Results that an int64_t cannot hold, folded and computed at run time.   *)
Overflow == {Is(A, <<Zero, Minus, Most, Minus, Eight>>),
             Write(<<A, Slash, B>>),
             Write(<<A, Times, A, Plus, Most, Times, Two>>)}

(* Folded and kept, written, and in the place of a variable. *)
Rounded == {Is(A, <<Above, Plus, Split>>), Write(<<Tied, Times, Spaced(A)>>),
            Is(A, <<Near1>>), Write(<<Large>>), Is(B, <<Third, Minus, Large>>),
            Is(Above, <<One>>), Is(Third, <<One>>), Write(<<Near1, Slash, Most>>)}

(* Names that begin alike, and those for which there is no room. *)
Names == {Is(AB, <<Num(7, <<"7">>)>>), Is(AB, <<AB, Times, A>>), Write(<<AB, Minus, A>>),
          Is(A, <<Spaced(A), Plus, Two>>), Is(ABA, <<One>>), Write(<<A, Plus, ABA>>),
          Is(ABAB, <<One>>)}

Preludes == {<<>>, Is(A, <<Num(7, <<"7">>)>>) \o Is(B, <<Two>>),
             Is(A, <<Num(7, <<"7">>)>>) \o Is(B, <<Zero>>), Is(A, <<Half>>) \o Is(B, <<Zero>>)}
Limits   == Is(A, <<Zero, Minus, Most, Minus, Eight>>) \o Is(B, <<Zero, Minus, One>>)

(* The end of a file: with an empty line, without, and without any newline. *)
Chosen(menu, n) == {FlattenSeq(p) : p \in UNION {[1 .. k -> menu] : k \in 0 .. n}}
MCPrograms ==
  {q \o p \o <<Eol>> : q \in Preludes, p \in Chosen(Menu, MaxStatements)}
    \cup {Limits \o p \o <<Eol>> : p \in Chosen(Overflow, MaxStatements)}
    \cup {Is(A, <<Two>>) \o p \o <<Eol>> : p \in Chosen(Names, MaxStatements)
                                             \cup Chosen(Rounded, MaxStatements)}
    \cup Chosen(Menu, 1)
    \cup {Front(p) : p \in Menu}
=============================================================================
