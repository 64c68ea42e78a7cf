------------------------------ MODULE MCLexer ------------------------------
(***************************************************************************)
(* Every text of at most MaxLength characters out of Alphabet, and texts   *)
(* that come close to words of the language.                               *)
(***************************************************************************)
EXTENDS DulLexer

CONSTANT MaxLength

Alphabet == {"i", "f", "0", "1", ".", " ", "\"", "\\", "=", "<", "-", ">", "\n"}

(* The first part of a text, and what follows it. *)
Openings == {<<"i","f","f","y">>, <<"w","r","i","t","e">>, <<"t","r","u","e","\n">>,
             <<"\"","i","f","\"">>, <<"\"","\\","\"","\"">>, <<"1",".","0","0">>,
             <<"1","0",".","5">>, <<"*","*","=">>, <<"$","e","o","l">>, <<"\t">>}
Endings  == {<<>>, <<"\n">>, <<" ">>, <<"i">>, <<"0">>, <<"\"">>, <<"=","1","\n">>}

MCTexts == UNION {[1 .. n -> Alphabet] : n \in 0 .. MaxLength}
             \cup {o \o e : o \in Openings, e \in Endings}
=============================================================================
