------------------------------ MODULE DulLexer ------------------------------
(***************************************************************************)
(* The lexer (lexer.c): parse_text cuts a text into lexems, one turn of    *)
(* its loop per action.  A text is a sequence of characters, numbered from *)
(* 0 like the bytes of the buffer that holds it, with a NUL behind it.     *)
(***************************************************************************)
EXTENDS DulNumber

CONSTANTS
  Texts,             \* the texts a file may hold
  InitialCapacity,   \* INITIAL_ARRAY_CAPACITY
  MaxCapacity        \* the largest array that realloc grants

ASSUME CapacityAssumption == /\ InitialCapacity \in Nat \ {0}
                             /\ MaxCapacity \in Nat
ASSUME TextsAssumption    == Texts \subseteq Seq(STRING)

VARIABLES
  text,
  size,        (* the parameter: parse_file counts the NUL, astparse_text  *)
               (* does not                                                 *)
  reader,      (* where the next lexem is looked for                       *)
  lexems,      (* lexem_array.lexems: [type, value, offset]                *)
  lexemcap,    (* the capacity of the array                                *)
  fault        (* "none", or how the process died                          *)

lexerVars == <<text, size, reader, lexems, lexemcap, fault>>

Letters == {"a","b","c","d","e","f","g","h","i","j","k","l","m","n","o","p","q",
            "r","s","t","u","v","w","x","y","z","A","B","C","D","E","F","G","H",
            "I","J","K","L","M","N","O","P","Q","R","S","T","U","V","W","X","Y",
            "Z","_"}
Digits  == {"0","1","2","3","4","5","6","7","8","9"}
Newline == "\n"
Quote   == "\""

(* enum splexems and ltext: what stands before kw_logical_or, then words.  *)
Specials == <<
  <<"arrow", <<"-", ">">> >>, <<"EOL", <<"$","e","o","l">> >>, <<"dot", <<".">> >>,
  <<"ORBracket", <<"(">> >>, <<"CRBracket", <<")">> >>, <<"Obrace", <<"{">> >>,
  <<"Cbrace", <<"}">> >>, <<"OSbracket", <<"[">> >>, <<"CSbracket", <<"]">> >>,
  <<"comma", <<",">> >>, <<"colon", <<":">> >>, <<"equal", <<"=","=">> >>,
  <<"nequal", <<"!","=">> >>, <<"lt", <<"<">> >>, <<"gt", <<">">> >>,
  <<"le", <<"<","=">> >>, <<"ge", <<">","=">> >>, <<"inpadd", <<"+","=">> >>,
  <<"inpsub", <<"-","=">> >>, <<"inpmult", <<"*","=">> >>, <<"inpdiv", <<"/","=">> >>,
  <<"assign", <<"=">> >>, <<"plus", <<"+">> >>, <<"minus", <<"-">> >>,
  <<"deglex", <<"*","*">> >>, <<"asterisk", <<"*">> >>, <<"slash", <<"/">> >> >>

Keywords == <<
  <<"kw_logical_or", <<"o","r">> >>, <<"kw_logical_and", <<"a","n","d">> >>,
  <<"kw_logical_not", <<"n","o","t">> >>, <<"kwif", <<"i","f">> >>,
  <<"kwfor", <<"f","o","r">> >>, <<"kwtrue", <<"t","r","u","e">> >>,
  <<"kwfalse", <<"f","a","l","s","e">> >>, <<"kwelse", <<"e","l","s","e">> >>,
  <<"kwfunc", <<"f","u","n">> >>, <<"kwclass", <<"t","y","p","e">> >>,
  <<"kwasync", <<"a","s","y","n","c">> >>, <<"kwwrite", <<"w","r","i","t","e">> >>,
  <<"kwimport", <<"i","m","p","o","r","t">> >>, <<"kwnull", <<"n","u","l","l">> >>,
  <<"kwin", <<"i","n">> >>, <<"kwreturn", <<"r","e","t","u","r","n">> >>,
  <<"kwwhile", <<"w","h","i","l","e">> >> >>

(***************************************************************************)
(* Looking at the text.                                                    *)
(***************************************************************************)
At(p) == IF p < Len(text) THEN text[p + 1] ELSE "NUL"

(* The first position from p on that holds none of the characters in S.    *)
RunEnd(p, S) == CHOOSE q \in p .. Len(text) : /\ At(q) \notin S
                                              /\ \A r \in p .. q - 1 : At(r) \in S
Span(p, q)   == SubSeq(text, p + 1, q)

StartsWith(p, word) == \A i \in DOMAIN word : At(p + i - 1) = word[i]

(* The entries of the tables that the lexem at p could be. *)
SpecialsAt(p) == {i \in DOMAIN Specials : StartsWith(p, Specials[i][2])}
KeywordsAt(word) == {i \in DOMAIN Keywords : Keywords[i][2] = word}

(* Where strtod (external) stops: digits, a point and digits; an exponent  *)
(* or a hexadecimal number stands in no text.                              *)
NumberEnd(p) == LET end == RunEnd(p, Digits)
                IN  IF At(end) = "." THEN RunEnd(end + 1, Digits) ELSE end

(* The loops of scan_string and write_str_formatted over the string whose  *)
(* first character is at p: where it stops, and how many it has written.   *)
StringEnd ==
  LET end[p \in 0 .. Len(text) + 2] ==
        CASE p >= size \/ At(p) = Quote -> p
          [] p < size /\ At(p) = "\\"   -> end[p + 2]
          [] OTHER                      -> end[p + 1]
  IN  end

Written ==
  LET count[p \in 0 .. Len(text) + 2] ==
        CASE p >= size \/ At(p) = Quote -> 0
          [] p < size /\ At(p) = "\\"   -> 1 + count[p + 2]
          [] OTHER                      -> 1 + count[p + 1]
  IN  count

(* The bytes scan_string allocates for the string at p, strsize + 1; and a *)
(* bug a run must notice, the quotes not counted.                          *)
StringBuffer_Tight(p) == StringEnd[p + 1] - p - 1
StringBuffer(p) == StringEnd[p + 1] - p + 1

(***************************************************************************)
(* add_lexem and parse_text.                                               *)
(***************************************************************************)
Lexem(type, value, offset) == [type |-> type, value |-> value, offset |-> offset]

(* A bug a run must notice: the array grows one lexem too late.            *)
Full_Late == Len(lexems) > lexemcap
Full      == Len(lexems) = lexemcap

(* An array that malloc has refused (a capacity of 0) takes nothing.  A    *)
(* full one is doubled; what realloc returned is not tested for NULL.      *)
add_lexem(lex) ==
  CASE lexemcap = 0 -> UNCHANGED <<lexems, lexemcap, fault>>
    [] lexemcap # 0 /\ Full /\ 2 * lexemcap > MaxCapacity ->
         fault' = "null dereference" /\ UNCHANGED <<lexems, lexemcap>>
    [] OTHER ->
         /\ lexemcap' = IF Full THEN 2 * lexemcap ELSE lexemcap
         /\ lexems' = Append(lexems, lex)
         /\ UNCHANGED fault

(* The array is granted, or refused.  The offset of the ERROR for a blank  *)
(* at the start is never set, nor read; 0 stands for it.                   *)
Unread ==
  /\ reader = 0 /\ fault = "none"
  /\ lexemcap = InitialCapacity
  /\ lexems = IF At(0) = " " THEN <<Lexem("ERROR", <<>>, 0)>> ELSE <<>>

Unallocated == reader = 0 /\ fault = "none" /\ lexemcap = 0 /\ lexems = <<>>

LexerInit == /\ text \in Texts /\ size \in {Len(text), Len(text) + 1}
             /\ Unread \/ Unallocated

(* getLexem skips the blanks and finds a lexem that ends before end.       *)
Here == RunEnd(reader, {" "})

Take(type, value, end) ==
  /\ add_lexem(Lexem(type, value, end))
  /\ reader' = end
  /\ UNCHANGED <<text, size>>

Looking   == fault = "none" /\ reader < size - 1
Lexing(S) == Looking /\ At(Here) \in S

(* Bugs a run must notice: a closing quote is skipped that may be missing; *)
(* endpos is not set.                                                      *)
TakeString_Closing == Lexing({Quote}) /\ Take("STRLNGLITERAL", <<>>, Here + 3)
TakeString_Endless == Lexing({Quote}) /\ Take("STRLNGLITERAL", <<>>, reader)

(* The writer and the reader are passed by value: the value of the string  *)
(* is empty, and the next lexem starts behind its first character.         *)
TakeString == Lexing({Quote}) /\ Take("STRLNGLITERAL", <<>>, Here + 2)

TakeSpecial ==
  /\ Looking /\ SpecialsAt(Here) # {}
  /\ LET special == Specials[Min(SpecialsAt(Here))]
     IN  Take("SPECIAL", special[1], Here + Len(special[2]))

(* A bug a run must notice: a keyword is found in front of a longer word.  *)
TakeWord_Prefix ==
  /\ Lexing(Letters)
  /\ LET found == {i \in DOMAIN Keywords : StartsWith(Here, Keywords[i][2])}
         end   == RunEnd(Here, Letters)
     IN  IF found # {}
           THEN LET word == Keywords[Min(found)]
                IN  Take("SPECIAL", word[1], Here + Len(word[2]))
           ELSE Take("IDENTIFIER", Span(Here, end), end)

TakeWord ==
  /\ Lexing(Letters)
  /\ LET end  == RunEnd(Here, Letters)
         word == Span(Here, end)
     IN  IF KeywordsAt(word) # {}
           THEN Take("SPECIAL", Keywords[Min(KeywordsAt(word))][1], end)
           ELSE Take("IDENTIFIER", word, end)

TakeNumber ==
  /\ Lexing(Digits)
  /\ \E end \in {NumberEnd(Here)} : \E number \in {strtod(Span(Here, end))} :
       IF Integral(number) THEN Take("NUMINTLITERAL", Int64(number), end)
                           ELSE Take("NUMLITERAL", number, end)

TakeEol == Lexing({Newline}) /\ Take("SPECIAL", "EOL", Here + 1)

(* endpos is left alone: the loop comes back to the same character.        *)
TakeError ==
  /\ Looking /\ SpecialsAt(Here) = {}
  /\ At(Here) \notin Letters \cup Digits \cup {Quote, Newline}
  /\ Take("ERROR", <<>>, reader)

LexerStep == TakeString \/ TakeSpecial \/ TakeWord \/ TakeNumber \/ TakeEol \/ TakeError
Lexed     == reader >= size - 1
LexerDone == (Lexed \/ fault # "none") /\ UNCHANGED lexerVars
LexerNext == LexerStep \/ LexerDone

(* A loop that nothing suspends. *)
LexerSpec == LexerInit /\ [][LexerNext]_lexerVars /\ WF_lexerVars(LexerStep)

(***************************************************************************)
(* Properties.                                                             *)
(***************************************************************************)
LexemTypes == {"IDENTIFIER", "STRLNGLITERAL", "NUMLITERAL", "NUMINTLITERAL",
               "SPECIAL", "ERROR"}

(* Type invariant.  The lexer stays inside the buffer: it never starts a   *)
(* lexem behind the NUL, and a lexem that was cut off by the end of the    *)
(* text ends at most one byte behind it.                                   *)
LexerTypeOK ==
  /\ text \in Texts /\ size \in {Len(text), Len(text) + 1}
  /\ reader \in 0 .. Len(text) + 1
  /\ \A i \in DOMAIN lexems : lexems[i].type \in LexemTypes
                             /\ lexems[i].offset \in 0 .. Len(text) + 1
  /\ lexemcap \in Nat
  /\ fault \in {"none", "null dereference"}

(* A lexem is only written inside the array: lexer.c:32 compares the count *)
(* before it is incremented, and doubles the array at the last moment.     *)
ArrayFits == Len(lexems) <= lexemcap

(* The loop that copies a string stops before the buffer that the loop     *)
(* before it has measured is full, escapes, an end of the text inside the  *)
(* string and the missing \0 included.                                     *)
StringFits == Lexing({Quote}) => Written[Here + 1] < StringBuffer(Here)

(* Words and numbers are never cut in two: "iffy" is no "if" and "fy".     *)
IsWord(lex) == \/ lex.type = "IDENTIFIER"
               \/ lex.type = "SPECIAL" /\ \E i \in DOMAIN Keywords : Keywords[i][1] = lex.value

WordsWhole ==
  \A i \in DOMAIN lexems :
    LET lex == lexems[i]
    IN  /\ IsWord(lex) => At(lex.offset) \notin Letters
        /\ lex.type \in {"NUMLITERAL", "NUMINTLITERAL"} => At(lex.offset) \notin Digits

(* A text of known characters that does not end in a blank is lexed to its *)
(* end, strings and all, and gives no ERROR but for a blank at its start.  *)
Clean == /\ \A i \in DOMAIN text : \/ text[i] \in Letters \cup Digits \cup {Quote, Newline, " "}
                                   \/ \E j \in DOMAIN Specials : Specials[j][2] = <<text[i]>>
         /\ text # <<>> => text[Len(text)] # " "

CleanTextsLexed ==
  Clean ~> /\ Lexed
           /\ \A i \in DOMAIN lexems : lexems[i].type = "ERROR" => i = 1 /\ At(0) = " "

(* lexer_test_somecode.dul:13: lexem #012: String[ "display" ].  A string  *)
(* in the text would be one lexem, which ends behind its closing quote.    *)
StringsWhole ==
  \A i \in DOMAIN lexems :
    lexems[i].type = "STRLNGLITERAL" => At(lexems[i].offset - 1) = Quote

(* lexer.c:190: "ignores whitespaces/tabs at beginning of line".  A line   *)
(* that starts with a tab would be lexed like any other.                   *)
TabsIgnored == At(0) = "\t" ~> Lexed
=============================================================================
