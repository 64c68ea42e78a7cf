--------------------------- MODULE DulLexerProofs ---------------------------
(***************************************************************************)
(* Whatever the text, and whatever the capacity the array of lexems starts *)
(* with, add_lexem writes inside the array; the lexer stays in the text    *)
(* and cuts no word in two; the copy of a string stays in its buffer.      *)
(***************************************************************************)
EXTENDS DulLexer, WellFoundedInduction, TLAPS

(* Nothing is needed of the lexems but that they form a sequence. *)
IsSequence(s) == \E S : s \in Seq(S)

LexemsFit(s, cap) == IsSequence(s) /\ cap \in Nat /\ Len(s) <= cap

ArrayInv == LexemsFit(lexems, lexemcap)

(* Append makes a sequence of any sequence and any element. *)
LEMMA AppendAny ==
  ASSUME NEW s, NEW e, IsSequence(s)
  PROVE  IsSequence(Append(s, e)) /\ Len(Append(s, e)) = Len(s) + 1 /\ Len(s) \in Nat
<1>1. PICK S : s \in Seq(S)
  BY DEF IsSequence
<1>2. s \in Seq(S \cup {e}) /\ e \in S \cup {e}
  BY <1>1
<1>3. Append(s, e) \in Seq(S \cup {e}) /\ Len(Append(s, e)) = Len(s) + 1 /\ Len(s) \in Nat
  BY <1>2
<1> QED BY <1>3 DEF IsSequence

(* The array starts with at most one lexem, which its capacity allows. *)
LEMMA ArrayInitial == LexerInit => ArrayInv
<1> SUFFICES ASSUME LexerInit PROVE ArrayInv
  OBVIOUS
<1>1. lexemcap \in Nat /\ (lexems # <<>> => 1 <= lexemcap)
  <2>1. lexemcap = InitialCapacity \/ (lexemcap = 0 /\ lexems = <<>>)
    BY Zenon DEF LexerInit, Unread, Unallocated
  <2> QED BY <2>1, CapacityAssumption
<1>2. IsSequence(<<>>) /\ Len(<<>>) = 0
  <2>1. <<>> \in Seq({})
    OBVIOUS
  <2> QED BY <2>1 DEF IsSequence
<1>3. ASSUME NEW lex PROVE IsSequence(<<lex>>) /\ Len(<<lex>>) = 1
  <2>1. <<lex>> \in Seq({lex})
    OBVIOUS
  <2> QED BY <2>1 DEF IsSequence
<1>4. lexems = <<>> \/ lexems = <<Lexem("ERROR", <<>>, 0)>>
  BY DEF LexerInit, Unread, Unallocated
<1>5. IsSequence(lexems) /\ (Len(lexems) = 0 \/ Len(lexems) = 1)
  <2>1. CASE lexems = <<>>
    BY <2>1, <1>2, Zenon
  <2>2. CASE lexems = <<Lexem("ERROR", <<>>, 0)>>
    BY <2>2, <1>3, Zenon
  <2> QED BY <2>1, <2>2, <1>4
<1>6. Len(lexems) <= lexemcap
  BY <1>1, <1>2, <1>5
<1> QED BY <1>1, <1>5, <1>6 DEF ArrayInv, LexemsFit

(* add_lexem keeps the count within the capacity: the array is doubled     *)
(* when the count has reached it, or the process dies; one that was        *)
(* refused takes nothing.                                                  *)
LEMMA AddLexemFits ==
  ASSUME NEW lex, ArrayInv, add_lexem(lex)
  PROVE  ArrayInv'
<1>1. CASE lexemcap = 0 \/ (Full /\ 2 * lexemcap > MaxCapacity)
  BY <1>1 DEF add_lexem, ArrayInv, LexemsFit
<1>2. CASE lexemcap # 0 /\ ~(Full /\ 2 * lexemcap > MaxCapacity)
  <2>1. /\ lexemcap' = IF Full THEN 2 * lexemcap ELSE lexemcap
        /\ lexems' = Append(lexems, lex)
    BY <1>2, Zenon DEF add_lexem
  <2>2. IsSequence(lexems') /\ Len(lexems') = Len(lexems) + 1 /\ Len(lexems) \in Nat
    BY <2>1, AppendAny DEF ArrayInv, LexemsFit
  <2>3. lexemcap' \in Nat /\ Len(lexems') <= lexemcap'
    BY <1>2, <2>1, <2>2 DEF Full, ArrayInv, LexemsFit
  <2> QED BY <2>2, <2>3 DEF ArrayInv, LexemsFit
<1> QED BY <1>1, <1>2

(* Every turn of the loop adds one lexem, or none. *)
LEMMA ArrayInductive == ArrayInv /\ [LexerNext]_lexerVars => ArrayInv'
<1> SUFFICES ASSUME ArrayInv, [LexerNext]_lexerVars PROVE ArrayInv'
  OBVIOUS
<1>1. ASSUME NEW type, NEW value, NEW end, Take(type, value, end) PROVE ArrayInv'
  BY <1>1, AddLexemFits DEF Take
<1>2. CASE TakeString
  BY <1>1, <1>2 DEF TakeString
<1>3. CASE TakeSpecial
  BY <1>1, <1>3 DEF TakeSpecial
<1>4. CASE TakeWord
  BY <1>1, <1>4 DEF TakeWord
<1>5. CASE TakeNumber
  BY <1>1, <1>5 DEF TakeNumber
<1>6. CASE TakeEol
  BY <1>1, <1>6 DEF TakeEol
<1>7. CASE TakeError
  BY <1>1, <1>7 DEF TakeError
<1>8. CASE UNCHANGED lexerVars
  BY <1>8 DEF lexerVars, ArrayInv
<1> QED BY <1>2, <1>3, <1>4, <1>5, <1>6, <1>7, <1>8 DEF LexerNext, LexerStep, LexerDone

(* The lexer never writes a lexem outside its array. *)
THEOREM LexemArrayFits == LexerSpec => []ArrayFits
<1>1. ArrayInv => ArrayFits
  BY DEF ArrayInv, LexemsFit, ArrayFits
<1> QED BY <1>1, ArrayInitial, ArrayInductive, PTL DEF LexerSpec

(***************************************************************************)
(* Where a lexem ends.                                                     *)
(***************************************************************************)
(* A set of numbers that is not empty has a least element. *)
LEMMA LeastElement ==
  ASSUME NEW T \in SUBSET Nat, T # {}
  PROVE  \E x \in T : \A y \in T : x <= y
<1> DEFINE R == {ss \in Nat \X Nat : ss[1] < ss[2]}
<1>1. IsWellFoundedOn(R, Nat)
  BY NatLessThanWellFounded DEF OpToRel
<1>2. \A x, y \in Nat : y < x => <<y, x>> \in R
  OBVIOUS
<1> HIDE DEF R
<1>3. PICK x \in T : \A y \in T : ~(<<y, x>> \in R)
  BY <1>1, WFMin
<1>4. \A y \in T : ~(y < x)
  BY <1>2, <1>3
<1> QED BY <1>3, <1>4

(* A run of characters ends in the text, or at the NUL behind it. *)
LEMMA RunEnds ==
  ASSUME Len(text) \in Nat, NEW p \in 0 .. Len(text), NEW S, "NUL" \notin S
  PROVE  RunEnd(p, S) \in p .. Len(text) /\ At(RunEnd(p, S)) \notin S
<1> DEFINE T == {q \in p .. Len(text) : At(q) \notin S}
<1>1. At(Len(text)) = "NUL"
  BY DEF At
<1>2. Len(text) \in T /\ T \in SUBSET Nat
  BY <1>1
<1>3. PICK q \in T : \A r \in T : q <= r
  BY <1>2, LeastElement
<1>4. \A r \in p .. q - 1 : At(r) \in S
  BY <1>3
<1>5. \E e \in p .. Len(text) : At(e) \notin S /\ \A r \in p .. e - 1 : At(r) \in S
  BY <1>3, <1>4
<1> QED BY <1>5 DEF RunEnd

(***************************************************************************)
(* The tables.                                                             *)
(***************************************************************************)
SpecialNames == {"arrow", "EOL", "dot", "ORBracket", "CRBracket", "Obrace", "Cbrace",
                 "OSbracket", "CSbracket", "comma", "colon", "equal", "nequal", "lt",
                 "gt", "le", "ge", "inpadd", "inpsub", "inpmult", "inpdiv", "assign",
                 "plus", "minus", "deglex", "asterisk", "slash"}
KeywordNames == {"kw_logical_or", "kw_logical_and", "kw_logical_not", "kwif", "kwfor",
                 "kwtrue", "kwfalse", "kwelse", "kwfunc", "kwclass", "kwasync",
                 "kwwrite", "kwimport", "kwnull", "kwin", "kwreturn", "kwwhile"}
Characters   == {"-", ">", ".", "(", ")", "{", "}", "[", "]", ",", ":", "=", "!", "<",
                 "+", "*", "/", "$", "e", "o", "l"}

(* A special lexem has its name, and is spelled without a NUL. *)
LEMMA SpecialShape ==
  ASSUME NEW i \in DOMAIN Specials
  PROVE  Specials[i][1] \in SpecialNames /\ Specials[i][2] \in Seq(Characters)
<1> DEFINE W == Seq(Characters)
<1>1. i \in 1 .. 27
  BY DEF Specials
<1>2. /\ Specials[1][1] \in SpecialNames /\ Specials[2][1] \in SpecialNames
      /\ Specials[3][1] \in SpecialNames /\ Specials[4][1] \in SpecialNames
      /\ Specials[5][1] \in SpecialNames /\ Specials[6][1] \in SpecialNames
      /\ Specials[7][1] \in SpecialNames /\ Specials[8][1] \in SpecialNames
      /\ Specials[9][1] \in SpecialNames /\ Specials[10][1] \in SpecialNames
      /\ Specials[11][1] \in SpecialNames /\ Specials[12][1] \in SpecialNames
      /\ Specials[13][1] \in SpecialNames /\ Specials[14][1] \in SpecialNames
      /\ Specials[15][1] \in SpecialNames /\ Specials[16][1] \in SpecialNames
      /\ Specials[17][1] \in SpecialNames /\ Specials[18][1] \in SpecialNames
      /\ Specials[19][1] \in SpecialNames /\ Specials[20][1] \in SpecialNames
      /\ Specials[21][1] \in SpecialNames /\ Specials[22][1] \in SpecialNames
      /\ Specials[23][1] \in SpecialNames /\ Specials[24][1] \in SpecialNames
      /\ Specials[25][1] \in SpecialNames /\ Specials[26][1] \in SpecialNames
      /\ Specials[27][1] \in SpecialNames
  BY DEF Specials, SpecialNames
<1>3. \A c, d \in Characters : <<c>> \in W /\ <<c, d>> \in W
  OBVIOUS
<1>4. /\ "-" \in Characters /\ ">" \in Characters /\ "." \in Characters
      /\ "(" \in Characters /\ ")" \in Characters /\ "{" \in Characters
      /\ "}" \in Characters /\ "[" \in Characters /\ "]" \in Characters
      /\ "," \in Characters /\ ":" \in Characters /\ "=" \in Characters
      /\ "!" \in Characters /\ "<" \in Characters /\ "+" \in Characters
      /\ "*" \in Characters /\ "/" \in Characters /\ "$" \in Characters
      /\ "e" \in Characters /\ "o" \in Characters /\ "l" \in Characters
  BY DEF Characters
<1>5. <<"$", "e", "o", "l">> \in W
  <2>1. ASSUME NEW c \in Characters, NEW d \in Characters, NEW e \in Characters, NEW f \in Characters
        PROVE  <<c, d, e, f>> \in Seq(Characters)
    OBVIOUS
  <2> QED BY <2>1, <1>4
<1> HIDE DEF W
<1>6. /\ Specials[1][2] \in W /\ Specials[2][2] \in W /\ Specials[3][2] \in W
      /\ Specials[4][2] \in W /\ Specials[5][2] \in W /\ Specials[6][2] \in W
      /\ Specials[7][2] \in W /\ Specials[8][2] \in W /\ Specials[9][2] \in W
      /\ Specials[10][2] \in W /\ Specials[11][2] \in W /\ Specials[12][2] \in W
      /\ Specials[13][2] \in W /\ Specials[14][2] \in W /\ Specials[15][2] \in W
      /\ Specials[16][2] \in W /\ Specials[17][2] \in W /\ Specials[18][2] \in W
      /\ Specials[19][2] \in W /\ Specials[20][2] \in W /\ Specials[21][2] \in W
      /\ Specials[22][2] \in W /\ Specials[23][2] \in W /\ Specials[24][2] \in W
      /\ Specials[25][2] \in W /\ Specials[26][2] \in W /\ Specials[27][2] \in W
  BY <1>3, <1>4, <1>5 DEF Specials
<1>7. Specials[i][1] \in SpecialNames
  BY <1>1, <1>2
<1>8. Specials[i][2] \in W
  BY <1>1, <1>6
<1> QED BY <1>7, <1>8 DEF W

(* A keyword has its name, which is that of no special lexem. *)
LEMMA KeywordShape ==
  ASSUME NEW i \in DOMAIN Keywords
  PROVE  Keywords[i][1] \notin SpecialNames
<1>1. i \in 1 .. 17
  BY DEF Keywords
<1>2. /\ Keywords[1][1] \in KeywordNames /\ Keywords[2][1] \in KeywordNames
      /\ Keywords[3][1] \in KeywordNames /\ Keywords[4][1] \in KeywordNames
      /\ Keywords[5][1] \in KeywordNames /\ Keywords[6][1] \in KeywordNames
      /\ Keywords[7][1] \in KeywordNames /\ Keywords[8][1] \in KeywordNames
      /\ Keywords[9][1] \in KeywordNames /\ Keywords[10][1] \in KeywordNames
      /\ Keywords[11][1] \in KeywordNames /\ Keywords[12][1] \in KeywordNames
      /\ Keywords[13][1] \in KeywordNames /\ Keywords[14][1] \in KeywordNames
      /\ Keywords[15][1] \in KeywordNames /\ Keywords[16][1] \in KeywordNames
      /\ Keywords[17][1] \in KeywordNames
  BY DEF Keywords, KeywordNames
<1>3. Keywords[i][1] \in KeywordNames
  BY <1>1, <1>2
<1> QED BY <1>3 DEF KeywordNames, SpecialNames

(* Min picks one of the entries that fit. *)
LEMMA MinOfTable ==
  ASSUME NEW T \in SUBSET Nat, T # {}
  PROVE  Min(T) \in T
<1>1. \E x \in T : \A y \in T : x <= y
  BY LeastElement
<1> QED BY <1>1 DEF Min

(***************************************************************************)
(* Every lexem is of a type, ends in the text and cuts nothing in two.     *)
(***************************************************************************)
Good(lex) == /\ lex.type \in LexemTypes
             /\ lex.offset \in 0 .. Len(text) + 1
             /\ IsWord(lex) => At(lex.offset) \notin Letters
             /\ lex.type \in {"NUMLITERAL", "NUMINTLITERAL"} => At(lex.offset) \notin Digits

ReaderInv ==
  /\ text \in Texts /\ Len(text) \in Nat /\ size \in {Len(text), Len(text) + 1}
  /\ reader \in 0 .. Len(text) + 1
  /\ IsSequence(lexems) /\ \A i \in DOMAIN lexems : Good(lexems[i])
  /\ lexemcap \in Nat
  /\ fault \in {"none", "null dereference"}

(* A lexem that is no word and no number is good wherever it ends. *)
LEMMA OtherGood ==
  ASSUME NEW type \in {"STRLNGLITERAL", "ERROR", "SPECIAL"}, NEW value,
         type = "SPECIAL" => value \in SpecialNames, NEW end \in 0 .. Len(text) + 1
  PROVE  Good(Lexem(type, value, end))
<1>1. ASSUME type = "SPECIAL" PROVE ~ \E i \in DOMAIN Keywords : Keywords[i][1] = value
  BY <1>1, KeywordShape
<1> QED BY <1>1 DEF Good, Lexem, LexemTypes, IsWord

(* The text starts as one of Texts, with at most one lexem. *)
LEMMA ReaderInitial == LexerInit => ReaderInv
<1> SUFFICES ASSUME LexerInit PROVE ReaderInv
  OBVIOUS
<1>1. text \in Texts /\ Len(text) \in Nat /\ size \in {Len(text), Len(text) + 1}
  BY TextsAssumption DEF LexerInit
<1>2. reader = 0 /\ lexemcap \in Nat /\ fault = "none"
  <2>1. reader = 0 /\ fault = "none" /\ (lexemcap = InitialCapacity \/ lexemcap = 0)
    BY Zenon DEF LexerInit, Unread, Unallocated
  <2> QED BY <2>1, CapacityAssumption
<1>3. IsSequence(lexems)
  BY ArrayInitial DEF ArrayInv, LexemsFit
<1>4. \A i \in DOMAIN lexems : Good(lexems[i])
  <2>1. CASE lexems = <<>>
    BY <2>1
  <2>2. CASE lexems = <<Lexem("ERROR", <<>>, 0)>>
    <3>1. Good(Lexem("ERROR", <<>>, 0))
      BY <1>1, OtherGood
    <3>2. \A x : \A i \in DOMAIN <<x>> : <<x>>[i] = x
      OBVIOUS
    <3> QED BY <2>2, <3>1, <3>2
  <2> QED BY <2>1, <2>2 DEF LexerInit, Unread, Unallocated
<1> QED BY <1>1, <1>2, <1>3, <1>4 DEF ReaderInv

(* A good lexem that is taken keeps the invariant. *)
LEMMA TakeGood ==
  ASSUME ReaderInv, NEW type, NEW value, NEW end \in 0 .. Len(text) + 1,
         Good(Lexem(type, value, end)), Take(type, value, end)
  PROVE  ReaderInv'
<1> DEFINE lex == Lexem(type, value, end)
<1>1. UNCHANGED <<text, size>> /\ reader' = end /\ add_lexem(lex)
  BY DEF Take
<1>2. \A x : Good(x) <=> Good(x)'
  BY <1>1 DEF Good, IsWord, At
<1> HIDE DEF lex
<1>3. CASE lexemcap = 0 \/ (Full /\ 2 * lexemcap > MaxCapacity)
  BY <1>1, <1>2, <1>3 DEF add_lexem, ReaderInv
<1>4. CASE lexemcap # 0 /\ ~(Full /\ 2 * lexemcap > MaxCapacity)
  <2>1. /\ lexemcap' \in Nat /\ lexems' = Append(lexems, lex) /\ UNCHANGED fault
    <3>1. /\ lexemcap' = IF Full THEN 2 * lexemcap ELSE lexemcap
          /\ lexems' = Append(lexems, lex) /\ UNCHANGED fault
      BY <1>1, <1>4, Zenon DEF add_lexem
    <3>2. lexemcap \in Nat
      BY Zenon DEF ReaderInv
    <3>3. 2 * lexemcap \in Nat
      BY <3>2
    <3> QED BY <3>1, <3>2, <3>3
  <2>2. PICK S : lexems \in Seq(S)
    BY DEF ReaderInv, IsSequence
  <2>3. \A i \in DOMAIN lexems' : \/ i \in DOMAIN lexems /\ lexems'[i] = lexems[i]
                                  \/ lexems'[i] = lex
    BY <2>1, <2>2
  <2>4. \A i \in DOMAIN lexems' : Good(lexems'[i])
    BY <2>3 DEF ReaderInv, lex
  <2>5. IsSequence(lexems')
    BY <2>1, AppendAny DEF ReaderInv
  <2> QED BY <1>1, <1>2, <2>1, <2>4, <2>5 DEF ReaderInv
<1> QED BY <1>3, <1>4

(* The next lexem is looked for in the text. *)
LEMMA LooksInText ==
  ASSUME ReaderInv, Looking
  PROVE  /\ reader \in 0 .. Len(text) /\ Here \in 0 .. Len(text)
         /\ \A p \in Nat : At(p) # "NUL" => p < Len(text)
<1>1. /\ Len(text) \in Nat /\ size \in {Len(text), Len(text) + 1}
      /\ reader \in 0 .. Len(text) + 1 /\ reader < size - 1
  BY DEF ReaderInv, Looking
<1>2. reader \in 0 .. Len(text)
  BY <1>1
<1>3. "NUL" \notin {" "}
  OBVIOUS
<1>4. Here \in reader .. Len(text)
  BY <1>1, <1>2, <1>3, RunEnds DEF Here
<1>5. \A p \in Nat : At(p) # "NUL" => p < Len(text)
  BY DEF At
<1> QED BY <1>1, <1>2, <1>4, <1>5

(* Every turn of the loop takes a good lexem. *)
LEMMA ReaderInductive == ReaderInv /\ [LexerNext]_lexerVars => ReaderInv'
<1> SUFFICES ASSUME ReaderInv, [LexerNext]_lexerVars PROVE ReaderInv'
  OBVIOUS
<1>1. Len(text) \in Nat /\ "NUL" \notin Letters /\ "NUL" \notin Digits
  BY DEF ReaderInv, Letters, Digits
<1>2. CASE TakeString
  <2>1. Looking /\ At(Here) # "NUL" /\ Take("STRLNGLITERAL", <<>>, Here + 2)
    BY <1>2 DEF TakeString, Lexing, Quote
  <2>2. Here + 2 \in 0 .. Len(text) + 1
    BY <1>1, <2>1, LooksInText
  <2>3. Good(Lexem("STRLNGLITERAL", <<>>, Here + 2))
    BY <2>2, OtherGood
  <2> QED BY <2>1, <2>2, <2>3, TakeGood
<1>3. CASE TakeSpecial
  <2> DEFINE i == Min(SpecialsAt(Here))
             word == Specials[i][2]
  <2>1. Looking /\ Take("SPECIAL", Specials[i][1], Here + Len(word))
    BY <1>3 DEF TakeSpecial
  <2>2. i \in DOMAIN Specials /\ StartsWith(Here, word)
    <3>1. SpecialsAt(Here) \in SUBSET Nat
      <4>1. DOMAIN Specials \in SUBSET Nat
        BY DEF Specials
      <4> QED BY <4>1 DEF SpecialsAt
    <3>2. i \in SpecialsAt(Here)
      BY <1>3, <3>1, MinOfTable DEF TakeSpecial
    <3> QED BY <3>2 DEF SpecialsAt
  <2> HIDE DEF i
  <2>3. Specials[i][1] \in SpecialNames /\ word \in Seq(Characters)
    BY <2>2, SpecialShape
  <2> HIDE DEF word
  <2>4. Here + Len(word) \in 0 .. Len(text)
    <3>1. Here \in 0 .. Len(text) /\ Len(word) \in Nat
      BY <2>1, <2>3, LooksInText
    <3>2. CASE Len(word) = 0
      BY <3>1, <3>2
    <3>3. CASE Len(word) # 0
      <4>1. Len(word) \in DOMAIN word
        BY <2>3, <3>1, <3>3
      <4>2. At(Here + Len(word) - 1) \in Characters
        BY <2>2, <2>3, <4>1 DEF StartsWith
      <4>3. At(Here + Len(word) - 1) # "NUL"
        BY <4>2 DEF Characters
      <4> QED BY <1>1, <2>1, <3>1, <3>3, <4>3, LooksInText
    <3> QED BY <3>2, <3>3
  <2>5. Here + Len(word) \in 0 .. Len(text) + 1
    BY <1>1, <2>4
  <2>6. Good(Lexem("SPECIAL", Specials[i][1], Here + Len(word)))
    BY <2>3, <2>5, OtherGood
  <2> QED BY <2>1, <2>5, <2>6, TakeGood DEF word
<1>4. CASE TakeWord
  <2> DEFINE end == RunEnd(Here, Letters)
  <2>1. Looking
    BY <1>4 DEF TakeWord, Lexing
  <2>2. end \in 0 .. Len(text) + 1 /\ At(end) \notin Letters
    <3>1. Here \in 0 .. Len(text)
      BY <2>1, LooksInText
    <3>2. end \in Here .. Len(text) /\ At(end) \notin Letters
      BY <1>1, <3>1, RunEnds
    <3> QED BY <1>1, <3>1, <3>2
  <2>3. ASSUME NEW type \in {"SPECIAL", "IDENTIFIER"}, NEW value
        PROVE  Good(Lexem(type, value, end))
    BY <2>2 DEF Good, Lexem, LexemTypes
  <2>4. PICK type \in {"SPECIAL", "IDENTIFIER"} : \E value : Take(type, value, end)
    BY <1>4, Zenon DEF TakeWord
  <2> HIDE DEF end
  <2>5. PICK value : Take(type, value, end)
    BY <2>4
  <2> QED BY <2>2, <2>3, <2>4, <2>5, TakeGood
<1>5. CASE TakeNumber
  <2> DEFINE end == NumberEnd(Here)
             ints == RunEnd(Here, Digits)
  <2>1. Looking
    BY <1>5 DEF TakeNumber, Lexing
  <2>2. ints \in 0 .. Len(text) /\ At(ints) \notin Digits
    BY <1>1, <2>1, LooksInText, RunEnds
  <2>3. end \in 0 .. Len(text) /\ At(end) \notin Digits
    <3>1. CASE At(ints) = "."
      <4>1. ints + 1 \in 0 .. Len(text)
        BY <1>1, <2>1, <2>2, <3>1, LooksInText
      <4>2. end = RunEnd(ints + 1, Digits)
        BY <3>1 DEF NumberEnd
      <4> HIDE DEF ints, end
      <4> QED BY <1>1, <4>1, <4>2, RunEnds
    <3>2. CASE At(ints) # "."
      BY <2>2, <3>2 DEF NumberEnd
    <3> QED BY <3>1, <3>2
  <2>4. PICK type \in {"NUMINTLITERAL", "NUMLITERAL"} : \E value : Take(type, value, end)
    BY <1>5, Zenon DEF TakeNumber
  <2> HIDE DEF end, ints
  <2>5. PICK value : Take(type, value, end)
    BY <2>4
  <2>6. end \in 0 .. Len(text) + 1
    BY <1>1, <2>3
  <2>7. Good(Lexem(type, value, end))
    BY <2>3, <2>4, <2>6 DEF Good, Lexem, LexemTypes, IsWord
  <2> QED BY <2>5, <2>6, <2>7, TakeGood
<1>6. CASE TakeEol
  <2>1. Looking /\ At(Here) # "NUL" /\ Take("SPECIAL", "EOL", Here + 1)
    BY <1>6 DEF TakeEol, Lexing, Newline
  <2>2. Here + 1 \in 0 .. Len(text) + 1
    BY <1>1, <2>1, LooksInText
  <2>3. Good(Lexem("SPECIAL", "EOL", Here + 1))
    BY <2>2, OtherGood DEF SpecialNames
  <2> QED BY <2>1, <2>2, <2>3, TakeGood
<1>7. CASE TakeError
  <2>1. Take("ERROR", <<>>, reader) /\ reader \in 0 .. Len(text) + 1
    BY <1>7 DEF TakeError, ReaderInv
  <2>2. Good(Lexem("ERROR", <<>>, reader))
    BY <2>1, OtherGood
  <2> QED BY <2>1, <2>2, TakeGood
<1>8. CASE UNCHANGED lexerVars
  BY <1>8 DEF lexerVars, ReaderInv, Good, IsWord, At
<1> QED BY <1>2, <1>3, <1>4, <1>5, <1>6, <1>7, <1>8 DEF LexerNext, LexerStep, LexerDone

(* The reader stays in the text and the NUL behind it. *)
THEOREM LexerTyped == LexerSpec => []LexerTypeOK
<1>1. ReaderInv => LexerTypeOK
  BY DEF ReaderInv, LexerTypeOK, Good
<1> QED BY <1>1, ReaderInitial, ReaderInductive, PTL DEF LexerSpec

(* No word and no number is cut in two, whatever stands around it. *)
THEOREM LexerWords == LexerSpec => []WordsWhole
<1>1. ReaderInv => WordsWhole
  BY DEF ReaderInv, WordsWhole, Good
<1> QED BY <1>1, ReaderInitial, ReaderInductive, PTL DEF LexerSpec

(***************************************************************************)
(* The two loops over a string.                                            *)
(***************************************************************************)
Stops == {p \in 0 .. Len(text) + 2 : p >= size \/ At(p) = Quote}
Skip  == [p \in 0 .. Len(text) + 2 |-> IF At(p) = "\\" THEN 2 ELSE 1]

(* What a loop computes from the k-th position on: a value where it stops, *)
(* and one more for every turn if it counts them.                          *)
Scans(n, stops, skip, base, counts, k, f) ==
  f = [p \in k .. n |-> IF p \in stops THEN base[p]
                        ELSE IF counts THEN 1 + f[p + skip[p]] ELSE f[p + skip[p]]]

(* It exists: a least distance to the end without it has a predecessor.    *)
LEMMA ScanExists ==
  ASSUME NEW n \in Nat, NEW stops, NEW skip, NEW base, NEW counts \in BOOLEAN,
         \A p \in 0 .. n : p \notin stops => skip[p] \in 1 .. n - p
  PROVE  \E f : Scans(n, stops, skip, base, counts, 0, f)
<1> DEFINE T == {j \in Nat : j <= n /\ ~\E f : Scans(n, stops, skip, base, counts, n - j, f)}
<1>1. ASSUME T # {} PROVE FALSE
  <2>1. PICK j \in T : \A i \in T : j <= i
    BY <1>1, LeastElement
  <2>2. PICK k : k = n - j
    OBVIOUS
  <2>3. k \in 0 .. n /\ j \in Nat /\ j <= n
    BY <2>1, <2>2
  <2>4. \E f : f = [p \in k + 1 .. n |-> IF p \in stops THEN base[p]
                        ELSE IF counts THEN 1 + f[p + skip[p]] ELSE f[p + skip[p]]]
    <3>1. CASE j = 0
      <4>1. k + 1 .. n = {}
        BY <2>2, <2>3, <3>1
      <4> QED BY <4>1
    <3>2. CASE j # 0
      <4>1. j - 1 \in Nat /\ j - 1 <= n /\ ~(j <= j - 1) /\ n - (j - 1) = k + 1
        BY <2>2, <2>3, <3>2
      <4>2. j - 1 \notin T
        <5> HIDE DEF T
        <5> QED BY <2>1, <4>1
      <4> QED BY <4>1, <4>2 DEF Scans
    <3> QED BY <3>1, <3>2
  <2>5. PICK f : f = [p \in k + 1 .. n |-> IF p \in stops THEN base[p]
                        ELSE IF counts THEN 1 + f[p + skip[p]] ELSE f[p + skip[p]]]
    BY <2>4
  <2> DEFINE V(g, p) == IF p \in stops THEN base[p]
                        ELSE IF counts THEN 1 + g[p + skip[p]] ELSE g[p + skip[p]]
             g       == [p \in k .. n |-> V(f, p)]
  <2>6. \A p \in k + 1 .. n : p \in k .. n /\ f[p] = V(f, p)
    <3>1. \A p \in k + 1 .. n : f[p] = V(f, p)
      BY <2>5, Zenon
    <3> QED BY <2>3, <3>1
  <2>7. \A p \in k .. n : g[p] = V(f, p)
    OBVIOUS
  <2>8. \A p \in k .. n : p \notin stops => p + skip[p] \in k + 1 .. n
    BY <2>3
  <2>9. \A p \in k .. n : V(f, p) = V(g, p)
    <3>1. ASSUME NEW p \in k .. n, p \notin stops PROVE f[p + skip[p]] = g[p + skip[p]]
      <4> HIDE DEF g, V
      <4> QED BY <2>6, <2>7, <2>8, <3>1
    <3> HIDE DEF g
    <3> QED BY <3>1
  <2>10. g = [p \in k .. n |-> V(g, p)]
    <3> DEFINE u(p) == V(f, p)
               w(p) == V(g, p)
    <3>1. g = [p \in k .. n |-> u(p)]
      BY Zenon
    <3>2. \A p \in k .. n : u(p) = w(p)
      BY <2>9
    <3> HIDE DEF g, u, w, V
    <3>3. g = [p \in k .. n |-> w(p)]
      BY <3>1, <3>2
    <3> QED BY <3>3, Zenon DEF w
  <2>11. Scans(n, stops, skip, base, counts, k, g)
    <3> HIDE DEF g
    <3> QED BY <2>10, Zenon DEF Scans, V
  <2> QED BY <2>1, <2>2, <2>11
<1>2. n \in Nat /\ n <= n /\ n - n = 0
  OBVIOUS
<1> QED BY <1>1, <1>2

(* Nothing stands in the way of the loops: a turn stays in the buffer.     *)
LEMMA SkipStays ==
  ASSUME Len(text) \in Nat, size \in {Len(text), Len(text) + 1}
  PROVE  \A p \in 0 .. Len(text) + 2 : p \notin Stops =>
           Skip[p] \in 1 .. Len(text) + 2 - p /\ p < size
<1> SUFFICES ASSUME NEW p \in 0 .. Len(text) + 2, p \notin Stops
             PROVE  Skip[p] \in 1 .. Len(text) + 2 - p /\ p < size
  OBVIOUS
<1>1. p < size
  BY DEF Stops
<1>2. Skip[p] \in {1, 2}
  BY DEF Skip
<1> QED BY <1>1, <1>2

(* The loop of scan_string. *)
LEMMA StringEndLoop ==
  ASSUME Len(text) \in Nat, size \in {Len(text), Len(text) + 1}
  PROVE  \A p \in 0 .. Len(text) + 2 :
           StringEnd[p] = IF p \in Stops THEN p ELSE StringEnd[p + Skip[p]]
<1>1. PICK n : n = Len(text) + 2
  OBVIOUS
<1>2. PICK f : f = [p \in 0 .. n |-> IF p \in Stops THEN p ELSE f[p + Skip[p]]]
  <2>1. PICK base : base = [p \in 0 .. n |-> p]
    OBVIOUS
  <2>2. n \in Nat /\ \A p \in 0 .. n : p \notin Stops => Skip[p] \in 1 .. n - p
    BY <1>1, SkipStays
  <2>3. PICK f : Scans(n, Stops, Skip, base, FALSE, 0, f)
    BY <2>2, ScanExists
  <2>4. f = [p \in 0 .. n |-> IF p \in Stops THEN base[p] ELSE f[p + Skip[p]]]
    BY <2>3 DEF Scans
  <2> QED BY <2>1, <2>4
<1> DEFINE V(g, p) == CASE p >= size \/ At(p) = Quote -> p
                        [] p < size /\ At(p) = "\\"   -> g[p + 2]
                        [] OTHER                      -> g[p + 1]
<1>3. \A g : \A p \in 0 .. n : V(g, p) = IF p \in Stops THEN p ELSE g[p + Skip[p]]
  <2>1. ASSUME NEW p \in 0 .. n PROVE p \in Stops <=> p >= size \/ At(p) = Quote
    BY <1>1 DEF Stops
  <2>2. ASSUME NEW p \in 0 .. n PROVE Skip[p] = IF At(p) = "\\" THEN 2 ELSE 1
    BY <1>1 DEF Skip
  <2>3. ASSUME NEW g, NEW p \in 0 .. n
        PROVE  V(g, p) = IF p \in Stops THEN p ELSE g[p + Skip[p]]
    <3>1. CASE p >= size \/ At(p) = Quote
      <4>1. p \in Stops
        BY <2>1, <3>1
      <4>2. ~(p < size /\ At(p) = "\\")
        <5>1. p >= size => ~(p < size)
          BY <1>1
        <5>2. Quote # "\\"
          BY DEF Quote
        <5> QED BY <3>1, <5>1, <5>2
      <4>3. V(g, p) = p
        BY <3>1, <4>2
      <4> HIDE DEF V
      <4> QED BY <4>1, <4>3
    <3>2. CASE ~(p >= size \/ At(p) = Quote) /\ At(p) = "\\"
      <4>1. p < size /\ p \notin Stops /\ Skip[p] = 2
        BY <1>1, <2>1, <2>2, <3>2
      <4>2. V(g, p) = g[p + 2]
        BY <3>2, <4>1
      <4> HIDE DEF V
      <4> QED BY <4>1, <4>2
    <3>3. CASE ~(p >= size \/ At(p) = Quote) /\ At(p) # "\\"
      <4>1. p \notin Stops /\ Skip[p] = 1
        BY <1>1, <2>1, <2>2, <3>3
      <4>2. V(g, p) = g[p + 1]
        BY <3>3
      <4> HIDE DEF V
      <4> QED BY <4>1, <4>2
    <3> QED BY <3>1, <3>2, <3>3
  <2> HIDE DEF V
  <2> QED BY <2>3
<1>4. f = [p \in 0 .. n |-> V(f, p)]
  <2> HIDE DEF V
  <2> QED BY <1>2, <1>3
<1>5. StringEnd = CHOOSE g : g = [p \in 0 .. n |-> V(g, p)]
  BY <1>1, Zenon DEF StringEnd
<1>6. StringEnd = [p \in 0 .. n |-> V(StringEnd, p)]
  <2> HIDE DEF V
  <2> QED BY <1>4, <1>5, Zenon
<1> HIDE DEF V
<1> QED BY <1>1, <1>3, <1>6

(* The loop of write_str_formatted. *)
LEMMA WrittenLoop ==
  ASSUME Len(text) \in Nat, size \in {Len(text), Len(text) + 1}
  PROVE  \A p \in 0 .. Len(text) + 2 :
           Written[p] = IF p \in Stops THEN 0 ELSE 1 + Written[p + Skip[p]]
<1>1. PICK n : n = Len(text) + 2
  OBVIOUS
<1>2. PICK f : f = [p \in 0 .. n |-> IF p \in Stops THEN 0 ELSE 1 + f[p + Skip[p]]]
  <2>1. PICK base : base = [p \in 0 .. n |-> 0]
    OBVIOUS
  <2>2. n \in Nat /\ \A p \in 0 .. n : p \notin Stops => Skip[p] \in 1 .. n - p
    BY <1>1, SkipStays
  <2>3. PICK f : Scans(n, Stops, Skip, base, TRUE, 0, f)
    BY <2>2, ScanExists
  <2>4. f = [p \in 0 .. n |-> IF p \in Stops THEN base[p] ELSE 1 + f[p + Skip[p]]]
    BY <2>3 DEF Scans
  <2> QED BY <2>1, <2>4
<1> DEFINE V(g, p) == CASE p >= size \/ At(p) = Quote -> 0
                        [] p < size /\ At(p) = "\\"   -> 1 + g[p + 2]
                        [] OTHER                      -> 1 + g[p + 1]
<1>3. \A g : \A p \in 0 .. n : V(g, p) = IF p \in Stops THEN 0 ELSE 1 + g[p + Skip[p]]
  <2>1. ASSUME NEW p \in 0 .. n PROVE p \in Stops <=> p >= size \/ At(p) = Quote
    BY <1>1 DEF Stops
  <2>2. ASSUME NEW p \in 0 .. n PROVE Skip[p] = IF At(p) = "\\" THEN 2 ELSE 1
    BY <1>1 DEF Skip
  <2>3. ASSUME NEW g, NEW p \in 0 .. n
        PROVE  V(g, p) = IF p \in Stops THEN 0 ELSE 1 + g[p + Skip[p]]
    <3>1. CASE p >= size \/ At(p) = Quote
      <4>1. p \in Stops
        BY <2>1, <3>1
      <4>2. ~(p < size /\ At(p) = "\\")
        <5>1. p >= size => ~(p < size)
          BY <1>1
        <5>2. Quote # "\\"
          BY DEF Quote
        <5> QED BY <3>1, <5>1, <5>2
      <4>3. V(g, p) = 0
        BY <3>1, <4>2
      <4> HIDE DEF V
      <4> QED BY <4>1, <4>3
    <3>2. CASE ~(p >= size \/ At(p) = Quote) /\ At(p) = "\\"
      <4>1. p < size /\ p \notin Stops /\ Skip[p] = 2
        BY <1>1, <2>1, <2>2, <3>2
      <4>2. V(g, p) = 1 + g[p + 2]
        BY <3>2, <4>1
      <4> HIDE DEF V
      <4> QED BY <4>1, <4>2
    <3>3. CASE ~(p >= size \/ At(p) = Quote) /\ At(p) # "\\"
      <4>1. p \notin Stops /\ Skip[p] = 1
        BY <1>1, <2>1, <2>2, <3>3
      <4>2. V(g, p) = 1 + g[p + 1]
        BY <3>3
      <4> HIDE DEF V
      <4> QED BY <4>1, <4>2
    <3> QED BY <3>1, <3>2, <3>3
  <2> HIDE DEF V
  <2> QED BY <2>3
<1>4. f = [p \in 0 .. n |-> V(f, p)]
  <2> HIDE DEF V
  <2> QED BY <1>2, <1>3
<1>5. Written = CHOOSE g : g = [p \in 0 .. n |-> V(g, p)]
  BY <1>1, Zenon DEF Written
<1>6. Written = [p \in 0 .. n |-> V(Written, p)]
  <2> HIDE DEF V
  <2> QED BY <1>4, <1>5, Zenon
<1> HIDE DEF V
<1> QED BY <1>1, <1>3, <1>6

(* No more characters are written than measured: a position nearest to the *)
(* end where they were would have one behind it.                           *)
LEMMA WrittenIsMeasured ==
  ASSUME Len(text) \in Nat, size \in {Len(text), Len(text) + 1}
  PROVE  \A p \in 0 .. Len(text) + 2 :
           Written[p] \in Nat /\ StringEnd[p] \in Nat /\ p + Written[p] <= StringEnd[p]
<1> DEFINE Fits(p) == Written[p] \in Nat /\ StringEnd[p] \in Nat /\ p + Written[p] <= StringEnd[p]
           T       == {j \in Nat : \E p \in 0 .. Len(text) + 2 : p + j = Len(text) + 2 /\ ~Fits(p)}
<1>1. ASSUME T # {} PROVE FALSE
  <2>1. PICK j \in T : \A i \in T : j <= i
    BY <1>1, LeastElement
  <2>2. PICK p \in 0 .. Len(text) + 2 : p + j = Len(text) + 2 /\ ~Fits(p)
    BY <2>1
  <2>3. CASE p \in Stops
    BY <2>2, <2>3, StringEndLoop, WrittenLoop
  <2>4. CASE p \notin Stops
    <3>1. PICK q : q = p + Skip[p]
      OBVIOUS
    <3>2. q \in 0 .. Len(text) + 2 /\ q > p
      BY <2>4, <3>1, SkipStays
    <3>3. Written[p] = 1 + Written[q] /\ StringEnd[p] = StringEnd[q]
      BY <2>4, <3>1, StringEndLoop, WrittenLoop
    <3>4. Fits(q)
      <4>1. PICK i : i = Len(text) + 2 - q
        OBVIOUS
      <4>2. i \in Nat /\ q + i = Len(text) + 2 /\ ~(j <= i)
        BY <2>2, <3>2, <4>1
      <4>3. i \notin T
        <5> HIDE DEF T
        <5> QED BY <2>1, <4>2
      <4> HIDE DEF Fits
      <4> QED BY <3>2, <4>2, <4>3
    <3> QED BY <2>2, <3>2, <3>3, <3>4
  <2> QED BY <2>3, <2>4
<1>2. ASSUME NEW p \in 0 .. Len(text) + 2 PROVE Fits(p)
  <2>1. PICK j : j = Len(text) + 2 - p
    OBVIOUS
  <2>2. j \in Nat /\ p + j = Len(text) + 2
    BY <2>1
  <2>3. j \notin T
    BY <1>1
  <2> HIDE DEF Fits
  <2> QED BY <2>2, <2>3
<1> QED BY <1>2

(* The copy of a string stops inside the buffer that was measured for it,  *)
(* with room for the final NUL, for every text.                            *)
THEOREM LexerStrings == LexerSpec => []StringFits
<1>1. ReaderInv => StringFits
  <2> SUFFICES ASSUME ReaderInv, Lexing({Quote}) PROVE Written[Here + 1] < StringBuffer(Here)
    BY DEF StringFits
  <2>1. Looking /\ Len(text) \in Nat /\ size \in {Len(text), Len(text) + 1}
    BY DEF Lexing, ReaderInv
  <2>2. Here \in 0 .. Len(text)
    BY <2>1, LooksInText
  <2>3. Here + 1 \in 0 .. Len(text) + 2
    BY <2>1, <2>2
  <2>4. /\ Written[Here + 1] \in Nat /\ StringEnd[Here + 1] \in Nat
        /\ Here + 1 + Written[Here + 1] <= StringEnd[Here + 1]
    BY <2>1, <2>3, WrittenIsMeasured
  <2> QED BY <2>2, <2>4 DEF StringBuffer
<1> QED BY <1>1, ReaderInitial, ReaderInductive, PTL DEF LexerSpec
=============================================================================
