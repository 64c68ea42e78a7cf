---------------------------- MODULE DulCompiler ----------------------------
(***************************************************************************)
(* The whole program: astparse_file hands a text to the lexer and its      *)
(* lexems to the parser, astparse_text runs the optimizer, the type pass   *)
(* and the count of the places over the tree, generate_code_from_source    *)
(* adds the code generator and prints its operations, and a machine        *)
(* executes them.  The arrays of DulArrays grow with the sequences that    *)
(* the passes build.                                                       *)
(***************************************************************************)
EXTENDS DulParser, DulOptimizer, DulRegisters, DulMachine, DulArrays

CONSTANTS
  Programs,   \* sequences of words: a lexem, and the characters that spell it
  Code,       \* the byte of a character
  PrintRoom,  \* the letters of a name for which a buffer of print_operation
              \* has room: 25
  InitialCapacity, MaxCapacity, Precision    \* of DulLexer

ASSUME PrintRoomAssumption == PrintRoom \in 0 .. NameRoom

VARIABLES
  words,      (* history: the lexems of the program that the text spells   *)
  text, size, reader, lexemcap,   (* of DulLexer                           *)
  tokens,     (* the array of lexems of DulLexer                           *)
  phase,      (* the call of astparse_text, generate_code_from_source or   *)
              (* main that is running                                      *)
  source,     (* history: the trees of the statements as they were parsed  *)
  bounds      (* history: how many operations the code generator had       *)
              (* written when it left statement 1, 2, ...                  *)

Lexer == INSTANCE DulLexer WITH lexems <- tokens, Texts <- {}

textVars     == <<words, text, size, reader, lexemcap, tokens>>
walkerVars   == <<lexems, currlexem, frames, ctl>>
passVars     == <<unfolded, untyped, layout, place_needed, codeVars>>
historyVars  == <<source, bounds>>
compilerVars == <<astVars, textVars, walkerVars, passVars, machineVars, arrayVars,
                  phase, historyVars>>

(* astparse_file tells the lexer the size without the NUL: a last word of  *)
(* one character, spelled right behind the word before, is not read.       *)
WordsRead(p) ==
  [i \in 1 .. IF p # <<>> /\ Len(Last(p).chars) = 1 THEN Len(p) - 1 ELSE Len(p) |-> p[i].lexem]

CompilerInit ==
  /\ \E p \in Programs : /\ words = WordsRead(p)
                         /\ text = FlattenSeq([i \in DOMAIN p |-> p[i].chars])
  /\ size = Len(text) /\ Lexer!Unread
  /\ heap = <<>> /\ root = <<>>
  /\ lexems = <<>> /\ currlexem = 0 /\ frames = <<>> /\ ctl = Enter("text")
  /\ unfolded = <<>> /\ untyped = <<>> /\ layout = <<>> /\ place_needed = <<>>
  /\ unloaded = <<>> /\ place = <<>> /\ ops = <<>> /\ statics = <<>>
  /\ current_stack_offset = 0
  /\ next_op = 1 /\ memory = <<>> /\ out = <<>>
  /\ ArraysInit
  /\ phase = "lex" /\ source = <<>> /\ bounds = <<>>

(***************************************************************************)
(* What the value of a lexem holds: the bytes of a name, the int64_t or    *)
(* the double of a literal.                                                *)
(***************************************************************************)
Bytes(chars) == [i \in DOMAIN chars |-> Code[chars[i]]]

LexemOf(token) ==
  CASE token.type = "IDENTIFIER"    -> Lexem(token.type, <<"id", Bytes(token.value)>>)
    [] token.type = "NUMINTLITERAL" -> Lexem(token.type, <<"int", token.value>>)
    [] token.type = "NUMLITERAL"    -> Lexem(token.type, <<"lit", token.value>>)
    [] token.type = "SPECIAL"       -> Special(token.value)
    [] OTHER                        -> Lexem(token.type, NoVal)

(***************************************************************************)
(* The passes.                                                             *)
(***************************************************************************)
(* The next call starts when the list of the nodes to visit is empty. *)
In(p)     == fault = "none" /\ phase = p
Then(p, q) == In(p) /\ phase' = q

ReadText ==
  /\ In("lex") /\ Lexer!LexerStep
  /\ UNCHANGED <<words, heap, root, walkerVars, passVars, machineVars, phase, historyVars>>

(* lexem_walker is set up over the array that parse_text returns. *)
HandOver ==
  /\ Then("lex", "parse") /\ Lexer!Lexed
  /\ lexems' = [i \in DOMAIN tokens |-> LexemOf(tokens[i])]
  /\ UNCHANGED <<astVars, textVars, currlexem, frames, ctl, passVars, machineVars, historyVars>>

Parse ==
  /\ In("parse") /\ ParserStep
  /\ UNCHANGED <<textVars, passVars, machineVars, phase, historyVars>>

StartOptimizer ==
  /\ Then("parse", "optimize") /\ Parsed
  /\ OptimizerStart
  /\ source' = [i \in DOMAIN root |-> TreeOf[root[i]]]
  /\ UNCHANGED <<astVars, textVars, walkerVars, untyped, layout, place_needed, codeVars,
                 machineVars, bounds>>

Optimize ==
  /\ In("optimize") /\ OptimizerStep
  /\ UNCHANGED <<textVars, walkerVars, untyped, layout, place_needed, codeVars, machineVars,
                 phase, historyVars>>

(* prepare_table, then generate_types. *)
StartTypes ==
  /\ Then("optimize", "types") /\ unfolded = <<>>
  /\ layout' = <<>> /\ TypesStart
  /\ UNCHANGED <<astVars, textVars, walkerVars, unfolded, place_needed, codeVars, machineVars,
                 historyVars>>

InferTypes ==
  /\ In("types") /\ TypesStep
  /\ UNCHANGED <<textVars, walkerVars, unfolded, place_needed, codeVars, machineVars, phase,
                 historyVars>>

CountPlaces ==
  /\ Then("types", "count") /\ untyped = <<>>
  /\ CountRegisters
  /\ UNCHANGED <<astVars, textVars, walkerVars, unfolded, untyped, layout, codeVars, machineVars,
                 historyVars>>

StartCodegen ==
  /\ Then("count", "codegen")
  /\ CodegenStart
  /\ UNCHANGED <<astVars, textVars, walkerVars, unfolded, untyped, layout, place_needed,
                 machineVars, historyVars>>

GenerateCode ==
  /\ In("codegen") /\ CodegenStep
  /\ bounds' = IF Head(unloaded) \in Range(root) THEN Append(bounds, Len(ops'))
                                                 ELSE bounds
  /\ UNCHANGED <<textVars, walkerVars, unfolded, untyped, place_needed, machineVars, phase,
                 source>>

(* The printer takes the operand of a cast_to_float_m for an address, and  *)
(* writes "(var:", a name and ")" to a buffer of 32 bytes.  A place behind *)
(* the variables always fits: it is printed as a number.                   *)
Unprintable(op) ==
  \/ op.opcode = cast_to_float_m
  \/ \E i \in DOMAIN layout : /\ FieldSize * (i - 1) \in SlotsPrinted(op)
                              /\ Len(layout[i].name[2]) > PrintRoom

PrintCode ==
  /\ In("codegen") /\ unloaded = <<>>
  /\ IF \E i \in DOMAIN ops : Unprintable(ops[i])
       THEN fault' = "undefined" /\ UNCHANGED <<phase, machineVars>>
       ELSE phase' = "run" /\ MachineStart /\ UNCHANGED fault
  /\ UNCHANGED <<heap, root, textVars, walkerVars, passVars, historyVars>>

Run ==
  /\ In("run") /\ MachineStep
  /\ UNCHANGED <<heap, root, textVars, walkerVars, passVars, phase, historyVars>>

Stop ==
  /\ Then("run", "done") /\ next_op > Len(ops)
  /\ UNCHANGED <<astVars, textVars, walkerVars, passVars, machineVars, historyVars>>

(* ast_add_child, add_entry_to_layout_type, write_op and add_static find    *)
(* the room for what a step adds to a sequence.                            *)
Longer(new, old) == Len(new) = Len(old) + 1
ArraysGrow ==
  /\ IF Longer(root', root)       THEN GrowChildren ELSE UNCHANGED childArray
  /\ IF Longer(layout', layout)   THEN GrowFields   ELSE UNCHANGED fieldArray
  /\ IF Longer(ops', ops)         THEN GrowOps      ELSE UNCHANGED opArray
  /\ IF Longer(statics', statics) THEN GrowStatics  ELSE UNCHANGED staticArray

CompilerStep ==
  /\ \/ ReadText \/ HandOver \/ Parse \/ StartOptimizer \/ Optimize \/ StartTypes
     \/ InferTypes \/ CountPlaces \/ StartCodegen \/ GenerateCode \/ PrintCode \/ Run \/ Stop
  /\ ArraysGrow

CompilerDone == (fault # "none" \/ phase = "done") /\ UNCHANGED compilerVars

CompilerNext == CompilerStep \/ CompilerDone

(* One thread that nothing suspends. *)
CompilerSpec ==
  CompilerInit /\ [][CompilerNext]_compilerVars /\ WF_compilerVars(CompilerStep)

(***************************************************************************)
(* Properties.                                                             *)
(***************************************************************************)
OpsOfStatement(k) == (IF k = 1 THEN 1 ELSE bounds[k - 1] + 1) .. bounds[k]

(* The nodes the type pass and the code generator reach. *)
Reached == Range(LeaveOrder(Visited))

(* What the code generator assumes of the tree (bytecodegen.c:58, 61, 68): *)
(* every node has a type, both operands of an operation have the type of   *)
(* the operation, INT operands of a FLOAT operation under a cast that      *)
(* nothing else gets, a literal has the type of its val, a name that of    *)
(* its variable, and no operation on two literals is left.                 *)
WellTyped(n) ==
  LET node    == heap[n]
      type(i) == heap[node.kids[i]].node_type
  IN  /\ node.node_type \in {"INT", "FLOAT"}
      /\ node.type \in Arithmetic =>
           ~Foldable(n) /\ type(1) = node.node_type /\ type(2) = node.node_type
      /\ node.type = "CAST_TO_FLOAT" => type(1) = "INT" /\ node.node_type = "FLOAT"
      /\ node.type \in Literals => node.node_type = FamilyOf(node.val)
      /\ node.type = "NAME" => node.node_type = get_field_type(node.val)

TypedTree ==
  In("types") \/ In("codegen") =>
    \A n \in Reached : n \in Range(untyped) \/ WellTyped(n)

(* Eight bytes of the frame behind the variables hold one intermediate     *)
(* result: one operation writes them, one later operation reads them, and  *)
(* they lie below current_stack_offset, which counts the bytes of the      *)
(* frame that the code needs.                                              *)
Temporaries ==
  LET isTemporary(t) == t >= LayoutSize
      writers(t) == {i \in DOMAIN ops : ~Writes(ops[i]) /\ ops[i].dest_arg = t}
  IN  phase \in {"codegen", "run"} =>
        \A i \in DOMAIN ops : \A t \in {s \in SlotsRead(ops[i]) : isTemporary(s)} :
          /\ t < current_stack_offset
          /\ \E w \in 1 .. i - 1 : writers(t) = {w}
          /\ \A j \in 1 .. i - 1 : t \notin SlotsRead(ops[j])

(* The count is enough: between two operations of a write or of a bare     *)
(* statement, no more bytes of the frame hold results that are still to be *)
(* read than count_register_count noted for it, before there was any code, *)
(* although it looks below no cast.                                        *)
PlaceEnough ==
  LET live(i) == {t \in UNION {SlotsRead(ops[j]) : j \in i + 1 .. Len(ops)} :
                    /\ t >= LayoutSize
                    /\ \E w \in 1 .. i : ~Writes(ops[w]) /\ ops[w].dest_arg = t}
  IN  phase = "run" /\ next_op = 1 =>
        \A k \in {s \in DOMAIN root : heap[root[s]].type # "ASSIGN"} :
          \A i \in OpsOfStatement(k) :
            FieldSize * Cardinality(live(i)) <= place_needed[root[k]]

(* An opcode that takes an immediate operand finds it inside the statics:  *)
(* eight bytes of its own type, which no other operation uses.  (A static  *)
(* of a bare literal is used by none.)                                     *)
Immediates ==
  \A i \in DOMAIN ops : \A s \in StaticsRead(ops[i]) :
    /\ s \div FieldSize < Len(statics)
    /\ FamilyOf(Static(s)) = StaticType(ops[i].opcode)
    /\ \A j \in 1 .. i - 1 : s \notin StaticsRead(ops[j])

(* bytecodegen.c:161: "assume that types are properly casted".  The value  *)
(* of an assignment would have the type of the variable.                   *)
AssignmentsTyped ==
  In("codegen") =>
    \A s \in Range(root) : heap[s].type = "ASSIGN" =>
      heap[s].node_type = get_field_type(NameOf(heap[s].kids[1]))

(* "grammar 2.0.md":6: <statement> ::== <name> "=" <expr>.  Every          *)
(* assignment would leave an operation that stores into its variable.      *)
AssignmentsStore ==
  phase = "run" =>
    \A k \in DOMAIN root : heap[root[k]].type = "ASSIGN" =>
      \E i \in OpsOfStatement(k) :
        ops[i].dest_arg = layout_count_offset(NameOf(heap[root[k]].kids[1]))

(* bytecodegen.h:17: "m suffix stands for immediate value".  The operand   *)
(* of every opcode with the suffix would be printed, and none dereferenced *)
(* as an address.                                                          *)
ImmediatesPrinted == phase = "codegen" => fault = "none"
=============================================================================
