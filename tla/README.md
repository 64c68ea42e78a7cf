# A verification development for the Dulang compiler

Dulang compiles a small language of assignments and `write` statements over
INT and FLOAT variables.  The program is one thread: `main` calls
`generate_code_from_source`, which lexes, parses, folds, types and translates
the text to operations of an intermediate code, prints them, and hands two of
the opcodes to a translator to machine code, which `main` runs.  The modules in
this directory model the compiler from the characters of a text to the
execution of the operations, and the translator from the operations to the
execution of its instructions.  All paths below are under `src/Dulang/`.

## 1. Inventory

| component | source | state it keeps | operations | how it meets the others |
|---|---|---|---|---|
| lexer | `compiler/lexer.c`, `.h` | reader, array of lexems | `parse_text`, `getLexem`, `scan_string`, `add_lexem`; numbers through `strtod` | its array is the parser's input |
| parser | `compiler/asteasy.c`, `astwork.c`, `astgen.h` | iterator, C stack, heap of nodes, children of the root | `astparse_text`, `_stat`, `_plus`, `_mult`, `_topl`, `astnode_new`, `ast_add_child` | builds the tree that every later pass changes in place |
| optimizer | `compiler/optimizer.c` | the tree | `optimize_statics_math`, `destroy_astnode` | frees nodes the later passes must not see |
| register counting | `compiler/asteasy.c` | `place_needed` of the nodes | `count_register_count` | counts what the code generator will use, which never looks at it |
| types | `compiler/asttype_pred.c` | `node_type` of the nodes | `prepare_table`, `generate_types` | inserts casts, fills the layout |
| layout | `objects/type.c` | fields: name, type | `add_entry_to_layout_type`, `contains_entry`, `get_field_type`, `layout_count_offset` | gives the variables their place in the frame |
| code generator | `compiler/bytecodegen.c` | operations, statics, `current_stack_offset` | `new_code`, `dest_preview_load`, `write_op`, `add_static`, `print_code` | turns places into arguments of operations |
| native translator | `Native/macOS/asmexamples.c`, `main.c` | a buffer of machine code; registers, stack and frame when it runs | `create_writer`, `write_mem`, `write_vm_code`, `write_vm_instr`, `generate_from_writer` | reads the operations, runs them on the statics and a 1024-byte frame |
| growing arrays | six arrays in five files | count, capacity, memory | grow and append | one hand-written copy in each component |

Not part of the program that is built, or without state: `astgen.c` (an older
parser; no target names it), `JIT/`, `asmwriter.c` and `byctoasm.c` (empty),
`compilerr.c` and `process_filename.c` (messages no modelled pass asks for),
`asttest.c` and the printers (output), `include/*.h` (declarations of a runtime
that is not there), `runtimeEnv/func_wrappers.c` (one `printf`).  The `Makefile`
names files that do not exist; the Xcode project is what builds.

**What is hard here.**  Nothing runs concurrently and nothing is persisted, so
the difficulty is in sequences: six passes over one mutable tree, each relying
on a shape the one before it leaves behind; recursion that returns `NULL`
halfway through a statement; arrays that grow on five different tests; places
that are small numbers whose meaning (static, variable, intermediate result)
lies only in the opcode; machine code put together from pieces that must fit.
The fixtures under `tests/` compare nothing by themselves.

**What makes each component correct.**

* Lexer: it stays in the text, in the buffer of a string and in its array; it
  cuts no word in two; it reaches the end.
* Parser: every tree has the shape precedence gives and the children the
  later passes index without a test; every node has one owner; a program is
  refused exactly where the grammar ends.
* Optimizer: what it folds is what the program would have computed; what it
  frees nobody reaches.
* Types: both operands of an operation have its type, with a cast where one is
  INT and the other FLOAT.
* Code generator: an intermediate result is written once, read once, and lies in the
  frame; an immediate is read with its own type by one operation.
* Register counting: the places it counts are as many as the code keeps in use.
* Native translator: the code lies in its buffer, stores what the operations
  say, stays in the memory it was given, and returns to its caller.
* The whole: executing the operations assigns and writes what the text says.

## 2. Modules

| module | models | notes |
|---|---|---|
| `DulNumber` | `lexer.c:151-163`, `strtod` (external) | from the characters of a literal to its double, and to an `int64_t` if the double is one; exact numbers, a significand of `Precision` bits |
| `DulLexer` | `lexer.c` | one action per kind of lexem: one turn of `parse_text`; the first array is granted or refused |
| `DulAst` | the nodes of `astgen.h`, `astwork.c` | a node is an index into `heap`; `NULL` is 0; freed nodes stay as `FREED` |
| `DulArith` | values and operators | an int is a number that wraps at `IntMax`; a computed double is the *term* of the literals and operations that made it, so folding and executing can be compared without rounding |
| `DulParser` | `asteasy.c` | the C stack is `frames`; `ctl` says what runs now; one action per step of a function |
| `DulGrammar` | abstract | the statement and the tree at a position, by precedence, without stack or heap |
| `DulOptimizer` | `optimizer.c` | the post-order is a list of nodes, `unfolded` |
| `DulTypes` | `asttype_pred.c`, `type.c` | `untyped` is the list of nodes still to leave, `layout` the fields |
| `DulRegisters` | `count_register_count` | one function of the tree; below a cast or an assignment, where the code does not look, it goes on counting, and only the tree printer would tell |
| `DulIR` | `bytecodegen.h` | the operations, without state: opcodes, what each reads and writes |
| `DulCodegen` | `bytecodegen.c` | `unloaded` the list of nodes, `place` what each call returned, then operations and statics |
| `DulMachine` | opcodes (external) | the repository translates two of 32 opcodes; the others mean what their names and the printer say |
| `DulCompiler` | `astparse_file`, `astparse_text`, `generate_code_from_source` | lexer, passes and machine in order, the arrays growing along; one variable `phase` |
| `DulSource` | abstract | the language on the statements of a program |
| `DulLanguage` | refinement | the compiler implements `DulSource` |
| `DulArrays` | four of the six growing arrays | count, capacity, and bytes of the last `realloc`; the array of lexems is in `DulLexer`, the buffer of machine code in `DulNative` |
| `DulNative` | `asmexamples.c`, `main.c` | the writer, one `write_mem` per step, and a processor, one instruction per step |
| `DulParserProofs`, `DulWalkProofs`, `DulGrammarProofs`, `DulPassProofs`, `DulCompilerProofs`, `DulPlaceProofs`, `DulLexerProofs`, `DulNativeProofs` | proofs | see section 5; `DulGrammarProofs` and `DulPassProofs` each rest on the first two, `DulCompilerProofs` on `DulPassProofs`, `DulPlaceProofs` on `DulCompilerProofs` |
| `MCParser`, `MCCompiler`, `MCLexer`, `MCNative` | inputs for TLC | alphabets, menus and bounds |

`DulLexer` extends `DulNumber`.  `DulCompiler` extends parser, optimizer, register counting and (through
`DulMachine`, `DulCodegen`, `DulTypes`) the rest, which share `heap`, `root` and
`fault` of `DulAst`; it extends `DulArrays`, whose arrays grow in the step that
lengthens their sequence, and instantiates `DulLexer`, whose array of lexems
becomes the parser's stream when the text is read (`HandOver`).  `DulNative`
shares `DulIR` with the code generator and takes any sequence of operations.
`DulSource` extends `DulGrammar`: the language starts with reading.
The two `RECURSIVE` operators of the development are in `DulSource`; only
`DulLanguage` and `MCCompiler` reach them, so that everything else can be
proved about.

How state and actions correspond to the code, where it is not one to one:

* **Call stack.**  An action runs from one call or return of an `astparse_*`
  function to the next.  `frames` holds the locals that survive a call (`left`,
  the node type); `ctl` holds the function being entered or the node being
  returned.  `astparse_expr` and `astparse_unar` only forward and have no frame.
  `astparse_topl` is part of `EnterMult`: it calls nothing.
* **Passes.**  `optimize_statics_math`, `generate_types` and
  `dest_preview_load` work on a node when their recursive calls have returned.
  The list of nodes in that order (`LeaveOrder`) stands for the recursion; each
  action leaves its head.  An assignment's target is not visited by the last
  two, and a literal on its right not by the last.
* **Destination parameter.**  `dest_preview_load` passes `dest` down from an
  assignment to its right side only; `AssignmentsOf` and `RealDest` recover it.
* **The ways to die.**  `fault` is set where the code dereferences NULL
  (`ast_add_child` of a NULL statement, `astnode_new` of a NULL expression, a
  field without a type, an array that `realloc` refused), divides by zero
  (`SIGFPE`), or reads memory that nothing wrote or that is none, or runs over
  the end of a buffer (`undefined`); nothing follows.
* **Literals.**  `getLexem` reads a number with `strtod`, into a double, and
  makes it an INT when the double equals its cast to `int64_t`.
  `DulNumber.strtod` computes the nearest double, with ties to the even
  significand, from the digits.  So an integer above 2^53 is rounded
  (`9007199254740993` is the INT `9007199254740992`), a fraction too small for
  the significand disappears (`1.0000000000000000001` is the INT `1`), and from
  2^63 on the literal is a FLOAT.  The cast of such a double is undefined in C; the
  model has what the instruction of x86-64 gives, the least number, since the
  native code is for that processor.
* **Names** are sequences of bytes.  A name is copied over `val[16]` of its node
  (`asteasy.c:181`).  Up to 27 letters
  it meets only padding and the child pointer that no leaf uses; from 28 letters on
  `ast_add_child` writes the parent over its end, and what is read back depends
  on an address.  `NameRoom` is that limit, and reading a longer name is
  `undefined`.  (More than 52 letters also reach `childrencount`, which an
  earlier pass reads; the model has the same fault, one pass later.)  Printing an
  operation writes `(var:`, the name and `)` to 32 bytes (`bytecodegen.c:255`): 26
  letters overrun them.  `PrintRoom`, 25, is that limit, and `PrintCode` is
  `undefined` for an operation that shows a longer name.
* **A literal in the place of a target** names the variable the code takes it
  for: its bytes up to the first zero byte (`CName`).  `97 = 0` assigns
  `a`, and `2.5 = 0` the variable without letters, the lowest byte of that
  double being zero.  An integer without a zero byte is read on into
  bytes that nothing wrote, which is `undefined`.
* **Machine code** is a sequence of instructions written in pieces of so many
  bytes, each marked with the operation it belongs to.  An address is a region
  and an offset; memory holds addresses, which is all that the translated code
  moves.  `Sound` tells whether an instruction touches memory that is there;
  where it does not, and at the bytes of `print_integer` that an `iwrite_` takes
  for code, control is `undefined` and nothing follows.
* **History variables.**  `source` (the trees as parsed) and `bounds` (number of
  operations at the end of each statement) exist for the refinement and are
  read by no action.

Operators with an underscore in their name (`AddStatement_Untested`,
`TakeDest_Unadvanced`, ...) are plausible bugs, kept beside the definition they
would replace.  No specification uses them; substituted for it, each makes the run
that checks its property fail, which shows that the run can.

## 3. What the runs check

Bounds are chosen so that every action of a module fires and the cases in the
right column occur.

| run | bounds | what it shows |
|---|---|---|
| `parser` | all programs of up to 4 lexems over 8; expressions of up to 5 operands in 4 kinds of statement with 4 endings | `TreeShape`: children, precedence and age of nodes.  `CallStack`: nesting of the calls and what each level returns.  `Ownership`: no node has two owners, and after a parse only the node of `if` has none.  `ImplementsGrammar`: the trees, the refusals and the end of reading are those of `DulGrammar` |
| `compiler` | 4 preludes, then up to 2 of 15 statements; limits of a 16-bit integer, then 2 of 3 statements that overflow it; 2 of 8 statements with literals that a significand of 12 bits rounds; 2 of 7 statements with names that begin alike, or are too long to print (`PrintRoom` 2) or to keep (`NameRoom` 3); ends of file with and without newline; arrays of 1 or 2 elements | `NoUseAfterFree`, `TypedTree`, `Temporaries`, `Immediates`, `PlaceEnough` along the passes; `ArraysFit`: fields, operations and statics lie in their arrays; `ImplementsLanguage`: from the characters of the text on, the behaviour is one of `DulSource`, up to its end |
| `lexer` | all texts of up to 3 of 13 characters and 70 longer ones; an array of 2 lexems that may grow to 8, or is refused | buffers, array, whole words, and that a text of known characters is lexed to its end |
| `native` | all sequences of up to 3 of 14 operations: stores with offsets on both sides of 128 and 256, twice into a slot, a write, an opcode without translation; a buffer of 16 bytes, so that every piece may have to grow it | `CodeFits`: the code lies in its buffer.  `NativeStores`: what the operations store is in the frame, in their order, and nothing else.  `StaysInside`: the code goes wrong only at a write or at an offset that its byte cannot hold.  `NativeTypeOK`: what is run ends with the return |

Four lexems are enough for every return path of the parser (a missing left
operand, right operand, value, terminator); five operands make every mixture of
sums and products that nests on both sides.  Two statements after a prelude
let one statement define what the other uses, for each pair; the preludes give
the variables each type, and a zero for the division that fails at run time.
Array capacities are far below the program's (1000, 15, 100, 1024): the tests
compare only count and capacity, so the case that matters is growth from full, which
happens after two elements here.  An `int64_t` of 16 bits and a significand
of 12 stand to each other as 64 and 53 do, the second smaller: sums and
products of two literals wrap, the least number divided by -1 traps, a literal
between 2^12 and 2^15 is rounded up, down or to the even neighbour, its fraction
rounds away, and the largest number, rounded up, is no `int64_t` any more and
becomes a FLOAT.  The lexems that the words of these programs should give are
written down with their doubles in `MCCompiler`, not computed by
`DulNumber`.  Three operations are enough for a store
between two others, and for a slot that is written again with something in
between.  `MaxCapacity` is the size from which
`realloc` fails: an endless lexer comes to it.

Constants that only bound a model: `MaxLexems`, `MaxOperands` (`MCParser`),
`MaxStatements` (`MCCompiler`), `MaxLength` (`MCLexer`), `MaxElements`
(`DulArrays`), `MaxCapacity` (`DulLexer`).

**Fairness.**  `WF(ParserStep)`, `WF(LexerStep)`, `WF(CompilerStep)`: one
thread that no lock, input or callback suspends keeps executing.  `DulArrays`
and `DulNative` have none, and state nothing that must happen; the arrays by themselves
may stop growing, so `many_statements` does not check for deadlock.

**What `DulSource` does not promise.**  The code has no error path for the
following, and what it does with them is not a meaning of the program: the
status is then `unspecified`.  A name longer than `PrintRoom` (the `NameRoom` of
`DulSource`); a target that is no name; a variable assigned
another type than its first; the copy of a variable; an operation with a FLOAT
operand known at run time and a constant INT operand.  Each is a place where
the code departs from a document (below) or says "TODO" or "assume"; the
models still follow the code through them, and only the promise stops.  A
literal means, in `DulSource` too, the double nearest to its characters: the
promise for `write 9007199254740993` is `9007199254740992`.

## 4. Where code and documents disagree

Each has a run whose property states the document, and which TLC violates.

| run | document | code |
|---|---|---|
| `right_grouping` | `grammar 2.0.md:8`, the right operand of a product is a `<top>` | it is a product: `8/4/2` is `8/(4/2)` |
| `retyped_variable` | `bytecodegen.c:161`, "types are properly casted" | `a = 7`, `a = 2.5` stores a double in an INT |
| `lost_copy` | `grammar 2.0.md:6`, `<name> "=" <expr>` | `b = a` generates no operation |
| `printed_immediate` | `bytecodegen.h:17`, "m suffix stands for immediate value" | `cast_to_float_m` prints through its offset as a pointer |
| `split_string` | `lexer_test_somecode.dul:13`, `String[ "display" ]` | the string ends behind its first character |
| `tab_loop` | `lexer.c:190`, tabs are ignored | a tab is lexed for ever |
| `many_statements` | `formal_grammatics.md:13`, any number of statements | `realloc` of the children forgets the size of a pointer |
| `native_return` | `asmexamples.h:27`, the code is a function that `main.c:70` calls | the footer is `ret` alone: it takes the argument that the header saved on top of the frame for its return address |

Seen while modelling and not given a run:

* `asteasy.c:77` and `91` say "remove the eol", but the lexem behind a write or
  an assignment is dropped whatever it is: in `write a = b` the `=` disappears
  and `b` starts a statement.  `DulGrammar` says so too.
* `formal_grammatics.md` allows names of any length; from 26 letters on a name
  overruns the buffers of the printer, from 28 on it is torn by the parent pointer of
  its node (see *Names* above).
* `bytecodegen.h:107` says that `current_stack_offset` is set to 0 after each
  statement; it never is, so the frame grows with the program, while
  `main.c:62` allocates 1024 bytes.
* The code of an `iwrite_` (`asmexamples.c:67-81`) adds the offset where it
  should read the slot, copies the first 8 bytes of `print_integer` where its
  address should stand, and ends with `call %rax`, which nothing has loaded.
* `MAX` in `count_register_count` evaluates its larger argument twice, and both
  are recursive calls: the time doubles with every level of a tree.
* The fixture `lexer_test_main.dul:4` expects `Number[ 100.000000 ]` where the
  lexer gives a NUMINTLITERAL that `print_lexems` has no case for; `<=` and `>=`
  are lexed as two lexems, for `lt` and `gt` stand before them; the text `$eol`
  is an end of line.
* A last lexem of one character is not read when it stands directly behind the
  lexem before it (`asteasy.c:67` gives the lexer the size without the NUL that
  `parse_file` counts); with a blank in front it is.  So a bare expression as the last
  line is refused when the file ends in a single newline.

## 5. What is proved

TLAPS proves the following for every value of the constants.

* **Parser** (`DulParserProofs`).  `ParserSpec => []ParserTypeOK`,
  `[]TreeShape` and `[]CallStack`, for every set of finite programs, of any
  length.  None of the three is inductive alone.  A step that finishes an operation
  needs to know that the returned node is a product or an operand, which is
  `CallStack`; `CallStack` needs the types of heap and frames; and `TreeShape`
  of a new node needs the kinds of what the frame below kept.  `ParserInv(V)`,
  their conjunction, is inductive, for any set `V` of values: the compiler,
  whose lexems come from a text and not from `Streams`, uses it with its own.
  The proof has one lemma per action
  (`NextStatementInv` to `RightOperandInv`) over a few common ones: what
  appending to the heap leaves alone (`AllocateShape`, `HeapGrowsFacts`), what
  `LoopTest` leaves on the stack (`LoopTestStack`), and what a frame on top
  says about its position (`TopFrame`).  The clause on the operator behind a returned
  product shows that the `while` of `astparse_mult` never runs twice.
* **Ownership** (`DulParserProofs`).  `ParserSpec => []Ownership`.  The
  property compares pointers one by one; the invariant `OwnInv` says it with sets: the
  children of nodes (`KidSet`), the statements (`StmSet`), the locals of
  suspended calls (`LocSet`) and the result being returned (`ResSet`) are
  disjoint and each is listed once, so that a step only moves a node from one set to
  another (`OwnStep`).  That no node is lost holds only while the
  statement can still succeed: a `NULL` that a call returns or keeps dooms
  the statement (`Doomed`), every call above passes the `NULL` on, and `AddStatement`
  stops at it.  `NoneLost` is therefore claimed of the states that are not doomed.
* **Grammar** (`DulGrammarProofs`).  `ParserSpec => Grammar!GrammarSafety`,
  the safety half of `ImplementsGrammar`: for every set of programs the statements in
  `root` have the trees that precedence gives, the program dies on a null pointer
  only at a statement that the grammar rejects, and the parse ends only where the
  grammar has read everything.  `AddStatement` maps to `ReadStatement`, or to
  `Reject` when the statement is `NULL`; the `FinishWrite` that meets a `NULL`
  maps to `Reject`, the `NextStatement` that finds no lexem to `Accept`; every other
  step is a stutter.  The grammar takes a statement at once,
  from positions, while the parser has gathered it from calls that saw a lexem each.  The
  invariant `GrammarInv` bridges that: `Course` says of the
  suspended calls which lexems the nodes they keep span (`Begins` for the
  statement, `Term` for `astparse_plus`, `Factor` for each `astparse_mult` below
  it), that the rest of the expression ends where the whole one does, and what the
  operand that is read next, or the node that is returned, adds (`AtOperand`,
  `BehindTerm`, `BehindExpr`, `BehindStatement`).  That the trees come out right is
  then `ProductTree` and `SumTree`: the root of a span without a sum is its
  first operator, that of a sum its last additive one.  A call that has failed
  leaves the course; from there on `Doomed`, of the ownership proof, holds until
  the program stops (`DoomedStep`), and the grammar rejects the statement
  from the moment that the course is left (`Stays`).  `ExprLast`, `Tree`,
  `Start` and `TreeOf` are recursive functions; that each satisfies its equation
  (`LastIs`, `TreeIs`, `StartIs`, `TreeOfIs`) is proved by the least rank below which no
  such function would exist.  `TreesGrow`: a node keeps its tree while the heap grows.
* **Walks** (`DulWalkProofs`).  `LeaveOrder`, the order in which the recursive
  passes leave the nodes, is a recursive function over a tree through
  `FlattenSeq`, another one.  `LeaveOrderTour` says what it computes for every
  forest with distinct children: each node that the roots reach once, behind everything
  below it, in front of the one node that visits it, and nothing else.
  Induction theorems with an operator parameter being out of reach, each claim is
  proved by a least counterexample: the set of ranks, or of numbers of
  sequences, where it fails has a least element, and there it cannot fail.  The
  walk of the passes is such a forest because children are older than their
  parents (`WalkTour`).
* **Passes** (`DulPassProofs`).  `CompilerSpec => []NoUseAfterFree` and
  `[]TypedTree`.  The invariant `PassInv` has a part for each pass.  `Reading`
  and `Parsing` carry `ParserInv` and `OwnInv` through lexer and parser, with
  the values that lexems can have.  `Tree` is what every later pass finds:
  statements and children listed once, with the kinds and numbers that the
  pass indexes, a freed node in no list.  `Folding` adds that the walk
  still to come leaves each node once, and its parent behind it (`Ahead`),
  and that a node that could still be folded is on it.  Unique
  ownership enters here: freeing the operands of a folded node would otherwise
  free the child of another.  `Types` says that every typed node has
  `Settled`, with its operands and, for a name, with the layout, and that a node on the
  walk has what it reads typed or in front of it.  Retyping one node
  (`TypeOneKeeps`) and putting a cast between a node and a child (`CastTree`,
  `CastAdvances`) keep both.  The target of an assignment, which is typed
  without being visited, is the exception that `Named` names.  `TypedTree` speaks of what
  the code generator reaches from the roots; a node of that walk without a
  type would have a last one, whose parent had read it.
* **Code generator** (`DulCompilerProofs`).  `CompilerSpec => []Immediates` and
  `[]Temporaries`.  Both speak of finished operations and are not inductive: what keeps
  the next operation from reading a slot twice is in the walk still to come.
  `CodeInv` therefore says where the value of each node that has been left lies:
  a result behind the variables has one operation that wrote it, no two such
  nodes share a slot, and as long as an operation to come loads it (`Pending`),
  none has read it (`SlotsInv`); likewise for the statics of
  literals (`StaticsInv`).  What is to come is the walk, in which each node has
  the places of what it loads, or comes behind it (`Walking`).  The
  destination an assignment hands down is a variable or the fresh offset, which lies above
  all that was read or written (`DestStores`).  That the
  operand of an immediate has the type of its opcode rests on `Settled`, from
  the passes, and on the variants of `configure_spec` (`SpecFits`).
* **Places** (`DulPlaceProofs`).  `CompilerSpec => []PlaceEnough`.  The property
  compares finished code with a count that was taken from the tree before, and the
  count is not the usual one: it takes the larger operand plus eight bytes at
  every operation, and eight bytes for a cast whatever is below it.  Three facts make it
  enough.  (1) *The shape of expressions.*  `PrecInv` says through all passes
  what the parser's precedence implies: the left operand of a product is no
  operation and the right operand of a sum no sum, casts apart.  Below a cast
  everything is INT and uncast, so two results wait there at most, and one
  below a product; that is why the flat eight bytes of a cast, plus those of the
  FLOAT operation it stands in, do not fall short (`Fits`, `FitsAboveTwo`).
  (2) *The walk.*  What waits at a point of the walk are the nodes with a
  result that have been left and whose visitor has not (`Open`).  In the walk of a
  node these are those of one child's walk, with the first child or without it, or the
  children themselves (`OpenAboveOne`, `OpenAboveTwo`), so the numbers that fit
  the children fit the node; a least rank where they did not is impossible
  (`AllFit`).  The statements follow one another, and nothing waits between them
  (`PlanExists`).  (3) *The code.*  The slots that hold a result still to be read are
  places of such nodes (`LiveOpen`); one more operation makes none of the
  earlier moments worse, for what it reads was waiting already (`LiveShrinks`).
  `PlaceInv` ties the three together at a position of the walk
  (`Walker`), so that at its end every statement is covered.  That the recursive
  function `Needed` satisfies its equations (`NeededCounts`) is proved by the least
  rank below which it would not exist.
* **Arrays** (`DulCompilerProofs`).  `ArraysSpec => []ArraysFit` for every initial
  capacity and growth.  The invariant `ArraysInv` ties the capacity that is tested to the
  bytes that were allocated, and says why the reversed test of `add_static` is
  harmless: the room for one more value is there at the start
  (`StaticBytes > 8`), a call that finds the room grows the array by at least
  what it uses, so the room never shrinks.  `CompilerSpec => []ArraysFit`
  follows for every set of programs: whatever pass runs, `ArraysGrow` leaves each array
  grown by its own rule or alone.
* **Lexer** (`DulLexerProofs`).  `LexerSpec => []ArrayFits` for every text and
  every initial capacity above 0, granted or refused: `add_lexem` writes inside its
  array.  The inductive invariant adds that a capacity of 0 is that of an array
  that was refused, which stays empty; any other is positive, without
  which doubling would not grow it.  For every text also `[]LexerTypeOK` and
  `[]WordsWhole`.  A run of letters or digits ends at the least position behind
  it that holds another character, and the NUL is one (`RunEnds`, from the well-founded
  order of the numbers); so what a word or a number stops at is no part of it,
  and the next lexem starts in the text.  `SpecialShape` and `KeywordShape` say
  what the tables hold; that the lexems taken so far keep the property is
  `ReaderInv`.  `[]StringFits`: the two loops over a string, the one that measures
  and the one that copies, are recursive functions of the position.  They exist
  because a turn moves towards the end and not past it (`ScanExists`), and from no
  position is more written than was measured (`WrittenIsMeasured`): the position
  nearest to the end where it were would have one behind it.
* **Native translator** (`DulNativeProofs`).  `NativeSpec => []NativeTypeOK` and
  `[]CodeFits` for every set of operations and every size.  `CodeFits` needs that
  half as much again is not less, rounded down (`Grows`).  That the code is not run
  past its end rests on `Finished`: before anything runs, all pieces are
  written and the last instruction is the return, and a step that goes on is
  not the return (`GoesOn`).
* **What the native code does** (`DulNativeProofs`).  `NativeSpec =>
  []StaysInside` and `[]NativeStores` for every set of operations, of any
  length, and every size of statics and frame that `NativeAssumption` admits.
  Neither is inductive: what an instruction finds depends on the ones in front
  of it.  `ShapeInv` says what the code is: each position holds an
  instruction of the frame, of an `istore`, of an `iwrite_` or the return,
  each of an `istore` stands behind its predecessor, and the stores of all operations
  before it are complete (`Shape`, with `Pending` for the pieces that are still
  to be written; `MemShape` and `CodeShape` prove that the writer keeps it).
  `Held` says what the registers, stack, statics and frame hold in front
  of the next instruction; it has one lemma for each kind of instruction
  (`PushHeld` to `RetHeld`, `CallHeld` for the call in `main`).  `RunInv` is
  both.  `WrongOnly` then gives `StaysInside`; `InOrder`, `AllStored` and
  the part of `Held` about the frame give `NativeStores`.

Assumptions, each evaluated by TLC in a passing run: `StreamsAssumption` (a
stream is a sequence of lexems), `SpelledAssumption` (none of them is of the
type NONE, which `get_current` makes up behind the last one, and a SPECIAL has no value
but which one it is), `IntMaxAssumption` (`DulArith`),
`NameRoomAssumption` (`DulTypes`), `PrintRoomAssumption` (`DulCompiler`: what
can be printed can be kept), `PrecisionAssumption` (`DulNumber`), `CapacityAssumption`, `TextsAssumption`
(`DulLexer`), `CapacitiesAssumption` (`DulArrays`), `NativeAssumption`
(`DulNative`: operations are records of opcodes and multiples of 8, the statics
are a multiple of 8 bytes, and the frame has room for what a signed byte can
reach, 128 bytes).

Only model-checked: the refinement of `DulSource`, and all liveness, that of
`ImplementsGrammar` included (that the parser reads every program to an end).
Every invariant that a passing run checks is also proved.  The
prover has no rules for liveness under fairness or for ENABLED.  What a
recursive definition computes can be proved where a least counterexample can be
named, as for `LeaveOrder`, the loops over a string and the trees of
`DulGrammar`.  That does not help with the language of `DulSource`, which has
`RECURSIVE` operators that the prover does not take.

## 6. What is not modelled

* The parts listed as not built or without state in section 1.
* The contents of strings, which no pass after the lexer uses.
* Rounding in the operations on doubles: a computed double is the term that made
  it.  Literals of more than 300 digits, whose double would be an infinity or
  zero; exponents and hexadecimal numbers, which `strtod` also takes.
* 64 and 53 bits: TLC checks 16 and 12, the proofs hold for every width.
* What a name of 28 letters and more is taken for, the name that a literal target
  has when its lowest byte is not zero and it is a FLOAT, and what the bytes of
  `print_integer` do as instructions.
* A tree of more than 100 statements after `realloc` has shrunk its array
  (`many_statements`): `DulParser` keeps all children.
* A refused allocation of a node, or of the first array of any component
  but the lexer; in `DulCompiler` the array of the lexer is granted.
* The files: a program that cannot be opened gives a NULL root, which
  `generate_code_from_source` prints without a test; the names of the files that
  are written; the text of `.ast` and `.dulcode`, of which only the
  dereference of `cast_to_float_m` and the buffers for the names are modelled.
* Time: the doubling calls of `count_register_count`.
* The opcodes other than `istore` and `iwrite_` have no translation in the
  repository; `DulMachine` gives them the meaning of their names.

## 7. Plan

The order is by how much of the program's promise rests on it.

1. Done: parser against its grammar, with the proof of its invariant; lexer,
   passes and arrays composed and checked against the language; the native
   translator, from its writer to what the code does; the proofs of section 5.
2. Done: the proofs of ownership, of the passes, of the code generator and of the
   places for every program, and of the lexer for every text.
3. Done: the step simulation from the parser to its grammar, for every program.
4. A step simulation from `DulCompiler` to `DulSource`.  It needs the language
   told without `RECURSIVE` operators, and what the code of a whole walk
   computes, by the invariants of `DulCompilerProofs`.
