------------------------- MODULE DulNativeProofs -------------------------
(***************************************************************************)
(* The machine code.  Whatever the operations, it lies in its buffer and   *)
(* ends with a return; when it runs, it stores what the operations say and *)
(* stays in the memory it was given, up to an iwrite_ or an offset that is *)
(* wider than its byte.                                                    *)
(***************************************************************************)
EXTENDS DulNative, TLAPS

(***************************************************************************)
(* The writer.                                                             *)
(***************************************************************************)
Kinds == {"push", "mov", "sub", "load", "store", "add",
          "bytes", "call", "ret"}

Instructions == [is : Kinds, r : {"", "rax", "rbp", "rsi", "rdi", "rsp"},
                 base : {"", "rax", "rbp", "rsi", "rdi", "rsp"}, disp : Int, of : Nat]
Pieces       == [bytes : Nat, instructions : Seq(Instructions)]

(* The code is finished when its last instruction is the return; nothing   *)
(* runs before that.                                                       *)
Finished == pieces = <<>> /\ op_count = Len(ops) + 1
              /\ code # <<>> /\ code[Len(code)].is = "ret"

WriterInv ==
  /\ ops \in OpSequences
  /\ op_count \in 0 .. Len(ops) + 1
  /\ pieces \in Seq(Pieces)
  /\ code \in Seq(Instructions)
  /\ mem_size \in Nat /\ memcap \in Nat /\ mem_size <= memcap
  /\ op_count = Len(ops) + 1 => pieces = write_footer \/ Finished
  /\ control \in {"writing", "code", "returned", "undefined"}
  /\ control # "writing" => Finished
  /\ pc \in 0 .. Len(code)
  /\ control = "writing" => pc = 0
  /\ control = "code" => pc < Len(code)

(* A signed byte is an integer. *)
LEMMA CharInt == ASSUME NEW n \in Nat PROVE Char(n) \in Int
  BY DEF Char

(* Operations are sequences of records of numbers. *)
LEMMA OpsTyped ==
  ASSUME WriterInv
  PROVE  /\ Len(ops) \in Nat
         /\ \A i \in 1 .. Len(ops) : ops[i].dest_arg \in Nat /\ ops[i].first_arg \in Nat
<1> DEFINE Operations == [opcode : iwrite_ .. cast_to_float_m, dest_arg : Nat,
                          first_arg : Nat, second_arg : Nat]
<1>1. ops \in Seq(Operations)
  BY NativeAssumption DEF WriterInv
<1>2. \A op \in Operations : op.dest_arg \in Nat /\ op.first_arg \in Nat
  OBVIOUS
<1> HIDE DEF Operations
<1>3. Len(ops) \in Nat /\ \A i \in 1 .. Len(ops) : ops[i] \in Operations
  BY <1>1
<1> QED BY <1>2, <1>3

(* What is written for an operation is a sequence of pieces. *)
LEMMA PiecesTyped ==
  /\ write_headers \in Seq(Pieces)
  /\ write_footer \in Seq(Pieces)
  /\ \A i \in Nat : /\ ops[i].dest_arg \in Nat
                    /\ ops[i].first_arg \in Nat
                    => write_vm_instr(i) \in Seq(Pieces)
<1>1. /\ Plain("push") \in Instructions /\ Plain("mov") \in Instructions
      /\ Plain("sub") \in Instructions /\ Plain("ret") \in Instructions
      /\ Store("rdi", -8, "rbp", 0) \in Instructions
      /\ Store("rsi", -16, "rbp", 0) \in Instructions
  BY DEF Plain, Store, Instruction, Instructions, Kinds
<1>2. ASSUME NEW x \in Instructions
      PROVE  Piece(1, <<x>>) \in Pieces /\ Piece(8, <<x>>) \in Pieces /\ Piece(2, <<x>>) \in Pieces
  BY DEF Pieces, Piece
<1>3. ASSUME NEW x \in Instructions, NEW y \in Instructions
      PROVE  Piece(10, <<x, y>>) \in Pieces /\ Piece(8, <<x, y>>) \in Pieces
  BY DEF Pieces, Piece
<1>4. ASSUME NEW v \in Instructions, NEW w \in Instructions, NEW x \in Instructions,
             NEW y \in Instructions, NEW z \in Instructions
      PROVE  Piece(16, <<v, w, x, y, z>>) \in Pieces
  BY DEF Pieces, Piece
<1>5. ASSUME NEW x \in Pieces, NEW y \in Pieces, NEW z \in Pieces
      PROVE  <<x>> \in Seq(Pieces) /\ <<x, y>> \in Seq(Pieces) /\ <<x, y, z>> \in Seq(Pieces)
  OBVIOUS
<1>6. write_headers \in Seq(Pieces)
  <2> DEFINE p == Piece(16, <<Plain("push"), Plain("mov"), Plain("sub"),
                              Store("rdi", -8, "rbp", 0), Store("rsi", -16, "rbp", 0)>>)
  <2>1. p \in Pieces
    BY <1>1, <1>4
  <2>2. write_headers = <<p>>
    BY DEF write_headers
  <2> HIDE DEF p
  <2> QED BY <2>1, <2>2, <1>5
<1>7. write_footer \in Seq(Pieces)
  BY <1>1, <1>2, <1>5 DEF write_footer
<1>8. ASSUME NEW i \in Nat, ops[i].dest_arg \in Nat, ops[i].first_arg \in Nat
      PROVE  write_vm_instr(i) \in Seq(Pieces)
  <2>1. Char(ops[i].dest_arg) \in Int /\ Char(ops[i].first_arg) \in Int
    BY <1>8, CharInt
  <2>2. CASE ops[i].opcode = istore
    <3>1. /\ Load(-8, "rbp", "rsi", i) \in Instructions
          /\ Load(Char(ops[i].first_arg), "rsi", "rsi", i) \in Instructions
          /\ Load(-16, "rbp", "rdi", i) \in Instructions
          /\ Store("rsi", Char(ops[i].dest_arg), "rdi", i) \in Instructions
      BY <1>8, <2>1 DEF Load, Store, Instruction, Instructions, Kinds
    <3> DEFINE p == Piece(8, <<Load(-8, "rbp", "rsi", i),
                               Load(Char(ops[i].first_arg), "rsi", "rsi", i)>>)
               q == Piece(8, <<Load(-16, "rbp", "rdi", i),
                               Store("rsi", Char(ops[i].dest_arg), "rdi", i)>>)
    <3>2. write_vm_instr(i) = <<p, q>>
      BY <2>2 DEF write_vm_instr, istore, iwrite_
    <3>3. p \in Pieces /\ q \in Pieces
      BY <3>1, <1>3
    <3> HIDE DEF p, q
    <3> QED BY <3>2, <3>3, <1>5
  <2>3. CASE ops[i].opcode = iwrite_
    <3>1. /\ Load(-16, "rbp", "rsi", i) \in Instructions
          /\ Instruction("add", "rsi", "", Char(ops[i].dest_arg), i) \in Instructions
          /\ Instruction("bytes", "", "", 0, i) \in Instructions
          /\ Instruction("call", "", "", 0, i) \in Instructions
      BY <1>8, <2>1 DEF Load, Instruction, Instructions, Kinds
    <3>2. ops[i].opcode # istore
      BY <2>3 DEF istore, iwrite_
    <3> DEFINE p == Piece(10, <<Load(-16, "rbp", "rsi", i),
                                Instruction("add", "rsi", "", Char(ops[i].dest_arg), i)>>)
               q == Piece(8, <<Instruction("bytes", "", "", 0, i)>>)
               r == Piece(2, <<Instruction("call", "", "", 0, i)>>)
    <3>3. write_vm_instr(i) = <<p, q, r>>
      BY <2>3, <3>2 DEF write_vm_instr
    <3>4. p \in Pieces /\ q \in Pieces /\ r \in Pieces
      BY <3>1, <1>2, <1>3
    <3> HIDE DEF p, q, r
    <3> QED BY <3>3, <3>4, <1>5
  <2>4. CASE ops[i].opcode # istore /\ ops[i].opcode # iwrite_
    BY <2>4 DEF write_vm_instr
  <2> QED BY <2>2, <2>3, <2>4
<1> QED BY <1>6, <1>7, <1>8

(* A piece is written into a buffer that holds it. *)
LEMMA Grows ==
  ASSUME NEW demand \in Nat
  PROVE  (3 * demand) \div 2 \in Nat /\ demand <= (3 * demand) \div 2
  OBVIOUS

LEMMA WriterInit == NativeInit => WriterInv
  BY NativeAssumption, PiecesTyped DEF NativeInit, WriterInv

(* A step of the processor that goes on is not the return, so the code     *)
(* has a next instruction.                                                 *)
LEMMA GoesOn ==
  ASSUME WriterInv, NEW S, "ret" \notin S, Goes(S)
  PROVE  WriterInv'
<1> USE DEF WriterInv, Goes, Executing, This, writerVars, Finished
<1>1. /\ UNCHANGED <<ops, op_count, pieces, code, mem_size, memcap, control>>
      /\ pc' = pc + 1 /\ control = "code" /\ pc < Len(code) /\ code[pc + 1].is # "ret"
  OBVIOUS
<1>2. code[Len(code)].is = "ret"
  BY <1>1
<1>3. Len(code) \in Nat /\ pc \in Nat
  OBVIOUS
<1>4. pc + 1 # Len(code)
  BY <1>1, <1>2
<1>5. pc' \in 0 .. Len(code) /\ pc' < Len(code)
  BY <1>1, <1>3, <1>4
<1> HIDE DEF Goes, This
<1> QED BY <1>1, <1>5

(* Every step of the writer and of the processor keeps the invariant. *)
LEMMA WriterInductive == WriterInv /\ [NativeNext]_nativeVars => WriterInv'
<1> SUFFICES ASSUME WriterInv, [NativeNext]_nativeVars PROVE WriterInv'
  OBVIOUS
<1>1. CASE write_mem
  <2> DEFINE demand == mem_size + Head(pieces).bytes
  <2>1. /\ Head(pieces) \in Pieces /\ Tail(pieces) \in Seq(Pieces)
        /\ Head(pieces).instructions \in Seq(Instructions)
        /\ Head(pieces).bytes \in Nat
    <3>1. pieces \in Seq(Pieces) /\ pieces # <<>>
      BY <1>1 DEF write_mem, WriterInv
    <3>2. Head(pieces) \in Pieces /\ Tail(pieces) \in Seq(Pieces)
      BY <3>1
    <3> QED BY <3>2 DEF Pieces
  <2>2. control = "writing" /\ pc = 0
    BY <1>1 DEF write_mem, WriterInv, Finished
  <2>3. demand \in Nat
    BY <2>1 DEF WriterInv
  <2>4. mem_size' \in Nat /\ memcap' \in Nat /\ mem_size' <= memcap'
    <3>1. (3 * demand) \div 2 \in Nat /\ demand <= (3 * demand) \div 2
      BY <2>3, Grows
    <3>2. mem_size' = demand
      BY <1>1 DEF write_mem
    <3>3. memcap' = IF memcap <= demand THEN (3 * demand) \div 2 ELSE memcap
      BY <1>1 DEF write_mem
    <3> HIDE DEF demand
    <3> QED BY <2>3, <3>1, <3>2, <3>3 DEF WriterInv
  <2>5. code' \in Seq(Instructions) /\ pieces' \in Seq(Pieces)
    BY <1>1, <2>1 DEF write_mem, WriterInv
  <2>6. op_count = Len(ops) + 1 => Finished'
    <3>1. SUFFICES ASSUME op_count = Len(ops) + 1 PROVE Finished'
      OBVIOUS
    <3>2. pieces = write_footer
      BY <3>1, <1>1 DEF WriterInv, Finished, write_mem
    <3>3. Tail(pieces) = <<>> /\ Head(pieces).instructions = <<Plain("ret")>>
      BY <3>2 DEF write_footer, Piece
    <3>4. pieces' = <<>> /\ code' = code \o <<Plain("ret")>>
      BY <3>3, <1>1 DEF write_mem
    <3>5. ASSUME NEW r PROVE /\ code \o <<r>> # <<>>
                             /\ (code \o <<r>>)[Len(code \o <<r>>)] = r
      <4>1. code \in Seq(Instructions)
        BY DEF WriterInv
      <4>2. Len(code) \in Nat /\ Len(code \o <<r>>) = Len(code) + 1
        BY <4>1
      <4> QED BY <4>1, <4>2
    <3>6. code' # <<>> /\ code'[Len(code')] = Plain("ret")
      BY <3>4, <3>5
    <3>7. Plain("ret").is = "ret"
      BY DEF Plain, Instruction
    <3>8. UNCHANGED <<ops, op_count>>
      BY <1>1 DEF write_mem
    <3> QED BY <3>1, <3>4, <3>6, <3>7, <3>8 DEF Finished
  <2>7. 0 \in 0 .. Len(code')
    BY <2>5
  <2> QED
    BY <1>1, <2>2, <2>4, <2>5, <2>6, <2>7 DEF write_mem, WriterInv, processorVars
<1>2. CASE write_vm_code
  <2>1. control = "writing" /\ pc = 0
    BY <1>2, OpsTyped DEF write_vm_code, WriterInv, Finished
  <2>2. pieces' \in Seq(Pieces)
    BY <1>2, OpsTyped, PiecesTyped DEF write_vm_code, WriterInv
  <2>3. op_count' \in 0 .. Len(ops) + 1
    BY <1>2, OpsTyped DEF write_vm_code, WriterInv
  <2>4. op_count' = Len(ops) + 1 => pieces' = write_footer
    BY <1>2, OpsTyped DEF write_vm_code, WriterInv
  <2> QED
    BY <1>2, <2>1, <2>2, <2>3, <2>4 DEF write_vm_code, WriterInv, processorVars
<1>3. CASE CallCode
  <2>1. Finished
    <3>1. op_count = Len(ops) + 1
      <4>1. op_count > Len(ops) /\ op_count \in 0 .. Len(ops) + 1
        BY <1>3 DEF CallCode, WriterInv
      <4> QED BY <4>1, OpsTyped
    <3>2. write_footer # <<>>
      BY DEF write_footer
    <3> QED BY <1>3, <3>1, <3>2 DEF CallCode, WriterInv
  <2>2. Len(code) \in Nat \ {0}
    BY <2>1 DEF Finished, WriterInv
  <2>3. UNCHANGED <<ops, op_count, pieces, code, mem_size, memcap, pc>>
        /\ control' \in {"code", "undefined"} /\ pc = 0
    BY <1>3 DEF CallCode, WriterInv, writerVars
  <2>4. Finished'
    BY <2>1, <2>3 DEF Finished
  <2> QED BY <2>2, <2>3, <2>4 DEF WriterInv
<1>4. CASE Push \/ MoveRsp \/ SubRsp \/ LoadQuad \/ StoreQuad \/ AddOffset
  <2>1. PICK S : "ret" \notin S /\ Goes(S)
    BY <1>4 DEF Push, MoveRsp, SubRsp, LoadQuad, StoreQuad, AddOffset
  <2> QED BY <2>1, GoesOn
<1>5. CASE Ret
  BY <1>5 DEF Ret, Executing, WriterInv, Finished, writerVars
<1>6. CASE GoWrong
  BY <1>6 DEF GoWrong, Executing, WriterInv, Finished, writerVars, processorVars
<1>7. CASE UNCHANGED nativeVars
  BY <1>7 DEF nativeVars, writerVars, processorVars, WriterInv, Finished
<1> QED BY <1>1, <1>2, <1>3, <1>4, <1>5, <1>6, <1>7
        DEF NativeNext, NativeStep, NativeDone

(* The counters stay in their ranges, and the code that is run ends with   *)
(* the return and is not run past it.                                      *)
THEOREM NativeTyped == NativeSpec => []NativeTypeOK
<1>1. WriterInv => NativeTypeOK
  BY DEF WriterInv, NativeTypeOK
<1> QED BY <1>1, WriterInit, WriterInductive, PTL DEF NativeSpec

(* No byte of machine code is copied behind the end of the buffer,         *)
(* whatever the capacity it starts with.                                   *)
THEOREM CodeHolds == NativeSpec => []CodeFits
<1>1. WriterInv => CodeFits
  BY DEF WriterInv, CodeFits
<1> QED BY <1>1, WriterInit, WriterInductive, PTL DEF NativeSpec

(***************************************************************************)
(* The shape of the code.                                                  *)
(***************************************************************************)
(* The instructions of the frame, of an istore and of an iwrite_, in order. *)
H1 == Plain("push")
H2 == Plain("mov")
H3 == Plain("sub")
H4 == Store("rdi", -8, "rbp", 0)
H5 == Store("rsi", -16, "rbp", 0)
R1 == Plain("ret")

S1(i)    == Load(-8, "rbp", "rsi", i)
S2(o, i) == Load(Char(o[i].first_arg), "rsi", "rsi", i)
S3(i)    == Load(-16, "rbp", "rdi", i)
S4(o, i) == Store("rsi", Char(o[i].dest_arg), "rdi", i)

W1(i)    == Load(-16, "rbp", "rsi", i)
W2(o, i) == Instruction("add", "rsi", "", Char(o[i].dest_arg), i)
W3(i)    == Instruction("bytes", "", "", 0, i)
W4(i)    == Instruction("call", "", "", 0, i)

(* In front of position j of the code c, the stores of all operations in   *)
(* front of the i-th are complete.                                         *)
StoresBefore(o, c, i, j) ==
  \A l \in DOMAIN o : l < i /\ o[l].opcode = istore => \E m \in 1 .. j - 1 : c[m] = S4(o, l)

(* What may stand at position j, and what then stands in front of it. *)
InHeader(c, j) == \/ j = 1 /\ c[j] = H1
                  \/ j = 2 /\ c[j] = H2
                  \/ j = 3 /\ c[j] = H3
                  \/ j = 4 /\ c[j] = H4
                  \/ j = 5 /\ c[j] = H5

InStore(o, c, i, j) ==
  /\ j > 5 /\ i \in DOMAIN o /\ o[i].opcode = istore
  /\ StoresBefore(o, c, i, j) /\ \A m \in 1 .. j - 1 : c[m].of <= i
  /\ \/ c[j] = S1(i)
     \/ c[j] = S2(o, i) /\ c[j - 1] = S1(i)
     \/ c[j] = S3(i)    /\ c[j - 1] = S2(o, i)
     \/ c[j] = S4(o, i) /\ c[j - 1] = S3(i)

InWrite(o, c, i, j) ==
  /\ j > 5 /\ i \in DOMAIN o /\ o[i].opcode = iwrite_
  /\ c[j] \in {W1(i), W2(o, i), W3(i), W4(i)}

InFooter(o, c, j) == j > 5 /\ c[j] = R1 /\ StoresBefore(o, c, Len(o) + 1, j)

Shape(o, c, j) == \/ InHeader(c, j)
                  \/ \E i \in Nat : InStore(o, c, i, j) \/ InWrite(o, c, i, j)
                  \/ InFooter(o, c, j)

(* What is still to be written, and what has been written in front of it.  *)
Of(o, c, i) == /\ StoresBefore(o, c, i, Len(c) + 1)
               /\ \A m \in 1 .. Len(c) : c[m].of <= i

Pending(o, c, p, n) ==
  \/ n = 0 /\ c = <<>> /\ p = write_headers
  \/ /\ Len(c) >= 5 /\ p = <<>>
     /\ StoresBefore(o, c, n + 1, Len(c) + 1) /\ \A m \in 1 .. Len(c) : c[m].of <= n
  \/ /\ Len(c) >= 5 /\ n = Len(o) + 1 /\ p = write_footer /\ Of(o, c, n)
  \/ /\ Len(c) >= 5 /\ n \in DOMAIN o /\ o[n].opcode = istore /\ Of(o, c, n)
     /\ \/ p = <<Piece(8, <<S1(n), S2(o, n)>>), Piece(8, <<S3(n), S4(o, n)>>)>>
        \/ p = <<Piece(8, <<S3(n), S4(o, n)>>)>> /\ c[Len(c)] = S2(o, n)
  \/ /\ Len(c) >= 5 /\ n \in DOMAIN o /\ o[n].opcode = iwrite_ /\ Of(o, c, n)
     /\ \/ p = <<Piece(10, <<W1(n), W2(o, n)>>), Piece(8, <<W3(n)>>), Piece(2, <<W4(n)>>)>>
        \/ p = <<Piece(8, <<W3(n)>>), Piece(2, <<W4(n)>>)>>
        \/ p = <<Piece(2, <<W4(n)>>)>>

ShapeInv ==
  /\ WriterInv
  /\ \A j \in 1 .. Len(code) : Shape(ops, code, j)
  /\ control = "writing" => Pending(ops, code, pieces, op_count)

(***************************************************************************)
(* What the processor has in its registers and in memory.                  *)
(***************************************************************************)
FarStored == \E k \in Stored : ~ Near(ops[k])

LoadsHold ==
  pc >= 1 => \A i \in DOMAIN ops :
    /\ code[pc] = S1(i) => reg["rsi"] = <<"statics", 0>>
    /\ code[pc] \in {S2(ops, i), S3(i)} => reg["rsi"] = <<"statics", Char(ops[i].first_arg)>>
    /\ code[pc] = S3(i) => reg["rdi"] = <<"frame", 0>>

RegistersHold ==
  /\ DOMAIN reg = {"rax", "rbp", "rsi", "rdi", "rsp"}
  /\ pc = 0 => reg["rsp"] = <<"stack", 0>>
  /\ pc = 1 => reg["rsp"] = <<"stack", -8>>
  /\ pc >= 2 => reg["rbp"] = <<"stack", -8>>
  /\ pc <= 3 => reg["rdi"] = <<"statics", 0>>
  /\ pc <= 4 => reg["rsi"] = <<"frame", 0>>

StackHolds ==
  /\ pc >= 4 => Holds(<<"stack", -16>>, <<"statics", 0>>)
  /\ pc >= 5 => Holds(<<"stack", -24>>, <<"frame", 0>>)

StaticsHold ==
  /\ Statics \subseteq DOMAIN memory
  /\ \A at \in DOMAIN memory : at[1] = "statics" => memory[at] = at

(* The frame holds what the last store into each slot has put there. *)
FrameHolds ==
  /\ \A at \in DOMAIN memory :
       at[1] = "frame" => \E k \in Stored : at[2] = Char(ops[k].dest_arg)
  /\ FarStored \/ \A k \in Stored :
       (\A l \in Stored : l > k => ops[l].dest_arg # ops[k].dest_arg) =>
         Holds(<<"frame", ops[k].dest_arg>>, <<"statics", ops[k].first_arg>>)

Held == RegistersHold /\ LoadsHold /\ StackHolds /\ StaticsHold /\ FrameHolds

Registers == DOMAIN reg = {"rax", "rbp", "rsi", "rdi", "rsp"}

RunInv ==
  /\ ShapeInv
  /\ Registers
  /\ control # "writing" => Held
  /\ StaysInside

(***************************************************************************)
(* The writer gives the code its shape.                                    *)
(***************************************************************************)
(* Code is appended: what stood there stays. *)
LEMMA Appended ==
  ASSUME NEW S, NEW c \in Seq(S), NEW x \in S, NEW y \in S
  PROVE  /\ c \o <<x>> \in Seq(S) /\ c \o <<x, y>> \in Seq(S)
         /\ Len(c \o <<x>>) = Len(c) + 1 /\ Len(c \o <<x, y>>) = Len(c) + 2
         /\ \A j \in 1 .. Len(c) : (c \o <<x>>)[j] = c[j] /\ (c \o <<x, y>>)[j] = c[j]
         /\ (c \o <<x>>)[Len(c) + 1] = x
         /\ (c \o <<x, y>>)[Len(c) + 1] = x /\ (c \o <<x, y>>)[Len(c) + 2] = y
  OBVIOUS

(* c is the beginning of d. *)
Begins(c, d) == /\ Len(c) \in Nat /\ Len(d) \in Nat /\ Len(c) <= Len(d)
                /\ \A j \in 1 .. Len(c) : d[j] = c[j]

(* The shape of the code so far does not depend on what follows. *)
LEMMA ShapeKept ==
  ASSUME NEW o, NEW c, NEW d, Begins(c, d), NEW j \in 1 .. Len(c), Shape(o, c, j)
  PROVE  Shape(o, d, j)
<1>1. d[j] = c[j] /\ (j > 5 => d[j - 1] = c[j - 1]) /\ \A m \in 1 .. j - 1 : d[m] = c[m]
  BY DEF Begins
<1>2. ASSUME NEW i, StoresBefore(o, c, i, j) PROVE StoresBefore(o, d, i, j)
  BY <1>1, <1>2 DEF StoresBefore
<1>3. CASE InHeader(c, j)
  BY <1>1, <1>3 DEF Shape, InHeader
<1>4. ASSUME NEW i \in Nat, InStore(o, c, i, j) PROVE Shape(o, d, j)
  <2>1. StoresBefore(o, d, i, j)
    BY <1>2, <1>4 DEF InStore
  <2>2. InStore(o, d, i, j)
    BY <1>1, <1>4, <2>1 DEF InStore
  <2> QED BY <2>2 DEF Shape
<1>5. ASSUME NEW i \in Nat, InWrite(o, c, i, j) PROVE Shape(o, d, j)
  BY <1>1, <1>5 DEF InWrite, Shape
<1>6. CASE InFooter(o, c, j)
  BY <1>1, <1>2, <1>6 DEF InFooter, Shape
<1> QED BY <1>3, <1>4, <1>5, <1>6 DEF Shape

(* What an operation is written in front of stays written. *)
LEMMA BeforeKept ==
  ASSUME NEW o, NEW c, NEW d, Begins(c, d), NEW i, StoresBefore(o, c, i, Len(c) + 1),
         NEW j \in Nat, j > Len(c)
  PROVE  StoresBefore(o, d, i, j)
<1>1. ASSUME NEW l \in DOMAIN o, l < i, o[l].opcode = istore
      PROVE  \E m \in 1 .. j - 1 : d[m] = S4(o, l)
  <2>1. PICK m \in 1 .. (Len(c) + 1) - 1 : c[m] = S4(o, l)
    BY <1>1 DEF StoresBefore
  <2>2. m \in 1 .. j - 1 /\ d[m] = S4(o, l)
    BY <2>1 DEF Begins
  <2> QED BY <2>2
<1> QED BY <1>1 DEF StoresBefore

(* The instructions belong to their operation. *)
LEMMA Belong ==
  ASSUME NEW o, NEW i
  PROVE  /\ S1(i).of = i /\ S2(o, i).of = i /\ S3(i).of = i /\ S4(o, i).of = i
         /\ W1(i).of = i /\ W2(o, i).of = i /\ W3(i).of = i /\ W4(i).of = i
         /\ H1.of = 0 /\ H2.of = 0 /\ H3.of = 0 /\ H4.of = 0 /\ H5.of = 0 /\ R1.of = 0
  BY DEF S1, S2, S3, S4, W1, W2, W3, W4, H1, H2, H3, H4, H5, R1,
         Load, Store, Plain, Instruction

(* The instructions of the invariant are those of the translator. *)
LEMMA Translated ==
  ASSUME NEW i \in DOMAIN ops
  PROVE  /\ ops[i].opcode = istore =>
              write_vm_instr(i) = <<Piece(8, <<S1(i), S2(ops, i)>>), Piece(8, <<S3(i), S4(ops, i)>>)>>
         /\ ops[i].opcode = iwrite_ =>
              write_vm_instr(i) = <<Piece(10, <<W1(i), W2(ops, i)>>), Piece(8, <<W3(i)>>),
                                    Piece(2, <<W4(i)>>)>>
         /\ ops[i].opcode # istore /\ ops[i].opcode # iwrite_ => write_vm_instr(i) = <<>>
         /\ write_headers = <<Piece(16, <<H1, H2, H3, H4, H5>>)>>
         /\ write_footer = <<Piece(1, <<R1>>)>>
<1>1. istore # iwrite_
  BY DEF istore, iwrite_
<1> QED BY <1>1 DEF write_vm_instr, write_headers, write_footer, S1, S2, S3, S4,
                    W1, W2, W3, W4, H1, H2, H3, H4, H5, R1

(* One instruction, and two, are appended to code that is in shape. *)
LEMMA AppendOne ==
  ASSUME NEW o, NEW c \in Seq(Instructions), NEW x \in Instructions,
         \A j \in 1 .. Len(c) : Shape(o, c, j),
         Shape(o, c \o <<x>>, Len(c) + 1)
  PROVE  \A j \in 1 .. Len(c \o <<x>>) : Shape(o, c \o <<x>>, j)
<1> DEFINE d == c \o <<x>>
<1>1. Begins(c, d) /\ Len(d) = Len(c) + 1 /\ Len(c) \in Nat
  BY Appended DEF Begins
<1> HIDE DEF d
<1>2. \A j \in 1 .. Len(c) : Shape(o, d, j)
  BY <1>1, ShapeKept
<1>3. \A j \in 1 .. Len(d) : j \in 1 .. Len(c) \/ j = Len(c) + 1
  BY <1>1
<1> QED BY <1>2, <1>3 DEF d

LEMMA AppendTwo ==
  ASSUME NEW o, NEW c \in Seq(Instructions), NEW x \in Instructions, NEW y \in Instructions,
         \A j \in 1 .. Len(c) : Shape(o, c, j),
         Shape(o, c \o <<x, y>>, Len(c) + 1), Shape(o, c \o <<x, y>>, Len(c) + 2)
  PROVE  \A j \in 1 .. Len(c \o <<x, y>>) : Shape(o, c \o <<x, y>>, j)
<1> DEFINE d == c \o <<x, y>>
<1>1. Begins(c, d) /\ Len(d) = Len(c) + 2 /\ Len(c) \in Nat
  BY Appended DEF Begins
<1> HIDE DEF d
<1>2. \A j \in 1 .. Len(c) : Shape(o, d, j)
  BY <1>1, ShapeKept
<1>3. \A j \in 1 .. Len(d) : j \in 1 .. Len(c) \/ j = Len(c) + 1 \/ j = Len(c) + 2
  BY <1>1
<1> QED BY <1>2, <1>3 DEF d

(* One piece, of one instruction or of two, is written behind the stores   *)
(* of the operations in front, in shape.                                   *)
LEMMA OfKept ==
  ASSUME NEW o, NEW c \in Seq(Instructions), NEW d \in Seq(Instructions), Begins(c, d),
         NEW i \in Nat, Of(o, c, i), \A m \in Len(c) + 1 .. Len(d) : d[m].of <= i
  PROVE  Of(o, d, i)
<1>1. Len(c) \in Nat /\ Len(d) \in Nat /\ Len(c) <= Len(d)
  BY DEF Begins
<1>2. StoresBefore(o, d, i, Len(d) + 1)
  BY <1>1, BeforeKept DEF Of
<1>3. \A m \in 1 .. Len(d) : m \in 1 .. Len(c) \/ m \in Len(c) + 1 .. Len(d)
  BY <1>1
<1>4. \A m \in 1 .. Len(d) : d[m].of <= i
  BY <1>3 DEF Of, Begins
<1> QED BY <1>2, <1>4 DEF Of

(* The two pieces of an istore. *)
LEMMA StorePieces ==
  ASSUME NEW o, NEW c \in Seq(Instructions), NEW n \in Nat, n \in DOMAIN o, o[n].opcode = istore,
         Len(c) >= 5, Of(o, c, n), \A j \in 1 .. Len(c) : Shape(o, c, j),
         NEW x \in Instructions, NEW y \in Instructions,
         \/ x = S1(n) /\ y = S2(o, n)
         \/ x = S3(n) /\ y = S4(o, n) /\ c[Len(c)] = S2(o, n)
  PROVE  /\ \A j \in 1 .. Len(c \o <<x, y>>) : Shape(o, c \o <<x, y>>, j)
         /\ Of(o, c \o <<x, y>>, n)
<1> DEFINE d == c \o <<x, y>>
           k == Len(c)
<1>1. /\ k \in Nat /\ Len(d) = k + 2 /\ d \in Seq(Instructions)
      /\ \A j \in 1 .. k : d[j] = c[j]
      /\ d[k + 1] = x /\ d[k + 2] = y
  BY Appended
<1>2. x.of = n /\ y.of = n
  BY Belong
<1>3. Begins(c, d)
  BY <1>1 DEF Begins
<1> HIDE DEF d
<1>4. StoresBefore(o, d, n, k + 1) /\ StoresBefore(o, d, n, k + 2)
  BY <1>1, <1>3, BeforeKept DEF Of
<1>5. \A m \in 1 .. k : d[m].of <= n
  BY <1>1 DEF Of
<1>6. \A m \in 1 .. k + 1 : d[m].of <= n
  <2>1. \A m \in 1 .. k + 1 : m \in 1 .. k \/ m = k + 1
    BY <1>1
  <2> QED BY <2>1, <1>1, <1>2, <1>5
<1>7. Of(o, d, n)
  <2>1. \A m \in k + 1 .. Len(d) : m = k + 1 \/ m = k + 2
    BY <1>1
  <2>2. \A m \in k + 1 .. Len(d) : d[m].of <= n
    BY <1>1, <1>2, <2>1
  <2> QED BY <1>1, <1>3, <2>2, OfKept
<1>8. InStore(o, d, n, k + 1)
  <2>1. d[k + 1] = S1(n) \/ (d[k + 1] = S3(n) /\ d[k + 1 - 1] = S2(o, n))
    BY <1>1
  <2>2. \A m \in 1 .. k + 1 - 1 : d[m].of <= n
    BY <1>1, <1>5
  <2> QED BY <1>1, <1>4, <2>1, <2>2 DEF InStore
<1>9. InStore(o, d, n, k + 2)
  <2>1. \/ d[k + 2] = S2(o, n) /\ d[k + 2 - 1] = S1(n)
        \/ d[k + 2] = S4(o, n) /\ d[k + 2 - 1] = S3(n)
    BY <1>1
  <2>2. \A m \in 1 .. k + 2 - 1 : d[m].of <= n
    BY <1>1, <1>6
  <2> QED BY <1>1, <1>4, <2>1, <2>2 DEF InStore
<1>10. Shape(o, d, k + 1) /\ Shape(o, d, k + 2)
  BY <1>8, <1>9 DEF Shape
<1> QED BY <1>7, <1>10, AppendTwo DEF d

(* The three pieces of an iwrite_. *)
LEMMA WritePieces ==
  ASSUME NEW o, NEW c \in Seq(Instructions), NEW n \in Nat, n \in DOMAIN o, o[n].opcode = iwrite_,
         Len(c) >= 5, Of(o, c, n), \A j \in 1 .. Len(c) : Shape(o, c, j),
         NEW x \in Instructions, NEW y \in Instructions,
         {x, y} \subseteq {W1(n), W2(o, n), W3(n), W4(n)}
  PROVE  /\ \A j \in 1 .. Len(c \o <<x, y>>) : Shape(o, c \o <<x, y>>, j)
         /\ \A j \in 1 .. Len(c \o <<x>>) : Shape(o, c \o <<x>>, j)
         /\ Of(o, c \o <<x, y>>, n) /\ Of(o, c \o <<x>>, n)
<1> DEFINE d == c \o <<x, y>>
           e == c \o <<x>>
           k == Len(c)
<1>1. /\ k \in Nat /\ Len(d) = k + 2 /\ d \in Seq(Instructions)
      /\ \A j \in 1 .. k : d[j] = c[j] /\ e[j] = c[j]
      /\ d[k + 1] = x /\ d[k + 2] = y
      /\ e \in Seq(Instructions) /\ e[k + 1] = x /\ Len(e) = k + 1
  BY Appended
<1>2. x.of = n /\ y.of = n
  BY Belong
<1>3. Begins(c, d) /\ Begins(c, e)
  BY <1>1 DEF Begins
<1> HIDE DEF d, e
<1>4. Of(o, d, n)
  <2>1. \A m \in k + 1 .. Len(d) : m = k + 1 \/ m = k + 2
    BY <1>1
  <2>2. \A m \in k + 1 .. Len(d) : d[m].of <= n
    BY <1>1, <1>2, <2>1
  <2> QED BY <1>1, <1>3, <2>2, OfKept
<1>5. Of(o, e, n)
  <2>1. \A m \in k + 1 .. Len(e) : m = k + 1
    BY <1>1
  <2>2. \A m \in k + 1 .. Len(e) : e[m].of <= n
    BY <1>1, <1>2, <2>1
  <2> QED BY <1>1, <1>3, <2>2, OfKept
<1>6. InWrite(o, d, n, k + 1) /\ InWrite(o, d, n, k + 2) /\ InWrite(o, e, n, k + 1)
  BY <1>1 DEF InWrite
<1>7. Shape(o, d, k + 1) /\ Shape(o, d, k + 2) /\ Shape(o, e, k + 1)
  BY <1>6 DEF Shape
<1> QED BY <1>4, <1>5, <1>7, AppendOne, AppendTwo DEF d, e

(* The code starts with the frame. *)
LEMMA HeaderPiece ==
  ASSUME NEW o, DOMAIN o \subseteq Nat \ {0}, NEW c, c = <<H1, H2, H3, H4, H5>>
  PROVE  /\ Len(c) = 5 /\ \A j \in 1 .. Len(c) : Shape(o, c, j)
         /\ StoresBefore(o, c, 1, Len(c) + 1) /\ \A m \in 1 .. Len(c) : c[m].of <= 0
<1>1. Len(c) = 5 /\ c[1] = H1 /\ c[2] = H2 /\ c[3] = H3 /\ c[4] = H4 /\ c[5] = H5
  OBVIOUS
<1>2. \A j \in 1 .. Len(c) : j = 1 \/ j = 2 \/ j = 3 \/ j = 4 \/ j = 5
  BY <1>1
<1>3. \A j \in 1 .. Len(c) : Shape(o, c, j)
  BY <1>1, <1>2 DEF Shape, InHeader
<1>4. \A m \in 1 .. Len(c) : c[m].of <= 0
  BY <1>1, <1>2, Belong
<1>5. StoresBefore(o, c, 1, Len(c) + 1)
  BY DEF StoresBefore
<1> QED BY <1>1, <1>3, <1>4, <1>5

(* The elements of a sequence of one or two. *)
LEMMA Elements ==
  ASSUME NEW S, NEW x, NEW y
  PROVE  /\ <<x>> \in Seq(S) => x \in S
         /\ <<x, y>> \in Seq(S) => x \in S /\ y \in S
<1>1. <<x>>[1] = x /\ <<x, y>>[1] = x /\ <<x, y>>[2] = y
  OBVIOUS
<1>2. ASSUME <<x>> \in Seq(S) PROVE x \in S
  <2>1. 1 \in DOMAIN <<x>>
    OBVIOUS
  <2> QED BY <1>1, <1>2, <2>1
<1>3. ASSUME <<x, y>> \in Seq(S) PROVE x \in S /\ y \in S
  <2>1. 1 \in DOMAIN <<x, y>> /\ 2 \in DOMAIN <<x, y>>
    OBVIOUS
  <2> QED BY <1>1, <1>3, <2>1
<1> QED BY <1>2, <1>3

(* What write_mem writes is in shape. *)
LEMMA MemShape == ASSUME ShapeInv, write_mem PROVE ShapeInv'
<1> DEFINE c == code
           o == ops
           n == op_count
           I == Head(pieces).instructions
           d == c \o I
           q == Tail(pieces)
<1>1. WriterInv'
  BY WriterInductive DEF ShapeInv, NativeNext, NativeStep
<1>2. control = "writing" /\ UNCHANGED <<ops, op_count, control>> /\ code' = d /\ pieces' = q
  BY DEF write_mem, ShapeInv, WriterInv, Finished
<1>3. /\ c \in Seq(Instructions) /\ Len(c) \in Nat /\ n \in Nat /\ Len(o) \in Nat
      /\ DOMAIN o = 1 .. Len(o)
  <2>1. ops \in OpSequences /\ c \in Seq(Instructions) /\ op_count \in 0 .. Len(ops) + 1
    BY DEF ShapeInv, WriterInv
  <2>2. o \in Seq([opcode : iwrite_ .. cast_to_float_m, dest_arg : Nat, first_arg : Nat,
                   second_arg : Nat])
    BY <2>1, NativeAssumption
  <2> QED BY <2>1, <2>2
<1>4. I \in Seq(Instructions)
  <2>1. pieces \in Seq(Pieces) /\ pieces # <<>>
    BY DEF write_mem, ShapeInv, WriterInv
  <2>2. Head(pieces) \in Pieces
    BY <2>1
  <2> QED BY <2>2 DEF Pieces
<1>5. (\A j \in 1 .. Len(c) : Shape(o, c, j)) /\ Pending(o, c, pieces, n)
  BY <1>2 DEF ShapeInv
<1>6. SUFFICES (\A j \in 1 .. Len(d) : Shape(o, d, j)) /\ Pending(o, d, q, n)
  BY <1>1, <1>2 DEF ShapeInv
<1>7. pieces # <<>>
  BY DEF write_mem
<1>13. d = c \o I
  OBVIOUS
<1> HIDE DEF c, o, n, d, q
<1>8. CASE n = 0 /\ c = <<>> /\ pieces = write_headers
  <2>1. pieces = <<Piece(16, <<H1, H2, H3, H4, H5>>)>>
    BY <1>8 DEF write_headers, H1, H2, H3, H4, H5
  <2>2. I = <<H1, H2, H3, H4, H5>> /\ q = <<>>
    BY <2>1 DEF Piece, q
  <2>3. d = <<H1, H2, H3, H4, H5>>
    BY <2>2, <1>4, <1>8, <1>13
  <2>4. DOMAIN o \subseteq Nat \ {0}
    BY <1>3
  <2>5. /\ Len(d) = 5 /\ \A j \in 1 .. Len(d) : Shape(o, d, j)
        /\ StoresBefore(o, d, 1, Len(d) + 1) /\ \A m \in 1 .. Len(d) : d[m].of <= 0
    BY <2>3, <2>4, HeaderPiece
  <2> QED BY <2>2, <2>5, <1>8 DEF Pending
<1>9. CASE Len(c) >= 5 /\ n = Len(o) + 1 /\ pieces = write_footer /\ Of(o, c, n)
  <2>1. pieces = <<Piece(1, <<R1>>)>>
    BY <1>9 DEF write_footer, R1
  <2>2. I = <<R1>> /\ q = <<>>
    BY <2>1 DEF Piece, q
  <2>3. R1 \in Instructions /\ d = c \o <<R1>>
    BY <2>2, <1>4, <1>13, Elements
  <2>4. /\ d \in Seq(Instructions) /\ Len(d) = Len(c) + 1 /\ d[Len(c) + 1] = R1
        /\ \A j \in 1 .. Len(c) : d[j] = c[j]
    BY <2>3, <1>3, Appended
  <2>5. Begins(c, d)
    BY <1>3, <2>4 DEF Begins
  <2>6. \A j \in 1 .. Len(d) : Shape(o, d, j)
    <3>1. StoresBefore(o, d, n, Len(c) + 1)
      BY <1>3, <1>9, <2>5, BeforeKept DEF Of
    <3>2. Shape(o, d, Len(c) + 1)
      BY <1>3, <1>9, <2>4, <3>1 DEF Shape, InFooter
    <3> QED BY <1>3, <1>5, <2>3, <3>2, AppendOne
  <2>7. \A m \in Len(c) + 1 .. Len(d) : d[m].of <= n
    <3>1. \A m \in Len(c) + 1 .. Len(d) : m = Len(c) + 1
      BY <1>3, <2>4
    <3> QED BY <1>3, <2>4, <3>1, Belong
  <2>8. Of(o, d, n)
    BY <1>3, <1>9, <2>4, <2>5, <2>7, OfKept
  <2>9. StoresBefore(o, d, n + 1, Len(d) + 1)
    <3>1. ASSUME NEW l \in DOMAIN o PROVE l < n
      BY <1>3, <1>9
    <3> QED BY <2>8, <3>1 DEF Of, StoresBefore
  <2> QED BY <1>3, <1>9, <2>2, <2>4, <2>6, <2>8, <2>9 DEF Pending, Of
<1>10. CASE /\ Len(c) >= 5 /\ n \in DOMAIN o /\ o[n].opcode = istore /\ Of(o, c, n)
            /\ pieces = <<Piece(8, <<S1(n), S2(o, n)>>), Piece(8, <<S3(n), S4(o, n)>>)>>
  <2>1. I = <<S1(n), S2(o, n)>> /\ q = <<Piece(8, <<S3(n), S4(o, n)>>)>>
    BY <1>10 DEF Piece, q
  <2>2. S1(n) \in Instructions /\ S2(o, n) \in Instructions /\ d = c \o <<S1(n), S2(o, n)>>
    BY <2>1, <1>4, <1>13, Elements
  <2>3. Len(d) = Len(c) + 2 /\ d[Len(d)] = S2(o, n)
    BY <2>2, <1>3, Appended
  <2>4. (\A j \in 1 .. Len(d) : Shape(o, d, j)) /\ Of(o, d, n)
    BY <2>2, <1>3, <1>5, <1>10, StorePieces
  <2> QED BY <1>3, <1>10, <2>1, <2>3, <2>4 DEF Pending
<1>11. CASE /\ Len(c) >= 5 /\ n \in DOMAIN o /\ o[n].opcode = istore /\ Of(o, c, n)
            /\ pieces = <<Piece(8, <<S3(n), S4(o, n)>>)>> /\ c[Len(c)] = S2(o, n)
  <2>1. I = <<S3(n), S4(o, n)>> /\ q = <<>>
    BY <1>11 DEF Piece, q
  <2>2. S3(n) \in Instructions /\ S4(o, n) \in Instructions /\ d = c \o <<S3(n), S4(o, n)>>
    BY <2>1, <1>4, <1>13, Elements
  <2>3. Len(d) = Len(c) + 2 /\ d[Len(d)] = S4(o, n)
    BY <2>2, <1>3, Appended
  <2>4. (\A j \in 1 .. Len(d) : Shape(o, d, j)) /\ Of(o, d, n)
    BY <2>2, <1>3, <1>5, <1>11, StorePieces
  <2>5. StoresBefore(o, d, n + 1, Len(d) + 1)
    <3>1. ASSUME NEW l \in DOMAIN o, l < n + 1, o[l].opcode = istore
          PROVE  \E m \in 1 .. (Len(d) + 1) - 1 : d[m] = S4(o, l)
      <4>1. CASE l = n
        <5>1. Len(d) \in 1 .. (Len(d) + 1) - 1
          BY <1>3, <2>3
        <5> QED BY <2>3, <4>1, <5>1
      <4>2. CASE l # n
        <5>1. l < n
          BY <1>3, <3>1, <4>2
        <5> QED BY <2>4, <3>1, <5>1 DEF Of, StoresBefore
      <4> QED BY <4>1, <4>2
    <3> QED BY <3>1 DEF StoresBefore
  <2> QED BY <1>3, <1>11, <2>1, <2>3, <2>4, <2>5 DEF Pending, Of
<1>12. CASE /\ Len(c) >= 5 /\ n \in DOMAIN o /\ o[n].opcode = iwrite_ /\ Of(o, c, n)
            /\ \/ pieces = <<Piece(10, <<W1(n), W2(o, n)>>), Piece(8, <<W3(n)>>), Piece(2, <<W4(n)>>)>>
               \/ pieces = <<Piece(8, <<W3(n)>>), Piece(2, <<W4(n)>>)>>
               \/ pieces = <<Piece(2, <<W4(n)>>)>>
  <2>1. \/ I = <<W1(n), W2(o, n)>> /\ q = <<Piece(8, <<W3(n)>>), Piece(2, <<W4(n)>>)>>
        \/ I = <<W3(n)>> /\ q = <<Piece(2, <<W4(n)>>)>>
        \/ I = <<W4(n)>> /\ q = <<>>
    <3> DEFINE p1 == Piece(10, <<W1(n), W2(o, n)>>)
               p2 == Piece(8, <<W3(n)>>)
               p3 == Piece(2, <<W4(n)>>)
    <3>1. /\ p1.instructions = <<W1(n), W2(o, n)>>
          /\ p2.instructions = <<W3(n)>> /\ p3.instructions = <<W4(n)>>
      BY DEF Piece
    <3>2. pieces = <<p1, p2, p3>> \/ pieces = <<p2, p3>> \/ pieces = <<p3>>
      BY <1>12
    <3> HIDE DEF p1, p2, p3
    <3>3. \/ Head(pieces) = p1 /\ q = <<p2, p3>>
          \/ Head(pieces) = p2 /\ q = <<p3>>
          \/ Head(pieces) = p3 /\ q = <<>>
      <4>1. /\ Head(<<p1, p2, p3>>) = p1 /\ Head(<<p2, p3>>) = p2 /\ Head(<<p3>>) = p3
            /\ Tail(<<p2, p3>>) = <<p3>> /\ Tail(<<p3>>) = <<>>
        OBVIOUS
      <4>2. Tail(<<p1, p2, p3>>) = <<p2, p3>>
        OBVIOUS
      <4>3. q = Tail(pieces)
        BY DEF q
      <4> QED BY <3>2, <4>1, <4>2, <4>3, Zenon
    <3>4. \/ I = <<W1(n), W2(o, n)>> /\ q = <<p2, p3>>
          \/ I = <<W3(n)>> /\ q = <<p3>>
          \/ I = <<W4(n)>> /\ q = <<>>
      BY <3>1, <3>3
    <3> QED BY <3>4 DEF p2, p3
  <2>2. (\A j \in 1 .. Len(d) : Shape(o, d, j)) /\ Of(o, d, n) /\ Len(d) >= Len(c)
    <3>1. CASE I = <<W1(n), W2(o, n)>>
      <4>1. W1(n) \in Instructions /\ W2(o, n) \in Instructions /\ d = c \o <<W1(n), W2(o, n)>>
        BY <3>1, <1>4, <1>13, Elements
      <4>2. Len(d) = Len(c) + 2
        BY <4>1, <1>3, Appended
      <4>3. (\A j \in 1 .. Len(d) : Shape(o, d, j)) /\ Of(o, d, n)
        BY <4>1, <1>3, <1>5, <1>12, WritePieces
      <4> QED BY <4>2, <4>3, <1>3
    <3>2. ASSUME NEW x \in {W3(n), W4(n)}, I = <<x>>
          PROVE  (\A j \in 1 .. Len(d) : Shape(o, d, j)) /\ Of(o, d, n) /\ Len(d) >= Len(c)
      <4>1. x \in Instructions /\ d = c \o <<x>>
        BY <3>2, <1>4, <1>13, Elements
      <4>2. Len(d) = Len(c) + 1
        BY <4>1, <1>3, Appended
      <4>3. (\A j \in 1 .. Len(d) : Shape(o, d, j)) /\ Of(o, d, n)
        BY <4>1, <1>3, <1>5, <1>12, WritePieces
      <4> QED BY <4>2, <4>3, <1>3
    <3> QED BY <2>1, <3>1, <3>2
  <2>3. Len(d) \in Nat
    BY <1>3, <1>4, <1>13
  <2>4. StoresBefore(o, d, n + 1, Len(d) + 1)
    <3>1. \A l \in DOMAIN o : l < n + 1 /\ o[l].opcode = istore => l < n
      <4>1. istore # iwrite_
        BY DEF istore, iwrite_
      <4> QED BY <1>3, <1>12, <4>1
    <3> QED BY <2>2, <3>1 DEF Of, StoresBefore
  <2> QED BY <1>3, <1>12, <2>1, <2>2, <2>3, <2>4 DEF Pending, Of
<1> QED BY <1>5, <1>7, <1>8, <1>9, <1>10, <1>11, <1>12 DEF Pending

(* The operations, and how many of them have been translated. *)
LEMMA Counted ==
  ASSUME WriterInv
  PROVE  /\ code \in Seq(Instructions) /\ Len(code) \in Nat /\ op_count \in Nat
         /\ Len(ops) \in Nat /\ DOMAIN ops = 1 .. Len(ops)
         /\ \A i \in DOMAIN ops : /\ ops[i].dest_arg \in Nat /\ ops[i].first_arg \in Nat
                                  /\ ops[i].dest_arg % 8 = 0 /\ ops[i].first_arg % 8 = 0
<1>1. ops \in OpSequences /\ code \in Seq(Instructions) /\ op_count \in 0 .. Len(ops) + 1
  BY DEF WriterInv
<1>2. ops \in Seq([opcode : iwrite_ .. cast_to_float_m, dest_arg : Nat, first_arg : Nat,
                   second_arg : Nat])
  BY <1>1, NativeAssumption
<1>3. Len(ops) \in Nat /\ DOMAIN ops = 1 .. Len(ops)
  BY <1>2
<1>4. \A i \in DOMAIN ops : ops[i].dest_arg % 8 = 0 /\ ops[i].first_arg % 8 = 0
  BY <1>1, NativeAssumption
<1>5. \A i \in DOMAIN ops : ops[i].dest_arg \in Nat /\ ops[i].first_arg \in Nat
  BY <1>3, OpsTyped
<1> QED BY <1>1, <1>3, <1>4, <1>5

(* The loop hands over the pieces of the next operation. *)
LEMMA CodeShape == ASSUME ShapeInv, write_vm_code PROVE ShapeInv'
<1> DEFINE n == op_count + 1
<1>1. WriterInv'
  BY WriterInductive DEF ShapeInv, NativeNext, NativeStep
<1>2. /\ code \in Seq(Instructions) /\ Len(code) \in Nat /\ op_count \in Nat
      /\ Len(ops) \in Nat /\ DOMAIN ops = 1 .. Len(ops)
  BY Counted DEF ShapeInv
<1>3. /\ control = "writing" /\ UNCHANGED <<ops, code, control>> /\ op_count' = n
      /\ pieces = <<>> /\ op_count <= Len(ops)
      /\ pieces' = IF op_count < Len(ops) THEN write_vm_instr(n) ELSE write_footer
  BY <1>2 DEF write_vm_code, ShapeInv, WriterInv, Finished
<1>4. (\A j \in 1 .. Len(code) : Shape(ops, code, j)) /\ Pending(ops, code, pieces, op_count)
  BY <1>3 DEF ShapeInv
<1>5. SUFFICES Pending(ops, code, pieces', n)
  BY <1>1, <1>3, <1>4 DEF ShapeInv
<1>6. Len(code) >= 5 /\ Of(ops, code, n)
  <2>1. pieces # write_headers /\ pieces # write_footer
    BY <1>3 DEF write_headers, write_footer
  <2>2. /\ Len(code) >= 5 /\ StoresBefore(ops, code, op_count + 1, Len(code) + 1)
        /\ \A m \in 1 .. Len(code) : code[m].of <= op_count
    BY <1>3, <1>4, <2>1 DEF Pending
  <2>3. \A m \in 1 .. Len(code) : code[m].of \in Nat
    <3>1. \A x \in Instructions : x.of \in Nat
      BY DEF Instructions
    <3>2. \A m \in 1 .. Len(code) : code[m] \in Instructions
      BY <1>2
    <3> QED BY <3>1, <3>2
  <2> QED BY <1>2, <2>2, <2>3 DEF Of
<1>7. CASE op_count = Len(ops)
  BY <1>2, <1>3, <1>6, <1>7 DEF Pending
<1>8. CASE op_count < Len(ops)
  <2>1. n \in DOMAIN ops /\ pieces' = write_vm_instr(n)
    BY <1>2, <1>3, <1>8
  <2> HIDE DEF n
  <2>2. CASE ops[n].opcode = istore
    BY <1>6, <2>1, <2>2, Translated DEF Pending
  <2>3. CASE ops[n].opcode = iwrite_
    BY <1>6, <2>1, <2>3, Translated DEF Pending
  <2>4. CASE ops[n].opcode # istore /\ ops[n].opcode # iwrite_
    <3>1. pieces' = <<>>
      BY <2>1, <2>4, Translated
    <3>2. n \in Nat /\ \A l \in DOMAIN ops : l < n + 1 => l < n \/ l = n
      BY <1>2, <2>1
    <3>3. StoresBefore(ops, code, n + 1, Len(code) + 1)
      BY <1>6, <2>4, <3>2 DEF Of, StoresBefore
    <3>4. \A m \in 1 .. Len(code) : code[m].of <= n
      BY <1>6 DEF Of
    <3> QED BY <1>6, <3>1, <3>3, <3>4 DEF Pending
  <2> QED BY <2>2, <2>3, <2>4
<1>9. op_count = Len(ops) \/ op_count < Len(ops)
  <2>1. op_count <= Len(ops)
    BY <1>3, Zenon
  <2>2. op_count \in Nat /\ Len(ops) \in Nat
    BY <1>2, Zenon
  <2> QED BY <2>1, <2>2
<1> QED BY <1>7, <1>8, <1>9

(* The processor does not change the code. *)
LEMMA ShapeStays ==
  ASSUME ShapeInv, WriterInv', UNCHANGED <<ops, op_count, pieces, code>>, control' # "writing"
  PROVE  ShapeInv'
  BY DEF ShapeInv

(* The code is in shape from the start. *)
LEMMA ShapeInitial == NativeInit => ShapeInv
<1> SUFFICES ASSUME NativeInit PROVE ShapeInv
  OBVIOUS
<1>1. code = <<>> /\ op_count = 0 /\ pieces = write_headers
  BY DEF NativeInit
<1>2. Pending(ops, code, pieces, op_count)
  BY <1>1 DEF Pending
<1>3. \A j \in 1 .. Len(code) : Shape(ops, code, j)
  BY <1>1
<1> QED BY <1>2, <1>3, WriterInit DEF ShapeInv

(***************************************************************************)
(* The processor.                                                          *)
(***************************************************************************)
(* What the instructions do. *)
LEMMA FrameFields ==
  /\ H1.is = "push" /\ H2.is = "mov" /\ H3.is = "sub"
  /\ H4.is = "store" /\ H4.r = "rdi" /\ H4.base = "rbp" /\ H4.disp = -8
  /\ H5.is = "store" /\ H5.r = "rsi" /\ H5.base = "rbp" /\ H5.disp = -16
  /\ R1.is = "ret"
  BY DEF S1, S2, S3, S4, W1, W2, W3, W4, H1, H2, H3, H4, H5, R1,
         Load, Store, Plain, Instruction

LEMMA Fields ==
  /\ \A i : S1(i).is = "load" /\ S1(i).r = "rsi" /\ S1(i).base = "rbp" /\ S1(i).disp = -8
  /\ \A i : S3(i).is = "load" /\ S3(i).r = "rdi" /\ S3(i).base = "rbp" /\ S3(i).disp = -16
  /\ \A i : W1(i).is = "load" /\ W1(i).r = "rsi" /\ W1(i).base = "rbp" /\ W1(i).disp = -16
  /\ \A i : W3(i).is = "bytes"
  /\ \A i : W4(i).is = "call"
  BY DEF S1, S2, S3, S4, W1, W2, W3, W4, Load, Store, Instruction

LEMMA OperandFields ==
  /\ \A o, i : /\ S2(o, i).is = "load" /\ S2(o, i).r = "rsi" /\ S2(o, i).base = "rsi"
               /\ S2(o, i).disp = Char(o[i].first_arg)
  /\ \A o, i : /\ S4(o, i).is = "store" /\ S4(o, i).r = "rsi" /\ S4(o, i).base = "rdi"
               /\ S4(o, i).disp = Char(o[i].dest_arg)
  /\ \A o, i : W2(o, i).is = "add" /\ W2(o, i).r = "rsi" /\ W2(o, i).disp = Char(o[i].dest_arg)
  BY DEF S1, S2, S3, S4, W1, W2, W3, W4, Load, Store, Instruction

(* What the next instruction can be, and what has then been executed.      *)
LEMMA Executed ==
  ASSUME ShapeInv, Executing
  PROVE  /\ pc \in Nat /\ pc < Len(code) /\ control = "code"
         /\ \/ pc = 0 /\ This = H1
            \/ pc = 1 /\ This = H2
            \/ pc = 2 /\ This = H3
            \/ pc = 3 /\ This = H4
            \/ pc = 4 /\ This = H5
            \/ /\ pc >= 5
               /\ \E i \in DOMAIN ops : InStore(ops, code, i, pc + 1) \/ InWrite(ops, code, i, pc + 1)
            \/ pc >= 5 /\ This = R1
<1>1. pc \in Nat /\ Len(code) \in Nat /\ pc < Len(code) /\ control = "code"
  BY Counted DEF ShapeInv, WriterInv, Executing
<1>2. pc + 1 \in 1 .. Len(code)
  BY <1>1
<1>3. Shape(ops, code, pc + 1)
  BY <1>2 DEF ShapeInv
<1>4. This = code[pc + 1]
  BY DEF This
<1>5. CASE InHeader(code, pc + 1)
  BY <1>1, <1>4, <1>5 DEF InHeader
<1>6. CASE \E i \in Nat : InStore(ops, code, i, pc + 1) \/ InWrite(ops, code, i, pc + 1)
  BY <1>1, <1>6 DEF InStore, InWrite
<1>7. CASE InFooter(ops, code, pc + 1)
  BY <1>1, <1>4, <1>7 DEF InFooter
<1> QED BY <1>1, <1>3, <1>5, <1>6, <1>7 DEF Shape

(* An instruction of an istore, behind the one in front of it. *)
LEMMA InStoreNow ==
  ASSUME ShapeInv, Executing, NEW i \in DOMAIN ops, InStore(ops, code, i, pc + 1)
  PROVE  /\ ops[i].opcode = istore /\ pc >= 5
         /\ \A m \in 1 .. pc : code[m].of <= i
         /\ \/ This = S1(i)
            \/ This = S2(ops, i) /\ code[pc] = S1(i)
            \/ This = S3(i)      /\ code[pc] = S2(ops, i)
            \/ This = S4(ops, i) /\ code[pc] = S3(i)
<1>1. pc \in Nat /\ (pc + 1) - 1 = pc
  BY Executed
<1> QED BY <1>1 DEF InStore, This

(* The stores that have been executed grow by the one that is executed. *)
LEMMA StoredGrows ==
  ASSUME ShapeInv, Executing, pc' = pc + 1, UNCHANGED <<ops, code>>
  PROVE  Stored' = Stored \cup {k \in DOMAIN ops : This.of = k /\ This.is = "store"}
<1>1. pc \in Nat
  BY Executed
<1>2. \A j : j \in 1 .. pc + 1 <=> j \in 1 .. pc \/ j = pc + 1
  BY <1>1
<1>3. Stored' = {k \in DOMAIN ops : \E j \in 1 .. pc + 1 : code[j].of = k /\ code[j].is = "store"}
  BY DEF Stored
<1> QED BY <1>2, <1>3 DEF Stored, This

(* A signed byte holds what is less than 128. *)
LEMMA CharNear == ASSUME NEW n \in Nat, n < 128 PROVE Char(n) = n
  BY DEF Char

(* Memory that only gains a quadword on the stack. *)
LEMMA StackOnly ==
  ASSUME StaticsHold, FrameHolds, NEW at, at[1] = "stack", NEW quadword, Puts(at, quadword),
         Stored' = Stored, UNCHANGED ops
  PROVE  StaticsHold' /\ FrameHolds' /\ Holds(at, quadword)'
         /\ \A a, q : a # at /\ Holds(a, q) => Holds(a, q)'
<1>1. /\ DOMAIN memory' = DOMAIN memory \cup {at}
      /\ \A a \in DOMAIN memory : a # at => memory'[a] = memory[a]
      /\ memory'[at] = quadword
  BY DEF Puts
<1>2. StaticsHold'
  <2>1. Statics' = Statics
    BY DEF Statics
  <2> QED BY <1>1, <2>1 DEF StaticsHold
<1>3. \A a, q : a # at /\ Holds(a, q) => Holds(a, q)'
  BY <1>1 DEF Holds
<1>4. FrameHolds'
  <2>1. \A a \in DOMAIN memory' :
          a[1] = "frame" => \E k \in Stored' : a[2] = Char(ops'[k].dest_arg)
    BY <1>1 DEF FrameHolds
  <2>2. FarStored' <=> FarStored
    BY DEF FarStored, Near
  <2>3. ASSUME NEW d, NEW q, Holds(<<"frame", d>>, q) PROVE Holds(<<"frame", d>>, q)'
    <3>1. <<"frame", d>> # at
      OBVIOUS
    <3> QED BY <1>3, <2>3, <3>1
  <2> QED BY <2>1, <2>2, <2>3 DEF FrameHolds
<1> QED BY <1>1, <1>2, <1>3, <1>4 DEF Holds

(* Memory that stays. *)
LEMMA MemoryStays ==
  ASSUME StaticsHold, FrameHolds, StackHolds, Stored' = Stored, UNCHANGED <<ops, memory>>,
         pc \in Nat, pc >= 5 \/ pc' <= 3 \/ pc' = pc, pc' \in {pc, pc + 1}
  PROVE  StaticsHold' /\ FrameHolds' /\ StackHolds'
<1>1. StaticsHold' /\ FrameHolds'
  BY DEF StaticsHold, FrameHolds, Statics, Holds, FarStored, Near
<1>2. \A a, q : Holds(a, q) => Holds(a, q)'
  BY DEF Holds
<1> QED BY <1>1, <1>2 DEF StackHolds

(***************************************************************************)
(* Each instruction keeps what the next ones rely on.                      *)
(***************************************************************************)
(* Where the instructions of each kind stand. *)
LEMMA ByKind ==
  ASSUME ShapeInv, Executing
  PROVE  /\ This.is = "push" => pc = 0
         /\ This.is = "mov" => pc = 1
         /\ This.is = "sub" => pc = 2
         /\ This.is = "store" =>
              \/ pc = 3 /\ This = H4
              \/ pc = 4 /\ This = H5
              \/ pc >= 5 /\ \E i \in DOMAIN ops : /\ InStore(ops, code, i, pc + 1)
                                                  /\ This = S4(ops, i) /\ code[pc] = S3(i)
         /\ This.is = "load" =>
              pc >= 5 /\ \E i \in DOMAIN ops :
                \/ This = S1(i)
                \/ This = S2(ops, i) /\ code[pc] = S1(i)
                \/ This = S3(i)      /\ code[pc] = S2(ops, i)
                \/ This = W1(i)
         /\ This.is = "add" => pc >= 5
<1>1. ASSUME NEW i \in DOMAIN ops, InWrite(ops, code, i, pc + 1), pc >= 5
      PROVE  This \in {W1(i), W2(ops, i), W3(i), W4(i)}
  BY <1>1 DEF InWrite, This
<1>2. CASE pc = 0 /\ This = H1
  BY <1>2, FrameFields
<1>3. CASE pc = 1 /\ This = H2
  BY <1>3, FrameFields
<1>4. CASE pc = 2 /\ This = H3
  BY <1>4, FrameFields
<1>5. CASE pc = 3 /\ This = H4
  BY <1>5, FrameFields
<1>6. CASE pc = 4 /\ This = H5
  BY <1>6, FrameFields
<1>7. CASE pc >= 5 /\ This = R1
  BY <1>7, FrameFields
<1>8. ASSUME pc >= 5, NEW i \in DOMAIN ops, InStore(ops, code, i, pc + 1)
      PROVE  /\ This.is \in {"load", "store"}
             /\ This.is = "store" => This = S4(ops, i) /\ code[pc] = S3(i)
             /\ This.is = "load" => \/ This = S1(i)
                                    \/ This = S2(ops, i) /\ code[pc] = S1(i)
                                    \/ This = S3(i)      /\ code[pc] = S2(ops, i)
  <2>1. \/ This = S1(i)
        \/ This = S2(ops, i) /\ code[pc] = S1(i)
        \/ This = S3(i)      /\ code[pc] = S2(ops, i)
        \/ This = S4(ops, i) /\ code[pc] = S3(i)
    BY <1>8, InStoreNow
  <2> QED BY <2>1, Fields, OperandFields
<1>9. ASSUME pc >= 5, NEW i \in DOMAIN ops, InWrite(ops, code, i, pc + 1)
      PROVE  /\ This.is \in {"load", "add", "bytes", "call"}
             /\ This.is = "load" => This = W1(i)
  <2>1. This \in {W1(i), W2(ops, i), W3(i), W4(i)}
    BY <1>1, <1>9
  <2> QED BY <2>1, Fields, OperandFields
<1>10. CASE pc >= 5 /\ \E i \in DOMAIN ops : InStore(ops, code, i, pc + 1)
  <2>1. PICK i \in DOMAIN ops : InStore(ops, code, i, pc + 1)
    BY <1>10
  <2> QED BY <2>1, <1>8, <1>10
<1>11. CASE pc >= 5 /\ \E i \in DOMAIN ops : InWrite(ops, code, i, pc + 1)
  <2>1. PICK i \in DOMAIN ops : InWrite(ops, code, i, pc + 1)
    BY <1>11
  <2> QED BY <2>1, <1>9, <1>11
<1> QED BY <1>2, <1>3, <1>4, <1>5, <1>6, <1>7, <1>10, <1>11, Executed

(* What an instruction that goes on leaves alone. *)
LEMMA Going ==
  ASSUME ShapeInv, NEW kind, Goes({kind})
  PROVE  /\ Executing /\ Sound /\ This.is = kind /\ pc' = pc + 1 /\ pc \in Nat
         /\ ops' = ops /\ code' = code /\ control' = control
         /\ code'[pc'] = This
         /\ (~ (This.is = "store" /\ This.of \in DOMAIN ops) => Stored' = Stored)
<1>1. /\ Executing /\ Sound /\ This.is = kind /\ pc' = pc + 1
      /\ ops' = ops /\ code' = code /\ control' = control
  BY DEF Goes, writerVars
<1>2. pc \in Nat
  BY <1>1, Executed
<1>3. code'[pc'] = This
  BY <1>1 DEF This
<1>4. Stored' = Stored \cup {k \in DOMAIN ops : This.of = k /\ This.is = "store"}
  BY <1>1, StoredGrows
<1> QED BY <1>1, <1>2, <1>3, <1>4

(* Behind an instruction that is no load of an istore. *)
LEMMA NoLoad == ASSUME code'[pc'].is # "load" PROVE LoadsHold'
<1>1. ASSUME NEW o, NEW i
      PROVE  code'[pc'] # S1(i) /\ code'[pc'] # S2(o, i) /\ code'[pc'] # S3(i)
  BY Fields, OperandFields
<1> QED BY <1>1 DEF LoadsHold

(* The first three instructions of the frame. *)
LEMMA PushHeld == ASSUME ShapeInv, Held, Push PROVE Held'
<1>1. Goes({"push"})
  BY DEF Push
<1>2. /\ pc' = pc + 1 /\ ops' = ops /\ Executing /\ This.is = "push"
      /\ code'[pc'] = This /\ Stored' = Stored
  <2>1. "push" # "store"
    OBVIOUS
  <2> QED BY <1>1, <2>1, Going
<1>3. pc = 0 /\ pc' = 1
  <2>1. pc = 0
    BY <1>2, ByKind
  <2> QED BY <1>2, <2>1
<1>4. reg["rsp"] = <<"stack", 0>>
  BY <1>3 DEF Held, RegistersHold
<1>5. Moved(reg["rsp"], -8) = <<"stack", -8>>
  BY <1>4 DEF Moved
<1>6. Puts(<<"stack", -8>>, reg["rbp"]) /\ reg' = [reg EXCEPT !["rsp"] = <<"stack", -8>>]
  BY <1>5 DEF Push
<1>7. StaticsHold' /\ FrameHolds'
  BY <1>2, <1>6, StackOnly DEF Held
<1>8. StackHolds'
  BY <1>3 DEF StackHolds
<1>9. LoadsHold'
  BY <1>2, NoLoad
<1>10. RegistersHold'
  BY <1>3, <1>6 DEF Held, RegistersHold
<1> QED BY <1>7, <1>8, <1>9, <1>10 DEF Held

LEMMA MoveHeld == ASSUME ShapeInv, Held, MoveRsp PROVE Held'
<1>1. Goes({"mov"})
  BY DEF MoveRsp
<1>2. /\ pc' = pc + 1 /\ ops' = ops /\ memory' = memory /\ Executing /\ This.is = "mov"
      /\ code'[pc'] = This /\ Stored' = Stored
  BY <1>1, Going DEF MoveRsp, Sets
<1>3. pc = 1 /\ pc' = 2
  BY <1>2, ByKind
<1>4. reg' = [reg EXCEPT !["rbp"] = <<"stack", -8>>]
  BY <1>3 DEF Held, RegistersHold, MoveRsp, Sets
<1>5. StaticsHold' /\ FrameHolds' /\ StackHolds'
  BY <1>2, <1>3, MemoryStays DEF Held
<1>6. LoadsHold'
  BY <1>2, NoLoad
<1>7. RegistersHold'
  BY <1>3, <1>4 DEF Held, RegistersHold
<1> QED BY <1>5, <1>6, <1>7 DEF Held

LEMMA SubHeld == ASSUME ShapeInv, Held, SubRsp PROVE Held'
<1>1. Goes({"sub"})
  BY DEF SubRsp
<1>2. /\ pc' = pc + 1 /\ ops' = ops /\ memory' = memory /\ Executing /\ This.is = "sub"
      /\ code'[pc'] = This /\ Stored' = Stored
  BY <1>1, Going, SMTT(30) DEF SubRsp, Sets
<1>3. pc = 2 /\ pc' = 3
  BY <1>2, ByKind
<1>4. PICK v : reg' = [reg EXCEPT !["rsp"] = v]
  BY DEF SubRsp, Sets
<1>5. StaticsHold' /\ FrameHolds' /\ StackHolds'
  BY <1>2, <1>3, MemoryStays DEF Held
<1>6. LoadsHold'
  BY <1>2, NoLoad
<1>7. RegistersHold'
  BY <1>3, <1>4 DEF Held, RegistersHold
<1> QED BY <1>5, <1>6, <1>7 DEF Held

(* What is loaded. *)
LEMMA LoadHeld == ASSUME ShapeInv, Held, LoadQuad PROVE Held'
<1>1. Goes({"load"})
  BY DEF LoadQuad
<1>2. /\ pc' = pc + 1 /\ pc \in Nat /\ ops' = ops /\ memory' = memory /\ Executing
      /\ This.is = "load" /\ Sound
      /\ code'[pc'] = This /\ Stored' = Stored
      /\ reg' = [reg EXCEPT ![This.r] = memory[Target]]
  <2>1. "load" # "store"
    OBVIOUS
  <2>2. reg' = [reg EXCEPT ![This.r] = memory[Target]] /\ memory' = memory
    BY DEF LoadQuad, Sets
  <2> QED BY <1>1, <2>1, <2>2, Going
<1>3. pc >= 5 /\ Target \in DOMAIN memory
  BY <1>2, ByKind DEF Sound
<1>4. StaticsHold' /\ FrameHolds' /\ StackHolds'
  BY <1>2, <1>3, MemoryStays DEF Held
<1>5. /\ reg["rbp"] = <<"stack", -8>>
      /\ Holds(<<"stack", -16>>, <<"statics", 0>>) /\ Holds(<<"stack", -24>>, <<"frame", 0>>)
  BY <1>2, <1>3 DEF Held, RegistersHold, StackHolds
<1>6. Target = <<reg[This.base][1], reg[This.base][2] + This.disp>>
  BY DEF Target, Moved
<1>7. DOMAIN reg = {"rax", "rbp", "rsi", "rdi", "rsp"}
  BY DEF Held, RegistersHold
<1>8. ASSUME This.r \in {"rsi", "rdi"} PROVE RegistersHold'
  <2>1. DOMAIN reg' = DOMAIN reg /\ reg'["rbp"] = reg["rbp"]
    BY <1>2, <1>7, <1>8
  <2> QED BY <1>2, <1>3, <1>5, <1>7, <2>1 DEF RegistersHold
<1>9. PICK i \in DOMAIN ops : \/ This = S1(i)
                              \/ This = S2(ops, i) /\ code[pc] = S1(i)
                              \/ This = S3(i)      /\ code[pc] = S2(ops, i)
                              \/ This = W1(i)
  BY <1>2, ByKind
<1>10. CASE This = S1(i)
  <2>1. Target = <<"stack", -16>> /\ This.r = "rsi"
    BY <1>5, <1>6, <1>10, Fields
  <2>2. reg'["rsi"] = <<"statics", 0>>
    BY <1>2, <1>5, <1>7, <2>1 DEF Holds
  <2>3. ASSUME NEW o, NEW k PROVE code'[pc'] # S2(o, k) /\ code'[pc'] # S3(k)
    BY <1>2, <1>10, Fields, OperandFields
  <2>4. LoadsHold'
    BY <2>2, <2>3 DEF LoadsHold
  <2> QED BY <1>4, <1>8, <2>1, <2>4 DEF Held
<1>11. CASE This = S2(ops, i) /\ code[pc] = S1(i)
  <2>1. reg["rsi"] = <<"statics", 0>>
    BY <1>2, <1>3, <1>11 DEF Held, LoadsHold
  <2>2. Char(ops[i].first_arg) \in Int
    BY Counted, CharInt DEF ShapeInv
  <2>3. Target = <<"statics", Char(ops[i].first_arg)>> /\ This.r = "rsi"
    BY <1>6, <1>11, <2>1, <2>2, OperandFields
  <2>4. memory[Target] = Target
    BY <1>3, <2>3 DEF Held, StaticsHold
  <2>5. reg'["rsi"] = <<"statics", This.disp>>
    BY <1>2, <1>7, <1>11, <2>3, <2>4, OperandFields
  <2>6. ASSUME NEW o, NEW k
        PROVE  /\ code'[pc'] # S1(k) /\ code'[pc'] # S3(k)
               /\ code'[pc'] = S2(o, k) => This.disp = Char(o[k].first_arg)
    BY <1>2, <1>11, Fields, OperandFields
  <2>7. LoadsHold'
    BY <2>5, <2>6 DEF LoadsHold
  <2> QED BY <1>4, <1>8, <2>3, <2>7 DEF Held
<1>12. CASE This = S3(i) /\ code[pc] = S2(ops, i)
  <2>1. reg["rsi"] = <<"statics", Char(ops[i].first_arg)>>
    BY <1>2, <1>3, <1>12 DEF Held, LoadsHold
  <2>2. Target = <<"stack", -24>> /\ This.r = "rdi"
    BY <1>5, <1>6, <1>12, Fields
  <2>3. reg'["rdi"] = <<"frame", 0>> /\ reg'["rsi"] = <<"statics", Char(ops[i].first_arg)>>
    BY <1>2, <1>5, <1>7, <2>1, <2>2 DEF Holds
  <2>4. ASSUME NEW o, NEW k
        PROVE  /\ code'[pc'] # S1(k) /\ code'[pc'] # S2(o, k)
               /\ code'[pc'] = S3(k) => k = i
    <3>1. S3(k).of = k /\ S3(i).of = i
      BY Belong
    <3> QED BY <1>2, <1>12, <3>1, Fields, OperandFields
  <2>5. LoadsHold'
    BY <1>2, <2>3, <2>4 DEF LoadsHold
  <2> QED BY <1>4, <1>8, <2>2, <2>5 DEF Held
<1>13. CASE This = W1(i)
  <2>1. This.r = "rsi"
    BY <1>13, Fields
  <2>2. ASSUME NEW o, NEW k
        PROVE  code'[pc'] # S1(k) /\ code'[pc'] # S2(o, k) /\ code'[pc'] # S3(k)
    BY <1>2, <1>13, Fields, OperandFields
  <2>3. LoadsHold'
    BY <2>2 DEF LoadsHold
  <2> QED BY <1>4, <1>8, <2>1, <2>3 DEF Held
<1> QED BY <1>9, <1>10, <1>11, <1>12, <1>13

LEMMA AddHeld == ASSUME ShapeInv, Held, AddOffset PROVE Held'
<1>1. Goes({"add"})
  BY DEF AddOffset
<1>2. /\ pc' = pc + 1 /\ pc \in Nat /\ ops' = ops /\ memory' = memory /\ Executing
      /\ This.is = "add" /\ code'[pc'] = This /\ Stored' = Stored
  <2>1. "add" # "store"
    OBVIOUS
  <2>2. memory' = memory
    BY DEF AddOffset, Sets
  <2> QED BY <1>1, <2>1, <2>2, Going
<1>3. pc >= 5 /\ This.r = "rsi"
  <2>1. pc >= 5
    BY <1>2, ByKind
  <2>2. PICK i \in DOMAIN ops : InStore(ops, code, i, pc + 1) \/ InWrite(ops, code, i, pc + 1)
    BY <1>2, <2>1, Executed, FrameFields
  <2>3. This \in {S1(i), S2(ops, i), S3(i), S4(ops, i), W1(i), W2(ops, i), W3(i), W4(i)}
    BY <1>2, <2>2, InStoreNow DEF InWrite, This
  <2> QED BY <1>2, <2>1, <2>3, Fields, OperandFields
<1>4. reg' = [reg EXCEPT !["rsi"] = Moved(reg["rsi"], This.disp)]
  BY <1>3 DEF AddOffset, Sets
<1>5. StaticsHold' /\ FrameHolds' /\ StackHolds'
  BY <1>2, <1>3, MemoryStays DEF Held
<1>6. LoadsHold'
  BY <1>2, NoLoad
<1>7. RegistersHold'
  BY <1>2, <1>3, <1>4 DEF Held, RegistersHold
<1> QED BY <1>5, <1>6, <1>7 DEF Held

(* A store of an istore: nothing else changes, and the slot holds what the *)
(* last store into it has put there.                                       *)
LEMMA FrameGrows ==
  ASSUME ShapeInv, Held, NEW i \in DOMAIN ops, pc \in Nat, ops' = ops,
         \A m \in 1 .. pc : code[m].of <= i,
         Stored' = Stored \cup {i},
         Puts(<<"frame", Char(ops[i].dest_arg)>>, <<"statics", Char(ops[i].first_arg)>>)
  PROVE  StaticsHold' /\ FrameHolds'
         /\ \A d, q : Holds(<<"stack", d>>, q) => Holds(<<"stack", d>>, q)'
<1> DEFINE at == <<"frame", Char(ops[i].dest_arg)>>
           quadword == <<"statics", Char(ops[i].first_arg)>>
<1>1. /\ DOMAIN memory' = DOMAIN memory \cup {at}
      /\ \A a \in DOMAIN memory : a # at => memory'[a] = memory[a]
      /\ memory'[at] = quadword
  BY DEF Puts
<1>2. at[1] = "frame" /\ at[2] = Char(ops[i].dest_arg)
  OBVIOUS
<1> HIDE DEF at
<1>3. StaticsHold'
  <2>1. Statics' = Statics
    BY DEF Statics
  <2>2. "frame" # "statics"
    OBVIOUS
  <2> QED BY <1>1, <1>2, <2>1, <2>2 DEF Held, StaticsHold
<1>4. \A a, q : a # at /\ Holds(a, q) => Holds(a, q)'
  BY <1>1 DEF Holds
<1>5. \A d, q : Holds(<<"stack", d>>, q) => Holds(<<"stack", d>>, q)'
  <2>1. \A d : <<"stack", d>> # at
    BY DEF at
  <2> QED BY <1>4, <2>1
<1>6. \A a \in DOMAIN memory' : a[1] = "frame" => \E k \in Stored' : a[2] = Char(ops'[k].dest_arg)
  BY <1>1, <1>2 DEF Held, FrameHolds
<1>7. ASSUME ~ FarStored', NEW k \in Stored',
             \A l \in Stored' : l > k => ops'[l].dest_arg # ops'[k].dest_arg
      PROVE  Holds(<<"frame", ops[k].dest_arg>>, <<"statics", ops[k].first_arg>>)'
  <2>1. ~ FarStored /\ \A l \in Stored' : Near(ops[l])
    BY <1>7 DEF FarStored, Near
  <2>2. Stored' \subseteq DOMAIN ops /\ DOMAIN ops \subseteq Nat
    BY Counted DEF Stored, ShapeInv
  <2>3. \A l \in Stored' : Char(ops[l].dest_arg) = ops[l].dest_arg
                           /\ Char(ops[l].first_arg) = ops[l].first_arg
    BY <2>1, <2>2, Counted, CharNear DEF Near, ShapeInv
  <2>4. CASE k = i
    BY <1>1, <2>3, <2>4 DEF Holds, at
  <2>5. CASE k # i
    <3>1. k \in Stored
      BY <2>5
    <3>2. k <= i
      <4>1. \E j \in 1 .. pc : code[j].of = k
        BY <3>1 DEF Stored
      <4> QED BY <4>1
    <3>3. k < i
      BY <2>2, <2>5, <3>2
    <3>4. ops[i].dest_arg # ops[k].dest_arg
      BY <1>7, <3>3
    <3>5. <<"frame", ops[k].dest_arg>> # at
      BY <2>3, <3>4 DEF at
    <3>6. Holds(<<"frame", ops[k].dest_arg>>, <<"statics", ops[k].first_arg>>)
      BY <1>7, <2>1, <3>1 DEF Held, FrameHolds
    <3> QED BY <1>4, <3>5, <3>6
  <2> QED BY <2>4, <2>5
<1> QED BY <1>3, <1>5, <1>6, <1>7 DEF FrameHolds

LEMMA StoreHeld == ASSUME ShapeInv, Held, StoreQuad PROVE Held'
<1>1. Goes({"store"})
  BY DEF StoreQuad
<1>2. /\ pc' = pc + 1 /\ pc \in Nat /\ ops' = ops /\ code' = code /\ Executing
      /\ This.is = "store" /\ code'[pc'] = This
      /\ Stored' = Stored \cup {k \in DOMAIN ops : This.of = k}
  <2>1. /\ pc' = pc + 1 /\ pc \in Nat /\ ops' = ops /\ code' = code /\ Executing
        /\ This.is = "store" /\ code'[pc'] = This
    BY <1>1, Going
  <2>2. Stored' = Stored \cup {k \in DOMAIN ops : This.of = k /\ This.is = "store"}
    BY <2>1, StoredGrows
  <2> QED BY <2>1, <2>2
<1>3. Puts(Target, reg[This.r]) /\ reg' = reg
  BY DEF StoreQuad
<1>4. Target = <<reg[This.base][1], reg[This.base][2] + This.disp>>
  BY DEF Target, Moved
<1>5. LoadsHold'
  <2>1. "store" # "load"
    OBVIOUS
  <2> QED BY <1>2, <2>1, NoLoad
<1>6. 0 \notin DOMAIN ops
  BY Counted DEF ShapeInv
<1>7. CASE pc = 3 /\ This = H4
  <2>1. reg["rbp"] = <<"stack", -8>> /\ reg["rdi"] = <<"statics", 0>>
    BY <1>7 DEF Held, RegistersHold
  <2>2. Puts(<<"stack", -16>>, <<"statics", 0>>)
    BY <1>3, <1>4, <1>7, <2>1, FrameFields
  <2>3. Stored' = Stored
    BY <1>2, <1>6, <1>7, Belong
  <2>4. StaticsHold' /\ FrameHolds' /\ Holds(<<"stack", -16>>, <<"statics", 0>>)'
    BY <1>2, <2>2, <2>3, StackOnly DEF Held
  <2>5. StackHolds'
    BY <1>2, <1>7, <2>4 DEF StackHolds
  <2>6. RegistersHold'
    BY <1>2, <1>3, <1>7 DEF Held, RegistersHold
  <2> QED BY <1>5, <2>4, <2>5, <2>6 DEF Held
<1>8. CASE pc = 4 /\ This = H5
  <2>1. reg["rbp"] = <<"stack", -8>> /\ reg["rsi"] = <<"frame", 0>>
    BY <1>8 DEF Held, RegistersHold
  <2>2. Puts(<<"stack", -24>>, <<"frame", 0>>)
    BY <1>3, <1>4, <1>8, <2>1, FrameFields
  <2>3. Stored' = Stored
    BY <1>2, <1>6, <1>8, Belong
  <2>4. /\ StaticsHold' /\ FrameHolds' /\ Holds(<<"stack", -24>>, <<"frame", 0>>)'
        /\ \A a, q : a # <<"stack", -24>> /\ Holds(a, q) => Holds(a, q)'
    BY <1>2, <2>2, <2>3, StackOnly DEF Held
  <2>5. Holds(<<"stack", -16>>, <<"statics", 0>>)'
    <3>1. <<"stack", -16>> # <<"stack", -24>>
      OBVIOUS
    <3>2. Holds(<<"stack", -16>>, <<"statics", 0>>)
      BY <1>8 DEF Held, StackHolds
    <3> QED BY <2>4, <3>1, <3>2
  <2>6. StackHolds'
    BY <2>4, <2>5 DEF StackHolds
  <2>7. RegistersHold'
    BY <1>2, <1>3, <1>8 DEF Held, RegistersHold
  <2> QED BY <1>5, <2>4, <2>6, <2>7 DEF Held
<1>9. CASE pc >= 5 /\ \E i \in DOMAIN ops : /\ InStore(ops, code, i, pc + 1)
                                            /\ This = S4(ops, i) /\ code[pc] = S3(i)
  <2>1. PICK i \in DOMAIN ops : /\ InStore(ops, code, i, pc + 1)
                                /\ This = S4(ops, i) /\ code[pc] = S3(i)
    BY <1>9
  <2>2. reg["rdi"] = <<"frame", 0>> /\ reg["rsi"] = <<"statics", Char(ops[i].first_arg)>>
    BY <1>2, <1>9, <2>1 DEF Held, LoadsHold
  <2>3. Char(ops[i].dest_arg) \in Int
    BY Counted, CharInt DEF ShapeInv
  <2>4. Puts(<<"frame", Char(ops[i].dest_arg)>>, <<"statics", Char(ops[i].first_arg)>>)
    <3>1. This.base = "rdi" /\ This.r = "rsi" /\ This.disp = Char(ops[i].dest_arg)
      BY <2>1, OperandFields
    <3>2. Target = <<"frame", Char(ops[i].dest_arg)>>
      BY <1>4, <2>2, <2>3, <3>1
    <3> QED BY <1>3, <2>2, <3>1, <3>2
  <2>5. Stored' = Stored \cup {i}
    <3>1. This.of = i
      BY <2>1, Belong
    <3> QED BY <1>2, <3>1
  <2>6. \A m \in 1 .. pc : code[m].of <= i
    BY <1>2, <2>1, InStoreNow
  <2>7. /\ StaticsHold' /\ FrameHolds'
        /\ \A d, q : Holds(<<"stack", d>>, q) => Holds(<<"stack", d>>, q)'
    BY <1>2, <2>4, <2>5, <2>6, FrameGrows
  <2>8. StackHolds'
    BY <1>2, <1>9, <2>7 DEF Held, StackHolds
  <2>9. RegistersHold'
    BY <1>2, <1>3, <1>9 DEF Held, RegistersHold
  <2> QED BY <1>5, <2>7, <2>8, <2>9 DEF Held
<1> QED BY <1>2, <1>7, <1>8, <1>9, ByKind

(***************************************************************************)
(* Where the code goes wrong, and what holds when it runs.                 *)
(***************************************************************************)
LEMMA SoundKinds ==
  /\ This.is = "load" /\ Target \in DOMAIN memory => Sound
  /\ This.is = "store" /\ (Target[1] = "frame" => Target[2] \in 0 .. FrameBytes - 8) => Sound
  /\ This.is \in {"mov", "sub", "ret"} => Sound
<1>1. ASSUME This.is = "load", Target \in DOMAIN memory PROVE Sound
  BY <1>1, Zenon DEF Sound
<1>2. ASSUME This.is = "store", Target[1] = "frame" => Target[2] \in 0 .. FrameBytes - 8
      PROVE  Sound
  <2>1. "store" # "load"
    OBVIOUS
  <2> QED BY <1>2, <2>1, Zenon DEF Sound
<1>3. ASSUME This.is \in {"mov", "sub", "ret"} PROVE Sound
  <2>1. This.is # "load" /\ This.is # "store" /\ This.is # "bytes"
    BY <1>3
  <2> QED BY <2>1, Zenon DEF Sound
<1> QED BY <1>1, <1>2, <1>3

(* Only an iwrite_ and an offset that is wider than its byte go wrong. *)
LEMMA WrongOnly ==
  ASSUME ShapeInv, Held, Executing, ~ Sound, pc > 0
  PROVE  ops[This.of].opcode = iwrite_ \/ ~ Near(ops[This.of])
<1>1. pc \in Nat /\ DOMAIN reg = {"rax", "rbp", "rsi", "rdi", "rsp"}
  BY Executed DEF Held, RegistersHold
<1>2. Target = <<reg[This.base][1], reg[This.base][2] + This.disp>>
  BY DEF Target, Moved
<1>3. pc >= 2 => reg["rbp"] = <<"stack", -8>>
  BY DEF Held, RegistersHold
<1>4. pc >= 5 => /\ Holds(<<"stack", -16>>, <<"statics", 0>>)
                 /\ Holds(<<"stack", -24>>, <<"frame", 0>>)
  BY <1>1 DEF Held, StackHolds
<1>5. ~ (pc = 1 /\ This = H2) /\ ~ (pc = 2 /\ This = H3) /\ ~ (pc >= 5 /\ This = R1)
  BY SoundKinds, FrameFields
<1>6. ~ (pc = 3 /\ This = H4)
  <2>1. SUFFICES ASSUME pc = 3, This = H4 PROVE Sound
    OBVIOUS
  <2>2. Target[1] = "stack" /\ This.is = "store"
    BY <1>2, <1>3, <2>1, FrameFields
  <2> QED BY <2>2, SoundKinds
<1>7. ~ (pc = 4 /\ This = H5)
  <2>1. SUFFICES ASSUME pc = 4, This = H5 PROVE Sound
    OBVIOUS
  <2>2. Target[1] = "stack" /\ This.is = "store"
    BY <1>2, <1>3, <2>1, FrameFields
  <2> QED BY <2>2, SoundKinds
<1>8. ASSUME pc >= 5, NEW i \in DOMAIN ops, InWrite(ops, code, i, pc + 1)
      PROVE  ops[This.of].opcode = iwrite_
  <2>1. This \in {W1(i), W2(ops, i), W3(i), W4(i)} /\ ops[i].opcode = iwrite_
    BY <1>8 DEF InWrite, This
  <2>2. This.of = i
    BY <2>1, Belong
  <2> QED BY <2>1, <2>2
<1>9. ASSUME pc >= 5, NEW i \in DOMAIN ops, InStore(ops, code, i, pc + 1), Near(ops[i])
      PROVE  Sound
  <2>1. /\ ops[i].dest_arg \in Nat /\ ops[i].dest_arg % 8 = 0 /\ ops[i].dest_arg < 128
        /\ ops[i].first_arg \in Nat /\ ops[i].first_arg % 8 = 0
        /\ ops[i].first_arg < 128 /\ ops[i].first_arg < StaticsBytes
    BY <1>9, Counted DEF ShapeInv, Near
  <2>2. Char(ops[i].dest_arg) = ops[i].dest_arg /\ Char(ops[i].first_arg) = ops[i].first_arg
    BY <2>1, CharNear
  <2>3. CASE This = S1(i)
    <3>1. Target = <<"stack", -16>> /\ This.is = "load"
      BY <1>2, <1>3, <1>9, <1>1, <2>3, Fields
    <3> QED BY <1>4, <1>9, <3>1, SoundKinds DEF Holds
  <2>4. CASE This = S2(ops, i) /\ code[pc] = S1(i)
    <3>1. reg["rsi"] = <<"statics", 0>>
      BY <1>1, <1>9, <2>4 DEF Held, LoadsHold
    <3>2. This.base = "rsi" /\ This.is = "load" /\ This.disp = ops[i].first_arg
      BY <2>2, <2>4, OperandFields
    <3>3. Target = <<"statics", ops[i].first_arg>>
      BY <1>2, <2>1, <3>1, <3>2
    <3>4. Target \in Statics
      <4> DEFINE f == ops[i].first_arg
                 k == f \div 8
      <4>1. f \in Nat /\ f % 8 = 0 /\ f < StaticsBytes /\ StaticsBytes \in Nat /\ StaticsBytes % 8 = 0
        BY <2>1, NativeAssumption
      <4> HIDE DEF f
      <4>2. f = 8 * k /\ k \in 0 .. (StaticsBytes \div 8) - 1
        BY <4>1
      <4> HIDE DEF k
      <4>3. <<"statics", 8 * k>> \in Statics
        BY <4>2 DEF Statics
      <4> QED BY <3>3, <4>2, <4>3 DEF f
    <3> QED BY <3>2, <3>4, SoundKinds DEF Held, StaticsHold
  <2>5. CASE This = S3(i)
    <3>1. Target = <<"stack", -24>> /\ This.is = "load"
      BY <1>2, <1>3, <1>9, <1>1, <2>5, Fields
    <3> QED BY <1>4, <1>9, <3>1, SoundKinds DEF Holds
  <2>6. CASE This = S4(ops, i) /\ code[pc] = S3(i)
    <3>1. reg["rdi"] = <<"frame", 0>>
      BY <1>1, <1>9, <2>6 DEF Held, LoadsHold
    <3>2. This.base = "rdi" /\ This.is = "store" /\ This.disp = ops[i].dest_arg
      BY <2>2, <2>6, OperandFields
    <3>3. Target = <<"frame", ops[i].dest_arg>>
      BY <1>2, <2>1, <3>1, <3>2
    <3>4. ops[i].dest_arg \in 0 .. FrameBytes - 8
      <4>1. FrameBytes \in Nat /\ FrameBytes >= 128
        BY NativeAssumption
      <4> QED BY <2>1, <4>1
    <3> QED BY <3>2, <3>3, <3>4, SoundKinds
  <2> QED BY <1>9, <2>3, <2>4, <2>5, <2>6, InStoreNow
<1>10. CASE pc >= 5 /\ \E i \in DOMAIN ops : InStore(ops, code, i, pc + 1)
  <2>1. PICK i \in DOMAIN ops : InStore(ops, code, i, pc + 1)
    BY <1>10
  <2>2. ~ Near(ops[i])
    BY <1>9, <1>10, <2>1
  <2>3. This \in {S1(i), S2(ops, i), S3(i), S4(ops, i)}
    BY <2>1, InStoreNow
  <2>4. This.of = i
    BY <2>3, Belong
  <2> QED BY <2>2, <2>4
<1>11. CASE pc >= 5 /\ \E i \in DOMAIN ops : InWrite(ops, code, i, pc + 1)
  BY <1>8, <1>11
<1> QED BY <1>5, <1>6, <1>7, <1>10, <1>11, Executed

(* The call hands over the statics and the frame. *)
LEMMA CallHeld == ASSUME RunInv, CallCode PROVE Held'
<1>1. pc = 0 /\ pc' = 0 /\ ops' = ops
  BY DEF CallCode, RunInv, ShapeInv, WriterInv
<1>2. /\ memory' = [at \in Statics \cup {<<"stack", 0>>} |->
                      IF at \in Statics THEN at ELSE <<"main", 0>>]
      /\ reg' = [reg EXCEPT !["rdi"] = <<"statics", 0>>, !["rsi"] = <<"frame", 0>>,
                            !["rsp"] = <<"stack", 0>>, !["rbp"] = <<"caller", 0>>]
  BY Zenon DEF CallCode
<1>3. DOMAIN reg = {"rax", "rbp", "rsi", "rdi", "rsp"}
  BY DEF CallCode, RunInv, Registers
<1>4. Stored' = {}
  BY <1>1 DEF Stored
<1>5. \A at \in Statics : at[1] = "statics"
  BY DEF Statics
<1>6. Statics' = Statics
  BY DEF Statics
<1>7. StaticsHold'
  BY <1>2, <1>5, <1>6 DEF StaticsHold
<1>8. FrameHolds'
  BY <1>2, <1>4, <1>5 DEF FrameHolds
<1>9. RegistersHold' /\ LoadsHold' /\ StackHolds'
  BY <1>1, <1>2, <1>3 DEF RegistersHold, LoadsHold, StackHolds
<1> QED BY <1>7, <1>8, <1>9 DEF Held

(* A return, and where the code goes wrong, leave memory and the registers *)
(* alone.                                                                  *)
LEMMA RestHeld ==
  ASSUME ShapeInv, Held, pc \in Nat, pc' = pc \/ (pc' = pc + 1 /\ pc >= 5),
         ops' = ops, code' = code, memory' = memory, reg' = reg, Stored' = Stored,
         pc' = pc \/ code'[pc'].is # "load"
  PROVE  Held'
<1>1. StaticsHold' /\ FrameHolds' /\ StackHolds'
  BY MemoryStays DEF Held
<1>2. RegistersHold'
  BY DEF Held, RegistersHold
<1>3. LoadsHold'
  <2>1. CASE pc' = pc
    BY <2>1 DEF Held, LoadsHold
  <2>2. CASE code'[pc'].is # "load"
    BY <2>2, NoLoad
  <2> QED BY <2>1, <2>2
<1> QED BY <1>1, <1>2, <1>3 DEF Held

LEMMA RetHeld == ASSUME ShapeInv, Held, Ret PROVE Held'
<1>1. /\ Executing /\ This.is = "ret" /\ pc' = pc + 1
      /\ ops' = ops /\ code' = code /\ reg' = reg /\ memory' = memory
  BY DEF Ret, writerVars
<1>2. pc \in Nat
  BY <1>1, Executed
<1>3. pc >= 5
  BY <1>1, <1>2, Executed, FrameFields, Fields, OperandFields
<1>4. code'[pc'] = This
  BY <1>1 DEF This
<1>5. Stored' = Stored
  <2>1. Stored' = Stored \cup {k \in DOMAIN ops : This.of = k /\ This.is = "store"}
    BY <1>1, StoredGrows
  <2>2. This.is # "store"
    BY <1>1
  <2> QED BY <2>1, <2>2
<1>6. code'[pc'].is # "load"
  BY <1>1, <1>4
<1> QED BY <1>1, <1>2, <1>3, <1>5, <1>6, RestHeld

(***************************************************************************)
(* The invariant of the run.                                               *)
(***************************************************************************)
LEMMA RunInitial == NativeInit => RunInv
<1> SUFFICES ASSUME NativeInit PROVE RunInv
  OBVIOUS
<1>1. control = "writing" /\ Registers
  BY DEF NativeInit, Registers
<1> QED BY <1>1, ShapeInitial DEF RunInv, StaysInside

(* The registers keep their names. *)
LEMMA RegistersStay ==
  ASSUME Registers, [NativeNext]_nativeVars
  PROVE  Registers'
<1>1. ASSUME NEW r, NEW v, Sets(r, v) PROVE Registers'
  BY <1>1 DEF Registers, Sets
<1> QED
  BY <1>1 DEF NativeNext, NativeStep, NativeDone, write_mem, write_vm_code, CallCode, Push,
       MoveRsp, SubRsp, LoadQuad, StoreQuad, AddOffset, Ret, GoWrong, Registers,
       nativeVars, processorVars

LEMMA RunInductive == RunInv /\ [NativeNext]_nativeVars => RunInv'
<1> SUFFICES ASSUME RunInv, [NativeNext]_nativeVars PROVE RunInv'
  OBVIOUS
<1>1. ShapeInv /\ WriterInv /\ WriterInv' /\ Registers' /\ (control # "writing" => Held)
  BY WriterInductive, RegistersStay DEF RunInv, ShapeInv
<1>2. CASE write_mem
  <2>1. control' = "writing"
    BY <1>1, <1>2 DEF write_mem, WriterInv, Finished
  <2> QED BY <1>1, <1>2, <2>1, MemShape DEF RunInv, StaysInside
<1>3. CASE write_vm_code
  <2>1. control = "writing"
    BY <1>1, <1>3, Counted DEF write_vm_code, WriterInv, Finished
  <2>2. control' = "writing"
    BY <1>3, <2>1 DEF write_vm_code
  <2> QED BY <1>1, <1>3, <2>2, CodeShape DEF RunInv, StaysInside
<1>4. CASE CallCode
  <2>1. /\ UNCHANGED <<ops, op_count, pieces, code>> /\ control' # "writing" /\ pc' = pc
    BY <1>4 DEF CallCode, writerVars
  <2>2. ShapeInv'
    BY <1>1, <2>1, ShapeStays
  <2>3. ~ (pc' > 0)
    BY <1>1, <1>4, <2>1 DEF CallCode, WriterInv
  <2> QED BY <1>1, <1>4, <2>2, <2>3, CallHeld DEF RunInv, StaysInside
<1>5. CASE Push \/ MoveRsp \/ SubRsp \/ LoadQuad \/ StoreQuad \/ AddOffset
  <2>1. PICK kind : Goes({kind})
    BY <1>5 DEF Push, MoveRsp, SubRsp, LoadQuad, StoreQuad, AddOffset
  <2>2. control = "code" /\ control' = "code" /\ UNCHANGED <<ops, op_count, pieces, code>>
    BY <2>1 DEF Goes, Executing, writerVars
  <2>3. Held
    BY <1>1, <2>2
  <2>4. Held'
    BY <1>1, <1>5, <2>3, PushHeld, MoveHeld, SubHeld, LoadHeld, StoreHeld, AddHeld
  <2>5. ShapeInv'
    BY <1>1, <2>2, ShapeStays
  <2> QED BY <1>1, <2>2, <2>4, <2>5 DEF RunInv, StaysInside
<1>6. CASE Ret
  <2>1. /\ control = "code" /\ control' = "returned"
        /\ UNCHANGED <<ops, op_count, pieces, code>>
    BY <1>6 DEF Ret, Executing, writerVars
  <2>2. Held'
    BY <1>1, <1>6, <2>1, RetHeld
  <2>3. ShapeInv'
    BY <1>1, <2>1, ShapeStays
  <2> QED BY <1>1, <2>1, <2>2, <2>3 DEF RunInv, StaysInside
<1>7. CASE GoWrong
  <2>1. /\ Executing /\ ~ Sound /\ control = "code" /\ control' = "undefined"
        /\ UNCHANGED <<ops, op_count, pieces, code, pc, reg, memory>>
    BY <1>7 DEF GoWrong, Executing, writerVars, processorVars
  <2>2. Held
    BY <1>1, <2>1
  <2>3. Held'
    <3>1. Stored' = Stored
      BY <2>1 DEF Stored
    <3>2. pc \in Nat
      BY <1>1, <2>1, Executed
    <3> QED BY <1>1, <2>1, <2>2, <3>1, <3>2, RestHeld
  <2>4. ShapeInv'
    BY <1>1, <2>1, ShapeStays
  <2>5. StaysInside'
    <3>1. pc > 0 => ops[This.of].opcode = iwrite_ \/ ~ Near(ops[This.of])
      BY <1>1, <2>1, <2>2, WrongOnly
    <3> QED BY <2>1, <3>1 DEF StaysInside, This, Near
  <2> QED BY <1>1, <2>3, <2>4, <2>5 DEF RunInv
<1>8. CASE UNCHANGED nativeVars
  <2>1. ShapeInv'
    BY <1>1, <1>8 DEF nativeVars, writerVars, processorVars, ShapeInv
  <2>2. StaysInside'
    BY <1>8 DEF RunInv, StaysInside, This, Near, nativeVars, writerVars, processorVars
  <2>3. ASSUME control # "writing" PROVE Held'
    <3>1. UNCHANGED <<ops, code, memory, reg, pc>> /\ Stored' = Stored
      BY <1>8 DEF nativeVars, writerVars, processorVars, Stored
    <3>2. pc \in Nat
      BY <1>1, Counted DEF WriterInv
    <3> QED BY <1>1, <2>3, <3>1, <3>2, RestHeld
  <2> QED BY <1>1, <1>8, <2>1, <2>2, <2>3 DEF RunInv, nativeVars
<1> QED BY <1>2, <1>3, <1>4, <1>5, <1>6, <1>7, <1>8
        DEF NativeNext, NativeStep, NativeDone

(* The code leaves the frame of main, the statics and its stack only at an *)
(* iwrite_, or at an istore whose offset is wider than its displacement    *)
(* byte or than the statics, whatever operations are translated.           *)
THEOREM StaysWithin == NativeSpec => []StaysInside
<1>1. RunInv => StaysInside
  BY DEF RunInv
<1> QED BY <1>1, RunInitial, RunInductive, PTL DEF NativeSpec

(***************************************************************************)
(* What has been stored.                                                   *)
(***************************************************************************)
(* A store of the code in its shape is the one of an istore, and a return  *)
(* is the footer.                                                          *)
LEMMA StoreOrReturn ==
  ASSUME ShapeInv, NEW m \in 1 .. Len(code)
  PROVE  /\ \A k \in DOMAIN ops :
              code[m].is = "store" /\ code[m].of = k => InStore(ops, code, k, m)
         /\ code[m].is = "ret" => InFooter(ops, code, m)
<1>1. Shape(ops, code, m) /\ 0 \notin DOMAIN ops
  BY Counted DEF ShapeInv
<1>2. CASE InHeader(code, m)
  BY <1>1, <1>2, FrameFields, Belong DEF InHeader
<1>3. ASSUME NEW i \in Nat, InStore(ops, code, i, m)
      PROVE  code[m].of = i /\ code[m].is # "ret"
  <2>1. code[m] \in {S1(i), S2(ops, i), S3(i), S4(ops, i)}
    BY <1>3 DEF InStore
  <2>2. code[m].of = i
    BY <2>1, Belong
  <2>3. code[m].is \in {"load", "store"}
    BY <2>1, Fields, OperandFields
  <2> QED BY <2>2, <2>3
<1>4. ASSUME NEW i \in Nat, InWrite(ops, code, i, m)
      PROVE  code[m].is # "store" /\ code[m].is # "ret"
  <2>1. code[m] \in {W1(i), W2(ops, i), W3(i), W4(i)}
    BY <1>4 DEF InWrite
  <2> QED BY <2>1, Fields, OperandFields
<1>5. CASE InFooter(ops, code, m)
  BY <1>5, FrameFields DEF InFooter
<1> QED BY <1>1, <1>2, <1>3, <1>4, <1>5 DEF Shape

(* A store that stands in front of the next instruction has been executed. *)
LEMMA BeforeStored ==
  ASSUME ShapeInv, NEW m \in 1 .. Len(code), NEW i \in Nat, StoresBefore(ops, code, i, m), m <= pc,
         NEW j \in DOMAIN ops, j < i, ops[j].opcode = istore
  PROVE  j \in Stored
<1>1. PICK l \in 1 .. m - 1 : code[l] = S4(ops, j)
  BY DEF StoresBefore
<1>2. l \in 1 .. pc
  <2>1. Len(code) \in Nat /\ pc \in 0 .. Len(code)
    BY Counted DEF ShapeInv, WriterInv
  <2> QED BY <2>1
<1>3. code[l].of = j /\ code[l].is = "store"
  BY <1>1, Belong, OperandFields
<1> QED BY <1>2, <1>3 DEF Stored

(* The istores are executed in the order of the operations. *)
LEMMA InOrder ==
  ASSUME ShapeInv, NEW k \in Stored, NEW j \in 1 .. k - 1, ops[j].opcode = istore
  PROVE  j \in Stored
<1>1. k \in DOMAIN ops /\ DOMAIN ops = 1 .. Len(ops) /\ Len(ops) \in Nat
  BY Counted DEF Stored, ShapeInv
<1>2. PICK m \in 1 .. pc : code[m].of = k /\ code[m].is = "store"
  BY DEF Stored
<1>3. m \in 1 .. Len(code) /\ m <= pc
  <2>1. Len(code) \in Nat /\ pc \in 0 .. Len(code)
    BY Counted DEF ShapeInv, WriterInv
  <2> QED BY <2>1
<1>4. StoresBefore(ops, code, k, m)
  BY <1>1, <1>2, <1>3, StoreOrReturn DEF InStore
<1>5. j \in DOMAIN ops /\ j < k /\ k \in Nat
  BY <1>1
<1> QED BY <1>3, <1>4, <1>5, BeforeStored

(* Code that has run to its end has executed them all. *)
LEMMA AllStored ==
  ASSUME ShapeInv, control # "writing", pc = Len(code), NEW k \in DOMAIN ops,
         ops[k].opcode = istore
  PROVE  k \in Stored
<1>1. code # <<>> /\ code[Len(code)].is = "ret"
  BY DEF ShapeInv, WriterInv, Finished
<1>2. DOMAIN ops = 1 .. Len(ops) /\ Len(ops) \in Nat /\ code \in Seq(Instructions)
  BY Counted DEF ShapeInv
<1>3. Len(code) \in 1 .. Len(code) /\ Len(code) <= pc
  BY <1>1, <1>2
<1>4. StoresBefore(ops, code, Len(ops) + 1, Len(code))
  BY <1>1, <1>3, StoreOrReturn DEF InFooter
<1>5. k < Len(ops) + 1 /\ Len(ops) + 1 \in Nat
  BY <1>2
<1> QED BY <1>3, <1>4, <1>5, BeforeStored

(* Every istore is executed, in the order of the operations, the last one  *)
(* into a slot stays, and nothing else is written to the frame, whatever   *)
(* operations are translated, up to an offset wider than its byte.         *)
THEOREM StoresDone == NativeSpec => []NativeStores
<1>1. RunInv => NativeStores
  <2> SUFFICES ASSUME RunInv, control # "writing", \A k \in Stored : Near(ops[k])
               PROVE  /\ \A k \in Stored :
                           /\ \A j \in 1 .. k - 1 : ops[j].opcode = istore => j \in Stored
                           /\ (\A l \in Stored : l > k => ops[l].dest_arg # ops[k].dest_arg) =>
                                Holds(<<"frame", ops[k].dest_arg>>,
                                      <<"statics", ops[k].first_arg>>)
                      /\ \A at \in DOMAIN memory :
                           at[1] = "frame" => \E k \in Stored : at[2] = ops[k].dest_arg
                      /\ pc = Len(code) =>
                           \A k \in DOMAIN ops : ops[k].opcode = istore => k \in Stored
    BY DEF NativeStores
  <2>1. ShapeInv /\ FrameHolds
    BY DEF RunInv, Held
  <2>2. \A k \in Stored : \A j \in 1 .. k - 1 : ops[j].opcode = istore => j \in Stored
    BY <2>1, InOrder
  <2>3. ~ FarStored
    BY DEF FarStored
  <2>4. \A k \in Stored : Char(ops[k].dest_arg) = ops[k].dest_arg
    <3>1. \A k \in Stored : ops[k].dest_arg \in Nat /\ ops[k].dest_arg < 128
      BY <2>1, Counted DEF Stored, ShapeInv, Near
    <3> QED BY <3>1, CharNear
  <2>5. \A at \in DOMAIN memory : at[1] = "frame" => \E k \in Stored : at[2] = ops[k].dest_arg
    BY <2>1, <2>4 DEF FrameHolds
  <2>6. pc = Len(code) => \A k \in DOMAIN ops : ops[k].opcode = istore => k \in Stored
    BY <2>1, AllStored
  <2> QED BY <2>1, <2>2, <2>3, <2>5, <2>6 DEF FrameHolds
<1> QED BY <1>1, RunInitial, RunInductive, PTL DEF NativeSpec
=============================================================================
