------------------------------ MODULE DulNative ------------------------------
(***************************************************************************)
(* The native translator (asmexamples.c) and the call of what it made      *)
(* (main.c): operations become x86-64 instructions, piece by piece, and    *)
(* the processor runs them on a frame of FrameBytes bytes.                 *)
(*                                                                         *)
(* An address is <<region, offset>>: offset 0 of the "stack" is where the  *)
(* call has left the return address, the "statics" and the "frame" are the *)
(* two arguments of the call.  Memory holds quadwords: addresses, and what *)
(* the statics hold, which goes by the name of the address it started at.  *)
(***************************************************************************)
EXTENDS DulIR, Sequences

CONSTANTS
  OpSequences,       \* the operations the code generator may hand over
  CodeBytes,         \* the initial capacity of the writer
  FrameBytes,        \* the size of the frame main allocates
  StaticsBytes       \* the size of the statics, 8 bytes each

ASSUME NativeAssumption ==
  /\ OpSequences \subseteq Seq([opcode : iwrite_ .. cast_to_float_m, dest_arg : Nat,
                                first_arg : Nat, second_arg : Nat])
  /\ \A s \in OpSequences : \A i \in DOMAIN s : s[i].dest_arg % 8 = 0 /\ s[i].first_arg % 8 = 0
  /\ CodeBytes \in Nat /\ FrameBytes \in Nat /\ FrameBytes >= 128
  /\ StaticsBytes \in Nat /\ StaticsBytes % 8 = 0

VARIABLES
  ops,               (* internal_code.ops                                  *)
  op_count,          (* how many of them write_vm_code has translated      *)
  pieces,            (* the calls of write_mem that are still to be made   *)
  code,              (* asmwriter.mem, as instructions                     *)
  mem_size, memcap,  (* asmwriter                                          *)
  control,           (* "writing", "code", "returned" or "undefined"       *)
  rip,               (* where the code has returned to                     *)
  pc,                (* how many instructions have been executed           *)
  reg,               (* the registers                                      *)
  memory             (* address -> quadword, where something lies          *)

writerVars    == <<op_count, pieces, code, mem_size, memcap>>
processorVars == <<rip, pc, reg, memory>>
nativeVars    == <<ops, writerVars, control, processorVars>>

(***************************************************************************)
(* Instructions, each with the number of its operation (0 for the frame of *)
(* the function), and the pieces of bytes they are written in.             *)
(***************************************************************************)
(* (char): the signed byte that is left of an offset. *)
Char(n) == ((n + 128) % 256) - 128

Instruction(is, r, base, disp, of) == [is |-> is, r |-> r, base |-> base, disp |-> disp, of |-> of]
Load(disp, base, r, of)  == Instruction("load", r, base, disp, of)
Store(r, disp, base, of) == Instruction("store", r, base, disp, of)
Plain(is)                == Instruction(is, "", "", 0, 0)

Piece(bytes, instructions) == [bytes |-> bytes, instructions |-> instructions]

(* push and mov are of the frame pointer, sub makes room of 16 bytes: push  *)
(* rbp; mov rsp, rbp; sub 16, rsp.                                         *)
write_headers ==
  <<Piece(16, <<Plain("push"), Plain("mov"), Plain("sub"),
                Store("rdi", -8, "rbp", 0), Store("rsi", -16, "rbp", 0)>>)>>

(* One of the two bytes: the pop of the frame pointer is not written, and   *)
(* the stack pointer is not moved back.                                    *)
write_footer == <<Piece(1, <<Plain("ret")>>)>>

(* Bugs a run must notice: the two arguments of an istore swapped; the     *)
(* first pointer taken from the slot of the second.                        *)
write_vm_instr_Swapped(i) ==
  IF ops[i].opcode # istore THEN <<>>
  ELSE <<Piece(8, <<Load(-8, "rbp", "rsi", i), Load(Char(ops[i].dest_arg), "rsi", "rsi", i)>>),
         Piece(8, <<Load(-16, "rbp", "rdi", i), Store("rsi", Char(ops[i].first_arg), "rdi", i)>>)>>

write_vm_instr_OneSlot(i) ==
  IF ops[i].opcode # istore THEN <<>>
  ELSE <<Piece(8, <<Load(-16, "rbp", "rsi", i), Load(Char(ops[i].first_arg), "rsi", "rsi", i)>>),
         Piece(8, <<Load(-16, "rbp", "rdi", i), Store("rsi", Char(ops[i].dest_arg), "rdi", i)>>)>>

(* An iwrite_ adds its offset to the frame pointer where it should read    *)
(* the slot, and what should load the address of print_integer is half an  *)
(* opcode with the first bytes of that function behind it ("bytes"), in    *)
(* front of a call of rax.  There is nothing for any other opcode.         *)
write_vm_instr(i) ==
  CASE ops[i].opcode = istore ->
         <<Piece(8, <<Load(-8, "rbp", "rsi", i), Load(Char(ops[i].first_arg), "rsi", "rsi", i)>>),
           Piece(8, <<Load(-16, "rbp", "rdi", i), Store("rsi", Char(ops[i].dest_arg), "rdi", i)>>)>>
    [] ops[i].opcode = iwrite_ ->
         <<Piece(10, <<Load(-16, "rbp", "rsi", i),
                       Instruction("add", "rsi", "", Char(ops[i].dest_arg), i)>>),
           Piece(8, <<Instruction("bytes", "", "", 0, i)>>),
           Piece(2, <<Instruction("call", "", "", 0, i)>>)>>
    [] OTHER -> <<>>

(***************************************************************************)
(* The writer.                                                             *)
(***************************************************************************)
Unknown == <<"unknown", 0>>

NativeInit ==
  /\ ops \in OpSequences
  /\ op_count = 0
  /\ pieces = write_headers
  /\ code = <<>> /\ mem_size = 0 /\ memcap = CodeBytes
  /\ control = "writing"
  /\ pc = 0 /\ rip = Unknown
  /\ reg = [r \in {"rax", "rbp", "rsi", "rdi", "rsp"} |-> Unknown]
  /\ memory = <<>>

(* A bug a run must notice: the buffer grows for what it already holds.    *)
write_mem_Late ==
  /\ pieces # <<>>
  /\ memcap' = IF memcap <= mem_size THEN (3 * mem_size) \div 2 ELSE memcap
  /\ mem_size' = mem_size + Head(pieces).bytes
  /\ code' = code \o Head(pieces).instructions
  /\ pieces' = Tail(pieces)
  /\ UNCHANGED <<ops, op_count, control, processorVars>>

write_mem ==
  /\ pieces # <<>>
  /\ LET demand == mem_size + Head(pieces).bytes IN
       /\ memcap' = IF memcap <= demand THEN (3 * demand) \div 2 ELSE memcap
       /\ mem_size' = demand
  /\ code' = code \o Head(pieces).instructions
  /\ pieces' = Tail(pieces)
  /\ UNCHANGED <<ops, op_count, control, processorVars>>

(* A bug a run must notice: the footer is forgotten. *)
write_vm_code_Footless ==
  /\ pieces = <<>> /\ op_count <= Len(ops)
  /\ op_count' = op_count + 1
  /\ pieces' = IF op_count < Len(ops) THEN write_vm_instr(op_count + 1) ELSE <<>>
  /\ UNCHANGED <<ops, code, mem_size, memcap, control, processorVars>>

(* The loop of write_vm_code, and the footer of generate_from_writer. *)
write_vm_code ==
  /\ pieces = <<>> /\ op_count <= Len(ops)
  /\ op_count' = op_count + 1
  /\ pieces' = IF op_count < Len(ops) THEN write_vm_instr(op_count + 1) ELSE write_footer
  /\ UNCHANGED <<ops, code, mem_size, memcap, control, processorVars>>

(***************************************************************************)
(* The processor.                                                          *)
(***************************************************************************)
Statics == {<<"statics", 8 * i>> : i \in 0 .. (StaticsBytes \div 8) - 1}

(* generate_from_writer and the call in main.  A mapping that the system   *)
(* refuses is reported and used all the same.                              *)
CallCode ==
  /\ control = "writing" /\ pieces = <<>> /\ op_count > Len(ops)
  /\ control' \in {"code", "undefined"}
  /\ reg' = [reg EXCEPT !["rdi"] = <<"statics", 0>>, !["rsi"] = <<"frame", 0>>,
                        !["rsp"] = <<"stack", 0>>, !["rbp"] = <<"caller", 0>>]
  /\ memory' = [at \in Statics \cup {<<"stack", 0>>} |->
                  IF at \in Statics THEN at ELSE <<"main", 0>>]
  /\ UNCHANGED <<ops, writerVars, pc, rip>>

Executing == control = "code" /\ pc < Len(code)
This      == code[pc + 1]

Moved(address, distance) == <<address[1], address[2] + distance>>
Target == Moved(reg[This.base], This.disp)

(* Whether the instruction touches memory that is there, and is one that   *)
(* the translator has written on purpose.                                  *)
Sound == CASE This.is = "load"  -> Target \in DOMAIN memory
           [] This.is = "store" -> Target[1] = "frame" => Target[2] \in 0 .. FrameBytes - 8
           [] OTHER             -> This.is # "bytes"

Goes(instructions) ==
  /\ Executing /\ Sound /\ This.is \in instructions
  /\ pc' = pc + 1
  /\ UNCHANGED <<ops, writerVars, control, rip>>

Sets(r, value)     == reg' = [reg EXCEPT ![r] = value] /\ UNCHANGED memory
Puts(at, quadword) ==
  memory' = [a \in DOMAIN memory \cup {at} |-> IF a = at THEN quadword ELSE memory[a]]

Push      == /\ Goes({"push"})
             /\ Puts(Moved(reg["rsp"], -8), reg["rbp"])
             /\ reg' = [reg EXCEPT !["rsp"] = Moved(@, -8)]
MoveRsp   == Goes({"mov"}) /\ Sets("rbp", reg["rsp"])
SubRsp    == Goes({"sub"}) /\ Sets("rsp", Moved(reg["rsp"], -16))
LoadQuad  == Goes({"load"}) /\ Sets(This.r, memory[Target])
StoreQuad == Goes({"store"}) /\ Puts(Target, reg[This.r]) /\ UNCHANGED reg
AddOffset == Goes({"add"}) /\ Sets(This.r, Moved(reg[This.r], This.disp))

(* A return goes where the quadword at the top of the stack says. *)
Ret ==
  /\ Executing /\ This.is = "ret"
  /\ control' = "returned" /\ rip' = memory[reg["rsp"]]
  /\ pc' = pc + 1
  /\ UNCHANGED <<ops, writerVars, reg, memory>>

GoWrong ==
  /\ Executing /\ ~Sound
  /\ control' = "undefined"
  /\ UNCHANGED <<ops, writerVars, processorVars>>

NativeStep == \/ write_mem \/ write_vm_code \/ CallCode
              \/ Push \/ MoveRsp \/ SubRsp \/ LoadQuad \/ StoreQuad \/ AddOffset
              \/ Ret \/ GoWrong

NativeDone == control \notin {"writing", "code"} /\ UNCHANGED nativeVars

NativeNext == NativeStep \/ NativeDone
NativeSpec == NativeInit /\ [][NativeNext]_nativeVars

(***************************************************************************)
(* Properties.                                                             *)
(***************************************************************************)
(* Type invariant.  The code ends with the return, and is not run past it. *)
NativeTypeOK ==
  /\ op_count \in 0 .. Len(ops) + 1
  /\ mem_size \in Nat /\ memcap \in Nat
  /\ pc \in 0 .. Len(code)
  /\ control = "code" => pc < Len(code)

(* Every byte of machine code lies in the buffer, whatever the lengths of  *)
(* the pieces: it grows to half as much again as a piece demands.          *)
CodeFits == mem_size <= memcap

(* The stores that have been executed. *)
Stored == {k \in DOMAIN ops : \E j \in 1 .. pc : code[j].of = k /\ code[j].is = "store"}

Holds(at, quadword) == at \in DOMAIN memory /\ memory[at] = quadword

(* The offsets a signed byte and the statics have room for. *)
Near(op) == op.dest_arg < 128 /\ op.first_arg < 128 /\ op.first_arg < StaticsBytes

(* The code stores what the operations say: every istore, in their order,  *)
(* the last one into a slot stays, and nothing else is written to the      *)
(* frame, while no offset is wider than the byte that holds it.            *)
NativeStores ==
  control # "writing" /\ (\A k \in Stored : Near(ops[k])) =>
    /\ \A k \in Stored :
         /\ \A j \in 1 .. k - 1 : ops[j].opcode = istore => j \in Stored
         /\ (\A l \in Stored : l > k => ops[l].dest_arg # ops[k].dest_arg) =>
              Holds(<<"frame", ops[k].dest_arg>>, <<"statics", ops[k].first_arg>>)
    /\ \A at \in DOMAIN memory : at[1] = "frame" => \E k \in Stored : at[2] = ops[k].dest_arg
    /\ pc = Len(code) => \A k \in DOMAIN ops : ops[k].opcode = istore => k \in Stored

(* The code goes wrong only at an iwrite_, or at an istore with an offset  *)
(* of 128 and more, which the displacement turns negative: until then it   *)
(* stays in the frame of main, the statics and its stack.                  *)
StaysInside ==
  control = "undefined" /\ pc > 0 =>
    LET op == ops[This.of] IN op.opcode = iwrite_ \/ ~Near(op)

(* asmexamples.h:27: the code is a void * (*asmfunc)(void*, void*), which  *)
(* main calls and goes on behind (main.c:70-73).  It would return there.   *)
ReturnsToMain == control = "returned" => rip = <<"main", 0>>
=============================================================================
