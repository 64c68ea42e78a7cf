-------------------------- MODULE DulCompilerProofs --------------------------
(***************************************************************************)
(* What holds of the whole compiler, whatever the programs and the sizes:  *)
(* the arrays hold what is written to them, and the operations find every  *)
(* intermediate result and every static where they look for it.            *)
(***************************************************************************)
EXTENDS DulPassProofs

(***************************************************************************)
(* The arrays hold their elements whatever their initial capacities are,   *)
(* and however far they grow.                                              *)
(***************************************************************************)
IsArray(a) == a \in [count : Nat, cap : Nat, bytes : Nat]

(* The capacity the code tests is the one the memory has; the layout has a *)
(* free field, and the statics have room for one more value, which is why  *)
(* the reversed test never lets them overflow.                             *)
ArraysInv ==
  /\ IsArray(fieldArray) /\ fieldArray.bytes = EntrySize * fieldArray.cap
  /\ IsArray(opArray) /\ opArray.bytes = OpSize * opArray.cap
  /\ IsArray(staticArray) /\ staticArray.bytes = staticArray.cap
  /\ fieldArray.count < fieldArray.cap
  /\ opArray.count <= opArray.cap
  /\ staticArray.count + 8 < staticArray.cap

(* The initial arrays are empty. *)
LEMMA ArraysInitial == ArraysInit => ArraysInv
  BY CapacitiesAssumption
  DEF ArraysInit, ArraysInv, IsArray, Array, EntrySize, OpSize

(* A step leaves room as ArraysInv says, whichever of the arrays grow.     *)
LEMMA ArraysInductive ==
  ASSUME ArraysInv,
         GrowFields  \/ UNCHANGED fieldArray,
         GrowOps     \/ UNCHANGED opArray,
         GrowStatics \/ UNCHANGED staticArray
  PROVE  ArraysInv'
<1> USE CapacitiesAssumption DEF ArraysInv, IsArray, Array, EntrySize, OpSize
<1>1. /\ IsArray(fieldArray') /\ fieldArray'.bytes = EntrySize * fieldArray'.cap
      /\ fieldArray'.count < fieldArray'.cap
  BY DEF GrowFields
<1>2. /\ IsArray(opArray') /\ opArray'.bytes = OpSize * opArray'.cap
      /\ opArray'.count <= opArray'.cap
  BY DEF GrowOps
<1>3. /\ IsArray(staticArray') /\ staticArray'.bytes = staticArray'.cap
      /\ staticArray'.count + 8 < staticArray'.cap
  BY DEF GrowStatics
<1> QED BY <1>1, <1>2, <1>3

(* No array holds elements outside its memory. *)
LEMMA ArraysInvFits == ArraysInv => ArraysFit
  BY DEF ArraysInv, ArraysFit, IsArray, EntrySize, OpSize

(* No operation, field or static is written outside its array, in any      *)
(* order of growth.                                                        *)
THEOREM ArraysHold == ArraysSpec => []ArraysFit
<1>1. ArraysInv /\ [ArraysNext]_arrayVars => ArraysInv'
  BY ArraysInductive DEF ArraysNext, arrayVars
<1> QED BY <1>1, ArraysInitial, ArraysInvFits, PTL DEF ArraysSpec

(***************************************************************************)
(* The compiler.                                                           *)
(***************************************************************************)

(* No step of any pass writes an operation, a field or a static outside    *)
(* its array: the compiler grows them only as DulArrays says.              *)
THEOREM CompilerArrays == CompilerSpec => []ArraysFit
<1>1. CompilerInit => ArraysInv
  BY ArraysInitial DEF CompilerInit
<1>2. ArraysInv /\ [CompilerNext]_compilerVars => ArraysInv'
  <2>1. ASSUME [CompilerNext]_compilerVars
        PROVE  /\ GrowFields  \/ UNCHANGED fieldArray
               /\ GrowOps     \/ UNCHANGED opArray
               /\ GrowStatics \/ UNCHANGED staticArray
    BY <2>1 DEF CompilerNext, CompilerStep, ArraysGrow, CompilerDone, compilerVars, arrayVars
  <2> QED BY <2>1, ArraysInductive
<1> QED BY <1>1, <1>2, ArraysInvFits, PTL DEF CompilerSpec

(***************************************************************************)
(* The code generator: where the values of the nodes it has left lie, and  *)
(* which operations have read them.                                        *)
(***************************************************************************)
IsSeq(s) == \E T : s \in Seq(T)

IsLiteral(h, n) == h[n].type \in Literals

(* The children it loads: a literal on the right of an assignment is       *)
(* handled there.                                                          *)
Unloaded(h) == [n \in 1 .. Len(h) |->
                  IF h[n].type # "ASSIGN" THEN 0
                  ELSE IF IsLiteral(h, h[n].kids[2]) THEN 2 ELSE 1]
Loads(h, n) == ReadFrom(h, Unloaded(h), n)

(* What a node still to leave loads has a place or comes before it, and    *)
(* the node is one the type pass has left.                                 *)
Coming(h, l, u, P, p) ==
  /\ u[p] \notin DOMAIN P /\ Settled(h, l, u[p])
  /\ \A i \in Loads(h, u[p]) :
       h[u[p]].kids[i] \in DOMAIN P \/ \E q \in 1 .. p - 1 : u[q] = h[u[p]].kids[i]

Walking(h, l, u, P) ==
  /\ u \in Seq(1 .. Len(h)) /\ Once(u)
  /\ \A p \in 1 .. Len(u) : Coming(h, l, u, P, p)

(* A value that an operation still to come will read. *)
Pending(h, u, P, x) ==
  /\ x \in DOMAIN P
  /\ \E p \in 1 .. Len(u) : \E i \in Loads(h, u[p]) : h[u[p]].kids[i] = x

(* The frame.  One operation has written an intermediate result, and none  *)
(* before the k-th has read it.                                            *)
VarBytes(l) == FieldSize * Len(l)

WrittenOnce(O, k, t) ==
  \E w \in 1 .. k - 1 :
    /\ ~Writes(O[w]) /\ O[w].dest_arg = t
    /\ \A v \in 1 .. Len(O) : ~Writes(O[v]) /\ O[v].dest_arg = t => v = w
Unread(O, k, t) == \A j \in 1 .. k - 1 : t \notin SlotsRead(O[j])

Result(O, k, t) == WrittenOnce(O, k, t) /\ Unread(O, k, t)

SlotsInv(h, l, u, P, O, c) ==
  /\ c \in Nat /\ VarBytes(l) \in Nat /\ VarBytes(l) <= c /\ IsSeq(O)
  /\ \A i \in 1 .. Len(O) :
       /\ ~Writes(O[i]) => O[i].dest_arg \in Int /\ O[i].dest_arg < c
       /\ \A t \in SlotsRead(O[i]) : t \in Int /\ t < c /\ (t >= VarBytes(l) => Result(O, i, t))
  /\ \A x \in DOMAIN P : ~IsLiteral(h, x) =>
       /\ P[x] \in Int /\ P[x] < c
       /\ P[x] >= VarBytes(l) => \A y \in DOMAIN P : ~IsLiteral(h, y) /\ P[y] = P[x] => y = x
       /\ P[x] >= VarBytes(l) /\ Pending(h, u, P, x) => Result(O, Len(O) + 1, P[x])

(* The statics.  No operation before the k-th has taken the value at s.    *)
Untaken(O, k, s) == \A j \in 1 .. k - 1 : s \notin StaticsRead(O[j])

Holds(S, s, val) == \E k \in 1 .. Len(S) : s = FieldSize * (k - 1) /\ S[k] = val

StaticsInv(h, u, P, O, S) ==
  /\ IsSeq(O) /\ IsSeq(S)
  /\ \A i \in 1 .. Len(O) : \A s \in StaticsRead(O[i]) :
       /\ \E val : Holds(S, s, val) /\ FamilyOf(val) = StaticType(O[i].opcode)
       /\ Untaken(O, i, s)
  /\ \A x \in DOMAIN P : IsLiteral(h, x) =>
       /\ Holds(S, P[x], h[x].val)
       /\ \A y \in DOMAIN P : IsLiteral(h, y) /\ P[y] = P[x] => y = x
       /\ Pending(h, u, P, x) => Untaken(O, Len(O) + 1, P[x])

CodeState(h, l, u, P, O, S, c) ==
  Walking(h, l, u, P) /\ SlotsInv(h, l, u, P, O, c) /\ StaticsInv(h, u, P, O, S)

CodeInv ==
  /\ phase \notin {"codegen", "run", "done"} => ops = <<>> /\ statics = <<>>
  /\ phase \in {"count", "codegen", "run", "done"} => untyped = <<>>
  /\ phase \in {"codegen", "run", "done"} =>
       CodeState(heap, layout, unloaded, place, ops, statics, current_stack_offset)

(* What it says of a node that the code generator leaves with the value v. *)
LeftWith(h, l, u, P, Q, v) ==
  LET n == Head(u)
  IN  /\ Walking(h, l, Tail(u), Q)
      /\ n \in 1 .. Len(h) /\ Settled(h, l, n) /\ n \notin DOMAIN P
      /\ DOMAIN Q = DOMAIN P \cup {n} /\ Q[n] = v /\ \A x \in DOMAIN P : Q[x] = P[x]
      /\ \A i \in Loads(h, n) : Pending(h, u, P, h[n].kids[i])
      /\ \A x \in DOMAIN P : Pending(h, Tail(u), Q, x) =>
           Pending(h, u, P, x) /\ \A i \in Loads(h, n) : h[n].kids[i] # x

(* Its children have places and nobody else loads them; the others keep    *)
(* theirs.                                                                 *)
LEMMA LeaveNode ==
  ASSUME NEW h, NEW r, Tree(h, r), NEW l, NEW u, NEW P, Walking(h, l, u, P), u # <<>>,
         NEW v, NEW Q, Q = [m \in DOMAIN P \cup {Head(u)} |-> IF m = Head(u) THEN v ELSE P[m]]
  PROVE  LeftWith(h, l, u, P, Q, v)
<1> DEFINE n == Head(u)
<1>1. /\ u \in Seq(1 .. Len(h)) /\ Once(u) /\ Len(u) \in Nat \ {0} /\ n = u[1] /\ n \in 1 .. Len(h)
      /\ Len(Tail(u)) = Len(u) - 1 /\ Tail(u) \in Seq(1 .. Len(h))
      /\ \A p \in 1 .. Len(Tail(u)) : p + 1 \in 1 .. Len(u) /\ Tail(u)[p] = u[p + 1]
  BY TailFacts DEF Walking
<1>2. Coming(h, l, u, P, 1)
  BY <1>1 DEF Walking
<1>3. DOMAIN Q = DOMAIN P \cup {n} /\ Q[n] = v /\ \A x \in DOMAIN P : x # n => Q[x] = P[x]
  OBVIOUS
<1> HIDE DEF n
<1>4. Settled(h, l, n) /\ n \notin DOMAIN P
  BY <1>1, <1>2 DEF Coming
<1>5. \A i \in Loads(h, n) : h[n].kids[i] \in DOMAIN P
  BY <1>1, <1>2 DEF Coming
<1>6. \A i \in Loads(h, n) : Pending(h, u, P, h[n].kids[i])
  BY <1>1, <1>5 DEF Pending
<1>7. Once(Tail(u))
  BY <1>1, SMTT(30) DEF Once
<1>8. ASSUME NEW p \in 1 .. Len(Tail(u)) PROVE Coming(h, l, Tail(u), Q, p)
  <2> DEFINE m == u[p + 1]
  <2>1. p + 1 \in 1 .. Len(u) /\ Tail(u)[p] = m /\ p \in Nat /\ p + 1 - 1 = p
    BY <1>1
  <2> HIDE DEF m
  <2>2. Coming(h, l, u, P, p + 1)
    BY <2>1 DEF Walking
  <2>3. m \notin DOMAIN P /\ Settled(h, l, m)
    BY <2>2 DEF Coming, m
  <2>4. m # n
    BY <1>1, <2>1 DEF Once, m
  <2>5. ASSUME NEW i \in Loads(h, m)
        PROVE  h[m].kids[i] \in DOMAIN Q \/ \E q \in 1 .. p - 1 : Tail(u)[q] = h[m].kids[i]
    <3>1. h[m].kids[i] \in DOMAIN P \/ \E q \in 1 .. p : u[q] = h[m].kids[i]
      BY <2>1, <2>2 DEF Coming, m
    <3>2. CASE h[m].kids[i] \in DOMAIN P
      BY <1>3, <3>2
    <3>3. CASE \E q \in 1 .. p : u[q] = h[m].kids[i]
      <4>1. PICK q \in 1 .. p : u[q] = h[m].kids[i]
        BY <3>3
      <4>2. CASE q = 1
        BY <1>1, <1>3, <4>1, <4>2
      <4>3. CASE q # 1
        <5>1. q - 1 \in 1 .. p - 1 /\ q - 1 \in 1 .. Len(Tail(u)) /\ q - 1 + 1 = q
          <6>1. q \in Int /\ 1 <= q /\ q <= p /\ p \in 1 .. Len(Tail(u)) /\ Len(Tail(u)) \in Nat
            BY <1>1, <2>1
          <6> QED BY <4>3, <6>1
        <5> QED BY <1>1, <4>1, <5>1
      <4> QED BY <4>2, <4>3
    <3> QED BY <3>1, <3>2, <3>3
  <2> QED BY <1>3, <2>1, <2>3, <2>4, <2>5 DEF Coming
<1>9. ASSUME NEW x \in DOMAIN P, Pending(h, Tail(u), Q, x)
      PROVE  Pending(h, u, P, x) /\ \A i \in Loads(h, n) : h[n].kids[i] # x
  <2>1. PICK p \in 1 .. Len(Tail(u)) : \E i \in Loads(h, Tail(u)[p]) : h[Tail(u)[p]].kids[i] = x
    BY <1>9 DEF Pending
  <2> DEFINE m == u[p + 1]
  <2>2. p + 1 \in 1 .. Len(u) /\ Tail(u)[p] = m /\ m \in 1 .. Len(h)
    BY <1>1, ElementOfSeq
  <2>3. m # n
    <3>1. p + 1 # 1 /\ 1 \in 1 .. Len(u)
      BY <1>1
    <3> QED BY <1>1, <2>2, <3>1 DEF Once
  <2> HIDE DEF m
  <2>4. PICK i \in Loads(h, m) : h[m].kids[i] = x
    BY <2>1, <2>2
  <2>5. Pending(h, u, P, x)
    BY <2>2, <2>4 DEF Pending, m
  <2>6. ASSUME NEW j \in Loads(h, n), h[n].kids[j] = x PROVE FALSE
    <3>1. i \in DOMAIN h[m].kids /\ j \in DOMAIN h[n].kids
      BY <1>1, <2>2, KidsOfTree DEF Loads, ReadFrom
    <3> QED BY <1>1, <2>2, <2>3, <2>4, <2>6, <3>1 DEF Tree, KidsOnce
  <2> QED BY <2>5, <2>6
<1>10. Walking(h, l, Tail(u), Q)
  BY <1>1, <1>7, <1>8 DEF Walking
<1>11. \A x \in DOMAIN P : Q[x] = P[x]
  BY <1>3, <1>4
<1> QED BY <1>1, <1>3, <1>4, <1>6, <1>9, <1>10, <1>11 DEF LeftWith, n

(* A sequence that gets one element more. *)
LEMMA Appended ==
  ASSUME NEW s, IsSeq(s), NEW e
  PROVE  /\ IsSeq(Append(s, e)) /\ Len(s) \in Nat /\ Len(Append(s, e)) = Len(s) + 1
         /\ Append(s, e)[Len(s) + 1] = e /\ \A i \in 1 .. Len(s) : Append(s, e)[i] = s[i]
<1>1. PICK T : s \in Seq(T)
  BY DEF IsSeq
<1>2. Append(s, e) \in Seq(T \cup {e})
  <2>1. s \in Seq(T \cup {e})
    <3>1. \A i \in 1 .. Len(s) : s[i] \in T \cup {e}
      BY <1>1, ElementOfSeq
    <3> QED BY <1>1, <3>1, SeqInto
  <2> QED BY <2>1, AppendProperties
<1>3. Len(s) \in Nat /\ Len(Append(s, e)) = Len(s) + 1
      /\ Append(s, e)[Len(s) + 1] = e /\ \A i \in 1 .. Len(s) : Append(s, e)[i] = s[i]
  BY <1>1
<1> QED BY <1>2, <1>3 DEF IsSeq

(* An intermediate result stays one when an operation is added that        *)
(* stores somewhere else.                                                  *)
LEMMA ResultStays ==
  ASSUME NEW O, IsSeq(O), NEW op, NEW t, NEW k \in 1 .. Len(O) + 1, Result(O, k, t),
         ~Writes(op) => op.dest_arg # t
  PROVE  Result(Append(O, op), k, t)
<1> DEFINE Q == Append(O, op)
<1>1. /\ Len(O) \in Nat /\ Len(Q) = Len(O) + 1 /\ Q[Len(O) + 1] = op
      /\ \A i \in 1 .. Len(O) : Q[i] = O[i]
  BY Appended
<1>2. \A j \in 1 .. k - 1 : j \in 1 .. Len(O) /\ Q[j] = O[j]
  BY <1>1
<1>3. \A v \in 1 .. Len(Q) : v = Len(O) + 1 \/ v \in 1 .. Len(O)
  BY <1>1
<1> HIDE DEF Q
<1>4. Unread(Q, k, t)
  BY <1>2 DEF Result, Unread
<1>5. WrittenOnce(Q, k, t)
  <2>1. PICK w \in 1 .. k - 1 :
             /\ ~Writes(O[w]) /\ O[w].dest_arg = t
             /\ \A v \in 1 .. Len(O) : ~Writes(O[v]) /\ O[v].dest_arg = t => v = w
    BY DEF Result, WrittenOnce
  <2>2. ~Writes(Q[w]) /\ Q[w].dest_arg = t
    BY <1>2, <2>1
  <2>3. ASSUME NEW v \in 1 .. Len(Q), ~Writes(Q[v]), Q[v].dest_arg = t PROVE v = w
    <3>1. v # Len(O) + 1
      BY <1>1, <2>3
    <3>2. v \in 1 .. Len(O) /\ Q[v] = O[v]
      BY <1>1, <1>3, <3>1
    <3> QED BY <2>1, <2>3, <3>2
  <2> QED BY <2>2, <2>3 DEF WrittenOnce
<1> QED BY <1>4, <1>5 DEF Result, Q

(* A node without an operation: a literal, or one whose value, if it has   *)
(* one, is that of a variable.                                             *)
LEMMA SlotsQuiet ==
  ASSUME NEW h, NEW l, NEW u, NEW P, NEW Q, NEW v, NEW O, NEW c,
         SlotsInv(h, l, u, P, O, c), LeftWith(h, l, u, P, Q, v),
         IsLiteral(h, Head(u)) \/ (v \in Int /\ v < VarBytes(l))
  PROVE  SlotsInv(h, l, Tail(u), Q, O, c)
<1> DEFINE n == Head(u)
<1>1. /\ DOMAIN Q = DOMAIN P \cup {n} /\ Q[n] = v /\ n \notin DOMAIN P
      /\ \A x \in DOMAIN P : Q[x] = P[x]
      /\ \A x \in DOMAIN P : Pending(h, Tail(u), Q, x) => Pending(h, u, P, x)
  BY DEF LeftWith
<1>2. c \in Nat /\ VarBytes(l) \in Nat /\ VarBytes(l) <= c
  BY DEF SlotsInv
<1>3. IsLiteral(h, n) \/ (v \in Int /\ v < VarBytes(l))
  OBVIOUS
<1> HIDE DEF n
<1>4. ASSUME NEW x \in DOMAIN Q, ~IsLiteral(h, x)
      PROVE  /\ Q[x] \in Int /\ Q[x] < c
             /\ Q[x] >= VarBytes(l) => \A y \in DOMAIN Q : ~IsLiteral(h, y) /\ Q[y] = Q[x] => y = x
             /\ Q[x] >= VarBytes(l) /\ Pending(h, Tail(u), Q, x) => Result(O, Len(O) + 1, Q[x])
  <2>1. CASE x = n
    BY <1>1, <1>2, <1>3, <1>4, <2>1
  <2>2. CASE x # n
    <3>1. x \in DOMAIN P /\ Q[x] = P[x]
      BY <1>1, <2>2
    <3>2. /\ P[x] \in Int /\ P[x] < c
          /\ P[x] >= VarBytes(l) => \A y \in DOMAIN P : ~IsLiteral(h, y) /\ P[y] = P[x] => y = x
          /\ P[x] >= VarBytes(l) /\ Pending(h, u, P, x) => Result(O, Len(O) + 1, P[x])
      BY <1>4, <3>1 DEF SlotsInv
    <3>3. ASSUME Q[x] >= VarBytes(l), NEW y \in DOMAIN Q, ~IsLiteral(h, y), Q[y] = Q[x]
          PROVE  y = x
      <4>1. y # n
        BY <1>1, <1>2, <1>3, <3>1, <3>2, <3>3
      <4>2. y \in DOMAIN P /\ Q[y] = P[y]
        BY <1>1, <4>1
      <4> QED BY <3>1, <3>2, <3>3, <4>2
    <3> QED BY <1>1, <3>1, <3>2, <3>3
  <2> QED BY <2>1, <2>2
<1> QED BY <1>4 DEF SlotsInv

(* The frame bytes of the values that a node loads. *)
SlotPlaces(h, P, n) == {P[h[n].kids[i]] : i \in {j \in Loads(h, n) : ~IsLiteral(h, h[n].kids[j])}}

(* Where the operation of a node may store, and what the node then gives:  *)
(* into a variable, or into the next eight bytes of the frame.             *)
Stores(l, op, v, c, d) ==
  \/ /\ ~Writes(op) => op.dest_arg \in Int /\ op.dest_arg < VarBytes(l)
     /\ v \in Int /\ v < VarBytes(l) /\ d = c
  \/ ~Writes(op) /\ op.dest_arg = c /\ v = c /\ d = c + 8

(* A node with an operation that reads the values it loads.                *)
LEMMA SlotsOperation ==
  ASSUME NEW h, NEW l, NEW u, NEW P, NEW Q, NEW v, NEW O, NEW c, NEW op, NEW d,
         SlotsInv(h, l, u, P, O, c), LeftWith(h, l, u, P, Q, v), ~IsLiteral(h, Head(u)),
         SlotsRead(op) \subseteq SlotPlaces(h, P, Head(u)), Stores(l, op, v, c, d)
  PROVE  SlotsInv(h, l, Tail(u), Q, Append(O, op), d)
<1> DEFINE n  == Head(u)
           O2 == Append(O, op)
<1>1. /\ DOMAIN Q = DOMAIN P \cup {n} /\ Q[n] = v /\ n \notin DOMAIN P
      /\ \A x \in DOMAIN P : Q[x] = P[x]
      /\ \A i \in Loads(h, n) : Pending(h, u, P, h[n].kids[i])
      /\ \A x \in DOMAIN P : Pending(h, Tail(u), Q, x) =>
           Pending(h, u, P, x) /\ \A i \in Loads(h, n) : h[n].kids[i] # x
  BY DEF LeftWith
<1>2. c \in Nat /\ VarBytes(l) \in Nat /\ VarBytes(l) <= c /\ IsSeq(O)
  BY DEF SlotsInv
<1>3. /\ IsSeq(O2) /\ Len(O) \in Nat /\ Len(O2) = Len(O) + 1 /\ O2[Len(O) + 1] = op
      /\ \A i \in 1 .. Len(O) : O2[i] = O[i]
  BY <1>2, Appended
<1>4. d \in Nat /\ c <= d
  BY <1>2 DEF Stores
<1>5. ASSUME NEW t \in Int, t < c, t >= VarBytes(l), NEW k \in 1 .. Len(O) + 1, Result(O, k, t)
      PROVE  Result(O2, k, t)
  <2>1. ~Writes(op) => op.dest_arg # t
    BY <1>2, <1>5 DEF Stores
  <2> QED BY <1>2, <1>5, <2>1, ResultStays
<1>6. ASSUME NEW t \in SlotsRead(op)
      PROVE  \E y \in DOMAIN P : /\ t = P[y] /\ ~IsLiteral(h, y) /\ Pending(h, u, P, y)
                                 /\ \E i \in Loads(h, n) : h[n].kids[i] = y
  <2>1. t \in SlotPlaces(h, P, n)
    OBVIOUS
  <2>2. PICK i \in Loads(h, n) : ~IsLiteral(h, h[n].kids[i]) /\ t = P[h[n].kids[i]]
    BY <2>1 DEF SlotPlaces
  <2>3. Pending(h, u, P, h[n].kids[i])
    BY <1>1
  <2>4. h[n].kids[i] \in DOMAIN P
    BY <2>3 DEF Pending
  <2> QED BY <2>2, <2>3, <2>4
<1>7. ~IsLiteral(h, n)
  OBVIOUS
<1> HIDE DEF n, O2
<1>8. ASSUME NEW x \in DOMAIN P, ~IsLiteral(h, x)
      PROVE  /\ P[x] \in Int /\ P[x] < c
             /\ P[x] >= VarBytes(l) => \A y \in DOMAIN P : ~IsLiteral(h, y) /\ P[y] = P[x] => y = x
             /\ P[x] >= VarBytes(l) /\ Pending(h, u, P, x) => Result(O, Len(O) + 1, P[x])
  BY <1>8 DEF SlotsInv
<1>9. ASSUME NEW t \in SlotsRead(op)
      PROVE  t \in Int /\ t < c /\ (t >= VarBytes(l) => Result(O, Len(O) + 1, t))
  BY <1>6, <1>8
<1>10. ASSUME NEW i \in 1 .. Len(O)
       PROVE  /\ ~Writes(O[i]) => O[i].dest_arg \in Int /\ O[i].dest_arg < c
              /\ \A t \in SlotsRead(O[i]) : t \in Int /\ t < c
                                            /\ (t >= VarBytes(l) => Result(O, i, t))
  BY DEF SlotsInv
<1>11. ASSUME NEW i \in 1 .. Len(O2)
       PROVE  /\ ~Writes(O2[i]) => O2[i].dest_arg \in Int /\ O2[i].dest_arg < d
              /\ \A t \in SlotsRead(O2[i]) : t \in Int /\ t < d
                                             /\ (t >= VarBytes(l) => Result(O2, i, t))
  <2>1. CASE i = Len(O) + 1
    <3>1. O2[i] = op /\ i \in 1 .. Len(O) + 1
      BY <1>3, <2>1
    <3>2. ~Writes(op) => op.dest_arg \in Int /\ op.dest_arg < d
      BY <1>2 DEF Stores
    <3>3. ASSUME NEW t \in SlotsRead(op)
          PROVE  t \in Int /\ t < d /\ (t >= VarBytes(l) => Result(O2, i, t))
      <4>1. t \in Int /\ t < c /\ (t >= VarBytes(l) => Result(O, i, t))
        BY <1>9, <2>1
      <4>2. t < d
        BY <1>2, <1>4, <4>1
      <4> QED BY <1>5, <3>1, <4>1, <4>2
    <3> QED BY <3>1, <3>2, <3>3
  <2>2. CASE i # Len(O) + 1
    <3>1. i \in 1 .. Len(O) /\ O2[i] = O[i] /\ i \in 1 .. Len(O) + 1
      BY <1>3, <2>2
    <3>2. ~Writes(O2[i]) => O2[i].dest_arg \in Int /\ O2[i].dest_arg < d
      BY <1>2, <1>4, <1>10, <3>1
    <3>3. ASSUME NEW t \in SlotsRead(O[i])
          PROVE  t \in Int /\ t < d /\ (t >= VarBytes(l) => Result(O2, i, t))
      <4>1. t \in Int /\ t < c /\ (t >= VarBytes(l) => Result(O, i, t))
        BY <1>10, <3>1
      <4>2. t < d
        BY <1>2, <1>4, <4>1
      <4> QED BY <1>5, <3>1, <4>1, <4>2
    <3> QED BY <3>1, <3>2, <3>3
  <2> QED BY <2>1, <2>2
<1>12. ASSUME NEW x \in DOMAIN Q, ~IsLiteral(h, x)
       PROVE  Q[x] \in Int /\ Q[x] < d
  <2>1. CASE x = n
    BY <1>1, <1>2, <2>1 DEF Stores
  <2>2. CASE x # n
    <3>1. Q[x] = P[x] /\ P[x] \in Int /\ P[x] < c
      BY <1>1, <1>8, <1>12, <2>2
    <3> QED BY <1>2, <1>4, <3>1
  <2> QED BY <2>1, <2>2
<1>13. ASSUME NEW x \in DOMAIN Q, ~IsLiteral(h, x), Q[x] >= VarBytes(l),
              NEW y \in DOMAIN Q, ~IsLiteral(h, y), Q[y] = Q[x]
       PROVE  y = x
  <2>1. ASSUME NEW z \in DOMAIN P, ~IsLiteral(h, z), Q[z] = v, Q[z] >= VarBytes(l) PROVE FALSE
    <3>1. Q[z] \in Int /\ Q[z] < c
      BY <1>1, <1>8, <2>1
    <3> QED BY <1>2, <2>1, <3>1 DEF Stores
  <2>2. CASE x = n /\ y # n
    <3>1. y \in DOMAIN P
      BY <1>1, <2>2
    <3> QED BY <1>1, <1>13, <2>1, <2>2, <3>1
  <2>3. CASE x # n /\ y = n
    <3>1. x \in DOMAIN P
      BY <1>1, <2>3
    <3> QED BY <1>1, <1>13, <2>1, <2>3, <3>1
  <2>4. CASE x # n /\ y # n
    BY <1>1, <1>8, <1>13, <2>4
  <2> QED BY <2>2, <2>3, <2>4
<1>14. ASSUME NEW x \in DOMAIN Q, ~IsLiteral(h, x), Q[x] >= VarBytes(l), Pending(h, Tail(u), Q, x)
       PROVE  Result(O2, Len(O2) + 1, Q[x])
  <2> DEFINE t == Q[x]
  <2>0. Len(O2) + 1 - 1 = Len(O) + 1 /\ Len(O) + 1 - 1 = Len(O)
    BY <1>3
  <2>1. CASE x = n
    <3>1. ~Writes(op) /\ op.dest_arg = c /\ t = c
      BY <1>1, <1>2, <1>14, <2>1 DEF Stores
    <3>2. WrittenOnce(O2, Len(O2) + 1, t)
      <4>1. Len(O) + 1 \in 1 .. Len(O2) + 1 - 1 /\ ~Writes(O2[Len(O) + 1])
            /\ O2[Len(O) + 1].dest_arg = t
        BY <1>3, <3>1
      <4>2. ASSUME NEW w \in 1 .. Len(O2), ~Writes(O2[w]), O2[w].dest_arg = t
            PROVE  w = Len(O) + 1
        <5> SUFFICES ASSUME w # Len(O) + 1 PROVE FALSE
          OBVIOUS
        <5>1. w \in 1 .. Len(O) /\ O2[w] = O[w]
          BY <1>3
        <5>2. O[w].dest_arg \in Int /\ O[w].dest_arg < c
          BY <1>10, <4>2, <5>1
        <5> QED BY <1>2, <3>1, <4>2, <5>1, <5>2
      <4> QED BY <4>1, <4>2 DEF WrittenOnce
    <3>3. ASSUME NEW j \in 1 .. Len(O2) + 1 - 1, t \in SlotsRead(O2[j]) PROVE FALSE
      <4>1. t \in Int /\ t < c
        <5>1. CASE j = Len(O) + 1
          BY <1>3, <1>9, <3>3, <5>1
        <5>2. CASE j # Len(O) + 1
          <6>1. j \in 1 .. Len(O) /\ O2[j] = O[j]
            BY <1>3, <2>0, <5>2
          <6> QED BY <1>10, <3>3, <6>1
        <5> QED BY <5>1, <5>2
      <4> QED BY <1>2, <3>1, <4>1
    <3> QED BY <3>2, <3>3 DEF Result, Unread
  <2>2. CASE x # n
    <3>1. x \in DOMAIN P /\ t = P[x] /\ Pending(h, u, P, x)
          /\ \A i \in Loads(h, n) : h[n].kids[i] # x
      BY <1>1, <1>14, <2>2
    <3>2. /\ t \in Int /\ t < c /\ t >= VarBytes(l) /\ Result(O, Len(O) + 1, t)
          /\ \A y \in DOMAIN P : ~IsLiteral(h, y) /\ P[y] = t => y = x
      BY <1>8, <1>14, <3>1
    <3>3. t \notin SlotsRead(op)
      BY <1>6, <3>1, <3>2
    <3>4. Result(O2, Len(O) + 1, t)
      <4>1. Len(O) + 1 \in 1 .. Len(O) + 1
        BY <1>3
      <4> QED BY <1>5, <3>2, <4>1
    <3> HIDE DEF t
    <3>5. WrittenOnce(O2, Len(O2) + 1, t)
      <4>1. \A w \in 1 .. Len(O) + 1 - 1 : w \in 1 .. Len(O2) + 1 - 1
        BY <1>3
      <4> QED BY <3>4, <4>1 DEF Result, WrittenOnce
    <3>6. ASSUME NEW j \in 1 .. Len(O2) + 1 - 1, t \in SlotsRead(O2[j]) PROVE FALSE
      <4>1. CASE j = Len(O) + 1
        BY <1>3, <3>3, <3>6, <4>1
      <4>2. CASE j # Len(O) + 1
        <5>1. j \in 1 .. Len(O) + 1 - 1
          BY <1>3, <2>0, <4>2
        <5> QED BY <3>4, <3>6, <5>1 DEF Result, Unread
      <4> QED BY <4>1, <4>2
    <3> QED BY <3>5, <3>6 DEF Result, Unread, t
  <2> QED BY <2>1, <2>2
<1>15. VarBytes(l) <= d
  BY <1>2, <1>4
<1> QED BY <1>2, <1>3, <1>4, <1>11, <1>12, <1>13, <1>14, <1>15 DEF SlotsInv, O2

(* The place of a value does not change when values are added behind it.   *)
LEMMA HoldsLater ==
  ASSUME NEW S, IsSeq(S), NEW e, NEW s, NEW val, Holds(S, s, val)
  PROVE  Holds(Append(S, e), s, val)
<1>1. /\ Len(S) \in Nat /\ Len(Append(S, e)) = Len(S) + 1
      /\ \A i \in 1 .. Len(S) : Append(S, e)[i] = S[i]
  BY Appended
<1>2. PICK k \in 1 .. Len(S) : s = FieldSize * (k - 1) /\ S[k] = val
  BY DEF Holds
<1>3. k \in 1 .. Len(Append(S, e)) /\ Append(S, e)[k] = val
  BY <1>1, <1>2
<1> QED BY <1>2, <1>3 DEF Holds

(* The next value lies behind all the others. *)
LEMMA HoldsLast ==
  ASSUME NEW S, IsSeq(S), NEW e
  PROVE  /\ Holds(Append(S, e), FieldSize * Len(S), e)
         /\ \A s, val : Holds(S, s, val) => s # FieldSize * Len(S)
<1>1. /\ Len(S) \in Nat /\ Len(Append(S, e)) = Len(S) + 1 /\ Append(S, e)[Len(S) + 1] = e
  BY Appended
<1>2. Holds(Append(S, e), FieldSize * Len(S), e)
  <2>1. Len(S) + 1 \in 1 .. Len(Append(S, e)) /\ FieldSize * Len(S) = FieldSize * (Len(S) + 1 - 1)
    BY <1>1
  <2> QED BY <1>1, <2>1 DEF Holds
<1>3. ASSUME NEW s, NEW val, Holds(S, s, val) PROVE s # FieldSize * Len(S)
  <2>1. PICK k \in 1 .. Len(S) : s = FieldSize * (k - 1)
    BY <1>3 DEF Holds
  <2> QED BY <1>1, <2>1 DEF FieldSize
<1> QED BY <1>2, <1>3

(* A node without an operation that is no literal.                         *)
LEMMA StaticsQuiet ==
  ASSUME NEW h, NEW l, NEW u, NEW P, NEW Q, NEW v, NEW O, NEW S,
         StaticsInv(h, u, P, O, S), LeftWith(h, l, u, P, Q, v), ~IsLiteral(h, Head(u))
  PROVE  StaticsInv(h, Tail(u), Q, O, S)
<1> DEFINE n == Head(u)
<1>1. /\ DOMAIN Q = DOMAIN P \cup {n} /\ n \notin DOMAIN P
      /\ \A x \in DOMAIN P : Q[x] = P[x]
      /\ \A x \in DOMAIN P : Pending(h, Tail(u), Q, x) => Pending(h, u, P, x)
  BY DEF LeftWith
<1>2. \A x \in DOMAIN Q : IsLiteral(h, x) => x \in DOMAIN P /\ Q[x] = P[x]
  BY <1>1
<1> HIDE DEF n
<1>3. ASSUME NEW x \in DOMAIN Q, IsLiteral(h, x)
      PROVE  /\ Holds(S, Q[x], h[x].val)
             /\ \A y \in DOMAIN Q : IsLiteral(h, y) /\ Q[y] = Q[x] => y = x
             /\ Pending(h, Tail(u), Q, x) => Untaken(O, Len(O) + 1, Q[x])
  <2>1. x \in DOMAIN P /\ Q[x] = P[x]
    BY <1>2, <1>3
  <2>2. /\ Holds(S, P[x], h[x].val)
        /\ \A y \in DOMAIN P : IsLiteral(h, y) /\ P[y] = P[x] => y = x
        /\ Pending(h, u, P, x) => Untaken(O, Len(O) + 1, P[x])
    BY <1>3, <2>1 DEF StaticsInv
  <2>3. ASSUME NEW y \in DOMAIN Q, IsLiteral(h, y), Q[y] = Q[x] PROVE y = x
    BY <1>2, <2>1, <2>2, <2>3
  <2> QED BY <1>1, <2>1, <2>2, <2>3
<1> QED BY <1>3 DEF StaticsInv

(* A literal gets the next eight bytes, which no operation has taken.      *)
LEMMA StaticsLiteral ==
  ASSUME NEW h, NEW l, NEW u, NEW P, NEW Q, NEW O, NEW S, StaticsInv(h, u, P, O, S),
         LeftWith(h, l, u, P, Q, FieldSize * Len(S)), IsLiteral(h, Head(u))
  PROVE  StaticsInv(h, Tail(u), Q, O, Append(S, h[Head(u)].val))
<1> DEFINE n  == Head(u)
           v  == FieldSize * Len(S)
           S2 == Append(S, h[n].val)
<1>1. /\ DOMAIN Q = DOMAIN P \cup {n} /\ n \notin DOMAIN P /\ Q[n] = v
      /\ \A x \in DOMAIN P : Q[x] = P[x]
      /\ \A x \in DOMAIN P : Pending(h, Tail(u), Q, x) => Pending(h, u, P, x)
  BY DEF LeftWith
<1>2. IsSeq(O) /\ IsSeq(S) /\ IsSeq(S2) /\ Len(O) \in Nat
  BY Appended DEF StaticsInv
<1>3. \A s, val : Holds(S, s, val) => Holds(S2, s, val) /\ s # v
  BY <1>2, HoldsLater, HoldsLast
<1>4. Holds(S2, v, h[n].val)
  BY <1>2, HoldsLast
<1> HIDE DEF n, v, S2
<1>5. ASSUME NEW i \in 1 .. Len(O), NEW s \in StaticsRead(O[i])
      PROVE  /\ \E val : Holds(S2, s, val) /\ FamilyOf(val) = StaticType(O[i].opcode)
             /\ Untaken(O, i, s) /\ s # v
  <2>1. /\ \E val : Holds(S, s, val) /\ FamilyOf(val) = StaticType(O[i].opcode)
        /\ Untaken(O, i, s)
    BY DEF StaticsInv
  <2> QED BY <1>3, <2>1
<1>6. ASSUME NEW x \in DOMAIN P, IsLiteral(h, x)
      PROVE  /\ Holds(S, P[x], h[x].val)
             /\ \A y \in DOMAIN P : IsLiteral(h, y) /\ P[y] = P[x] => y = x
             /\ Pending(h, u, P, x) => Untaken(O, Len(O) + 1, P[x])
  BY <1>6 DEF StaticsInv
<1>7. ASSUME NEW x \in DOMAIN Q, IsLiteral(h, x)
      PROVE  /\ Holds(S2, Q[x], h[x].val)
             /\ \A y \in DOMAIN Q : IsLiteral(h, y) /\ Q[y] = Q[x] => y = x
             /\ Pending(h, Tail(u), Q, x) => Untaken(O, Len(O) + 1, Q[x])
  <2>1. \A y \in DOMAIN P : IsLiteral(h, y) => Q[y] # v
    BY <1>1, <1>3, <1>6
  <2>2. CASE x = n
    <3>1. \A j \in 1 .. Len(O) + 1 - 1 : j \in 1 .. Len(O)
      BY <1>2
    <3>2. Untaken(O, Len(O) + 1, v)
      BY <1>5, <3>1 DEF Untaken
    <3> QED BY <1>1, <1>4, <2>1, <2>2, <3>2
  <2>3. CASE x # n
    <3>1. x \in DOMAIN P /\ Q[x] = P[x]
      BY <1>1, <2>3
    <3>2. ASSUME NEW y \in DOMAIN Q, IsLiteral(h, y), Q[y] = Q[x] PROVE y = x
      <4>1. y # n
        BY <1>1, <1>7, <2>1, <3>1, <3>2
      <4> QED BY <1>1, <1>6, <1>7, <3>1, <3>2, <4>1
    <3> QED BY <1>1, <1>3, <1>6, <1>7, <3>1, <3>2
  <2> QED BY <2>2, <2>3
<1> QED BY <1>2, <1>5, <1>7 DEF StaticsInv, n, v, S2

(* What an operation takes of the statics: literals that its node loads,   *)
(* or the value that is added for it.                                      *)
Takes(h, P, n, S, e, op, s) ==
  \/ \E i \in Loads(h, n) : /\ IsLiteral(h, h[n].kids[i]) /\ s = P[h[n].kids[i]]
                            /\ FamilyOf(h[h[n].kids[i]].val) = StaticType(op.opcode)
  \/ s = FieldSize * Len(S) /\ FamilyOf(e) = StaticType(op.opcode)

(* A node with an operation, and with or without a static.                 *)
LEMMA StaticsOperation ==
  ASSUME NEW h, NEW l, NEW u, NEW P, NEW Q, NEW v, NEW O, NEW S, NEW op, NEW e, NEW S2,
         StaticsInv(h, u, P, O, S), LeftWith(h, l, u, P, Q, v), ~IsLiteral(h, Head(u)),
         \A s \in StaticsRead(op) : Takes(h, P, Head(u), S, e, op, s),
         S2 = S \/ S2 = Append(S, e),
         S2 = S => FieldSize * Len(S) \notin StaticsRead(op)
  PROVE  StaticsInv(h, Tail(u), Q, Append(O, op), S2)
<1> DEFINE n  == Head(u)
           t  == FieldSize * Len(S)
           O2 == Append(O, op)
<1>1. /\ DOMAIN Q = DOMAIN P \cup {n} /\ n \notin DOMAIN P
      /\ \A x \in DOMAIN P : Q[x] = P[x]
      /\ \A i \in Loads(h, n) : Pending(h, u, P, h[n].kids[i])
      /\ \A x \in DOMAIN P : Pending(h, Tail(u), Q, x) =>
           Pending(h, u, P, x) /\ \A i \in Loads(h, n) : h[n].kids[i] # x
  BY DEF LeftWith
<1>2. \A x \in DOMAIN Q : IsLiteral(h, x) => x \in DOMAIN P /\ Q[x] = P[x]
  BY <1>1
<1>3. IsSeq(O) /\ IsSeq(S)
  BY DEF StaticsInv
<1>4. /\ IsSeq(O2) /\ Len(O) \in Nat /\ Len(O2) = Len(O) + 1 /\ O2[Len(O) + 1] = op
      /\ \A i \in 1 .. Len(O) : O2[i] = O[i]
  BY <1>3, Appended
<1>5. IsSeq(S2)
  <2>1. IsSeq(Append(S, e))
    BY <1>3, Appended
  <2> QED BY <1>3, <2>1
<1>6. ASSUME NEW s, NEW val, Holds(S, s, val) PROVE Holds(S2, s, val) /\ s # t
  <2>1. Holds(Append(S, e), s, val)
    BY <1>3, <1>6, HoldsLater
  <2>2. s # t
    BY <1>3, <1>6, HoldsLast
  <2> QED BY <1>6, <2>1, <2>2
<1>7. S2 # S => Holds(S2, t, e)
  BY <1>3, HoldsLast
<1>8. \A s \in StaticsRead(op) : Takes(h, P, n, S, e, op, s)
  OBVIOUS
<1>9. S2 = S => t \notin StaticsRead(op)
  OBVIOUS
<1> HIDE DEF n, t, O2
<1>10. ASSUME NEW x \in DOMAIN P, IsLiteral(h, x)
       PROVE  /\ Holds(S, P[x], h[x].val)
              /\ \A y \in DOMAIN P : IsLiteral(h, y) /\ P[y] = P[x] => y = x
              /\ Pending(h, u, P, x) => Untaken(O, Len(O) + 1, P[x])
  BY <1>10 DEF StaticsInv
<1>11. ASSUME NEW i \in 1 .. Len(O), NEW s \in StaticsRead(O[i])
       PROVE  /\ \E val : Holds(S, s, val) /\ FamilyOf(val) = StaticType(O[i].opcode)
              /\ Untaken(O, i, s) /\ s # t
  <2>1. /\ \E val : Holds(S, s, val) /\ FamilyOf(val) = StaticType(O[i].opcode)
        /\ Untaken(O, i, s)
    BY DEF StaticsInv
  <2> QED BY <1>6, <2>1
<1>12. ASSUME NEW k \in 1 .. Len(O) + 1, NEW s, Untaken(O, k, s) PROVE Untaken(O2, k, s)
  <2>1. \A j \in 1 .. k - 1 : j \in 1 .. Len(O)
    BY <1>4
  <2> QED BY <1>4, <1>12, <2>1 DEF Untaken
<1>13. Untaken(O, Len(O) + 1, t)
  <2>1. \A j \in 1 .. Len(O) + 1 - 1 : j \in 1 .. Len(O)
    BY <1>4
  <2> QED BY <1>11, <2>1 DEF Untaken
<1>14. ASSUME NEW s \in StaticsRead(op)
       PROVE  /\ \E val : Holds(S2, s, val) /\ FamilyOf(val) = StaticType(op.opcode)
              /\ Untaken(O, Len(O) + 1, s)
              /\ s = t \/ \E i \in Loads(h, n) : IsLiteral(h, h[n].kids[i]) /\ s = P[h[n].kids[i]]
  <2>1. Takes(h, P, n, S, e, op, s)
    BY <1>8
  <2>2. CASE s = t /\ FamilyOf(e) = StaticType(op.opcode)
    BY <1>7, <1>9, <1>13, <2>2
  <2>3. CASE \E i \in Loads(h, n) : /\ IsLiteral(h, h[n].kids[i]) /\ s = P[h[n].kids[i]]
                                    /\ FamilyOf(h[h[n].kids[i]].val) = StaticType(op.opcode)
    <3>1. PICK i \in Loads(h, n) : /\ IsLiteral(h, h[n].kids[i]) /\ s = P[h[n].kids[i]]
                                   /\ FamilyOf(h[h[n].kids[i]].val) = StaticType(op.opcode)
      BY <2>3
    <3>2. Pending(h, u, P, h[n].kids[i])
      BY <1>1
    <3>3. h[n].kids[i] \in DOMAIN P
      BY <3>2 DEF Pending
    <3>4. Holds(S, s, h[h[n].kids[i]].val) /\ Untaken(O, Len(O) + 1, s)
      BY <1>10, <3>1, <3>2, <3>3
    <3> QED BY <1>6, <3>1, <3>4
  <2> QED BY <2>1, <2>2, <2>3 DEF Takes, t
<1>15. ASSUME NEW i \in 1 .. Len(O2), NEW s \in StaticsRead(O2[i])
       PROVE  /\ \E val : Holds(S2, s, val) /\ FamilyOf(val) = StaticType(O2[i].opcode)
              /\ Untaken(O2, i, s)
  <2>1. CASE i = Len(O) + 1
    <3>1. O2[i] = op /\ i \in 1 .. Len(O) + 1
      BY <1>4, <2>1
    <3> QED BY <1>12, <1>14, <2>1, <3>1
  <2>2. CASE i # Len(O) + 1
    <3>1. i \in 1 .. Len(O) /\ O2[i] = O[i] /\ i \in 1 .. Len(O) + 1
      BY <1>4, <2>2
    <3>2. s \in StaticsRead(O[i])
      BY <3>1
    <3> QED BY <1>6, <1>11, <1>12, <3>1, <3>2
  <2> QED BY <2>1, <2>2
<1>16. ASSUME NEW x \in DOMAIN Q, IsLiteral(h, x)
       PROVE  /\ Holds(S2, Q[x], h[x].val)
              /\ \A y \in DOMAIN Q : IsLiteral(h, y) /\ Q[y] = Q[x] => y = x
              /\ Pending(h, Tail(u), Q, x) => Untaken(O2, Len(O2) + 1, Q[x])
  <2>1. x \in DOMAIN P /\ Q[x] = P[x]
    BY <1>2, <1>16
  <2>2. Holds(S2, Q[x], h[x].val) /\ P[x] # t
    BY <1>6, <1>10, <1>16, <2>1
  <2>3. ASSUME NEW y \in DOMAIN Q, IsLiteral(h, y), Q[y] = Q[x] PROVE y = x
    <3>1. y \in DOMAIN P /\ P[y] = P[x]
      BY <1>2, <2>1, <2>3
    <3> QED BY <1>10, <1>16, <2>1, <2>3, <3>1
  <2>4. ASSUME Pending(h, Tail(u), Q, x) PROVE Untaken(O2, Len(O2) + 1, P[x])
    <3>1. Pending(h, u, P, x) /\ \A i \in Loads(h, n) : h[n].kids[i] # x
      BY <1>1, <2>1, <2>4
    <3>2. Untaken(O, Len(O) + 1, P[x])
      BY <1>10, <1>16, <2>1, <3>1
    <3>3. P[x] \notin StaticsRead(op)
      <4>1. ASSUME NEW i \in Loads(h, n), IsLiteral(h, h[n].kids[i]), P[x] = P[h[n].kids[i]]
            PROVE  FALSE
        <5>1. Pending(h, u, P, h[n].kids[i])
          BY <1>1
        <5>2. h[n].kids[i] \in DOMAIN P
          BY <5>1 DEF Pending
        <5> QED BY <1>10, <1>16, <2>1, <3>1, <4>1, <5>2
      <4> QED BY <1>14, <2>2, <4>1
    <3>4. \A j \in 1 .. Len(O2) + 1 - 1 : j = Len(O) + 1 \/ j \in 1 .. Len(O) + 1 - 1
      BY <1>4
    <3>5. \A j \in 1 .. Len(O) + 1 - 1 : O2[j] = O[j]
      BY <1>4
    <3> QED BY <1>4, <3>2, <3>3, <3>4, <3>5 DEF Untaken
  <2> QED BY <2>1, <2>2, <2>3, <2>4
<1> QED BY <1>4, <1>5, <1>15, <1>16 DEF StaticsInv, O2

(***************************************************************************)
(* The operations it writes.                                               *)
(***************************************************************************)

(* The opcode of an arithmetic operation tells which operand is immediate. *)
Computes(op, spec, d, a, b) ==
  /\ ~Writes(op) /\ op.dest_arg = d
  /\ SlotsRead(op) = (IF spec \in {ioplm, foplm} THEN {} ELSE {a})
                       \cup (IF spec \in {ioprm, foprm} THEN {} ELSE {b})
  /\ StaticsRead(op) = (IF spec \in {ioplm, foplm} THEN {a} ELSE {})
                         \cup (IF spec \in {ioprm, foprm} THEN {b} ELSE {})
  /\ StaticType(op.opcode) = IF spec \in {iop, ioplm, ioprm} THEN "INT" ELSE "FLOAT"

(* It is what write_op gets from OpcodeOf and configure_spec.              *)
LEMMA ArithmeticOp ==
  ASSUME NEW type \in Arithmetic, NEW spec \in {iop, fop, ioplm, ioprm, foplm, foprm},
         NEW d, NEW a, NEW b, NEW op, op = DulIROP(OpcodeOf[type] + spec, d, a, b)
  PROVE  Computes(op, spec, d, a, b)
<1>1. op.opcode = OpcodeOf[type] + spec /\ op.dest_arg = d /\ op.first_arg = a /\ op.second_arg = b
  BY DEF DulIROP
<1>2. OpcodeOf[type] \in {0, 6, 12, 18} /\ spec \in 0 .. 5
  BY DEF OpcodeOf, Arithmetic, Additive, Multiplicative, iop, fop, ioplm, ioprm, foplm, foprm
<1>3. op.opcode < 24 /\ op.opcode % 6 = spec
  BY <1>1, <1>2
<1>4. is_arithmetic(op.opcode) /\ ~Writes(op)
  BY <1>1, <1>2, <1>3 DEF is_arithmetic, Writes, iwrite_, iwrite_m, fwrite_, fwrite_m
<1>5. /\ imm_type(op.opcode) = "IS_LM" <=> spec \in {ioplm, foplm}
      /\ imm_type(op.opcode) = "IS_RM" <=> spec \in {ioprm, foprm}
      /\ get_type_family(op.opcode) = IF spec \in {iop, ioplm, ioprm} THEN "INT" ELSE "FLOAT"
  BY <1>3 DEF imm_type, get_type_family, iop, fop, ioplm, ioprm, foplm, foprm
<1>6. StaticType(op.opcode) = get_type_family(op.opcode)
  BY <1>3 DEF StaticType, is_arithmetic, iwrite_, iwrite_m, istore, cast_to_float_m
<1>7. /\ SlotsRead(op) = (IF imm_type(op.opcode) = "IS_LM" THEN {} ELSE {a})
                           \cup (IF imm_type(op.opcode) = "IS_RM" THEN {} ELSE {b})
      /\ StaticsRead(op) = (IF imm_type(op.opcode) = "IS_LM" THEN {a} ELSE {})
                             \cup (IF imm_type(op.opcode) = "IS_RM" THEN {b} ELSE {})
  BY <1>1, <1>3 DEF SlotsRead, StaticsRead, is_arithmetic, iwrite_, iwrite_m, fwrite_, fwrite_m,
                    istore, fstore, cast_to_float, cast_to_float_m
<1> QED BY <1>1, <1>4, <1>5, <1>6, <1>7 DEF Computes

(* The other operations: a cast, a write, the assignment of a literal.     *)
LEMMA CastOp ==
  ASSUME NEW opcode \in {cast_to_float, cast_to_float_m}, NEW d, NEW a,
         NEW op, op = DulIROP(opcode, d, a, 0)
  PROVE  /\ ~Writes(op) /\ op.dest_arg = d
         /\ SlotsRead(op) = IF opcode = cast_to_float THEN {a} ELSE {}
         /\ StaticsRead(op) = IF opcode = cast_to_float THEN {} ELSE {a}
         /\ opcode = cast_to_float_m => StaticType(op.opcode) = "INT"
BY DEF DulIROP, Writes, SlotsRead, StaticsRead, StaticType, is_arithmetic, iwrite_, iwrite_m,
       fwrite_, fwrite_m, istore, fstore, cast_to_float, cast_to_float_m

(* A write stores nothing and reads its operand from frame or statics.     *)
LEMMA WriteOp ==
  ASSUME NEW opcode \in {iwrite_, iwrite_m, fwrite_, fwrite_m}, NEW a,
         NEW op, op = DulIROP(opcode, a, 0, 0)
  PROVE  /\ Writes(op)
         /\ SlotsRead(op) = IF opcode \in {iwrite_, fwrite_} THEN {a} ELSE {}
         /\ StaticsRead(op) = IF opcode \in {iwrite_, fwrite_} THEN {} ELSE {a}
         /\ StaticType(op.opcode) = IF opcode = iwrite_m THEN "INT" ELSE "FLOAT"
BY DEF DulIROP, Writes, SlotsRead, StaticsRead, StaticType, is_arithmetic, iwrite_, iwrite_m,
       fwrite_, fwrite_m, istore, fstore, cast_to_float, cast_to_float_m

(* The store of a literal reads its static and nothing of the frame.       *)
LEMMA StoreOp ==
  ASSUME NEW opcode \in {istore, fstore}, NEW d, NEW a, NEW op, op = DulIROP(opcode, d, a, 0)
  PROVE  /\ ~Writes(op) /\ op.dest_arg = d /\ SlotsRead(op) = {} /\ StaticsRead(op) = {a}
         /\ StaticType(op.opcode) = IF opcode = istore THEN "INT" ELSE "FLOAT"
BY DEF DulIROP, Writes, SlotsRead, StaticsRead, StaticType, is_arithmetic, iwrite_, iwrite_m,
       fwrite_, fwrite_m, istore, fstore, cast_to_float, cast_to_float_m

(***************************************************************************)
(* The tree it is given.                                                   *)
(***************************************************************************)
AllTyped == Tree(heap, root) /\ Types(heap, root, untyped, layout) /\ untyped = <<>>

(* A child whose type a node has been given its type from is settled too.  *)
LEMMA SettledKid ==
  ASSUME AllTyped, NEW n \in 1 .. Len(heap), Settled(heap, layout, n), NEW i \in Read(heap, n)
  PROVE  heap[n].kids[i] \in 1 .. Len(heap) /\ Settled(heap, layout, heap[n].kids[i])
<1>1. heap[n].kids[i] \in 1 .. Len(heap) /\ ~Named(heap, heap[n].kids[i])
  BY ReadFacts DEF AllTyped
<1>2. Typed(heap, heap[n].kids[i])
  BY DEF Settled
<1> QED BY <1>1, <1>2 DEF AllTyped, Types

(* The children of a node that is no assignment are all loaded.            *)
LEMMA LoadsAll ==
  ASSUME AllTyped, NEW n \in 1 .. Len(heap), heap[n].type # "ASSIGN"
  PROVE  /\ Loads(heap, n) = 1 .. Len(heap[n].kids)
         /\ Read(heap, n) = 1 .. Len(heap[n].kids)
<1>1. Len(heap[n].kids) \in Nat /\ Unloaded(heap)[n] = 0
  BY KidsOfTree DEF Unloaded, AllTyped
<1>2. \A i \in 1 .. Len(heap[n].kids) : i > 0
  BY <1>1
<1> QED BY <1>1, <1>2 DEF Loads, ReadFrom, Read

(* A literal has the family of its type, which its parent takes over.      *)
LEMMA LiteralFamily ==
  ASSUME AllTyped, NEW x \in 1 .. Len(heap), Settled(heap, layout, x), IsLiteral(heap, x)
  PROVE  /\ FamilyOf(heap[x].val) = heap[x].node_type
         /\ heap[x].type = "INTEGERLIT" <=> heap[x].node_type = "INT"
         /\ heap[x].type = "NUMLIT" <=> heap[x].node_type = "FLOAT"
<1>1. NodeShape(heap, x)
  BY KidsOfTree DEF AllTyped
<1> QED BY <1>1 DEF NodeShape, Settled, IsLiteral, Literals, FamilyOf

(* configure_spec picks the immediate variant for the operand that is a    *)
(* literal, and the family of the node.                                    *)
LEMMA SpecFits ==
  ASSUME AllTyped, NEW n \in 1 .. Len(heap), heap[n].type \in Arithmetic, Settled(heap, layout, n)
  PROVE  /\ configure_spec(n) \in {iop, fop, ioplm, ioprm, foplm, foprm}
         /\ configure_spec(n) \in {ioplm, foplm} <=> IsLiteral(heap, heap[n].kids[1])
         /\ configure_spec(n) \in {ioprm, foprm} <=> IsLiteral(heap, heap[n].kids[2])
         /\ configure_spec(n) \in {iop, ioplm, ioprm} <=> heap[n].node_type = "INT"
         /\ \A i \in 1 .. 2 : IsLiteral(heap, heap[n].kids[i]) =>
              FamilyOf(heap[heap[n].kids[i]].val) = heap[n].node_type
<1>1. heap[n].type # "ASSIGN" /\ Len(heap[n].kids) = 2
  <2>1. NodeShape(heap, n)
    BY KidsOfTree DEF AllTyped
  <2> QED BY <2>1 DEF NodeShape, KidsFit, Arithmetic, Additive, Multiplicative
<1>2. ASSUME NEW i \in 1 .. 2
      PROVE  /\ heap[heap[n].kids[i]].node_type = heap[n].node_type
             /\ IsLiteral(heap, heap[n].kids[i]) =>
                  /\ FamilyOf(heap[heap[n].kids[i]].val) = heap[n].node_type
                  /\ heap[heap[n].kids[i]].type = "INTEGERLIT" <=> heap[n].node_type = "INT"
                  /\ heap[heap[n].kids[i]].type = "NUMLIT" <=> heap[n].node_type = "FLOAT"
  <2>1. i \in Read(heap, n)
    BY <1>1, LoadsAll
  <2>2. heap[n].kids[i] \in 1 .. Len(heap) /\ Settled(heap, layout, heap[n].kids[i])
    BY <2>1, SettledKid
  <2>3. heap[heap[n].kids[i]].node_type = heap[n].node_type
    BY DEF Settled
  <2> QED BY <2>2, <2>3, LiteralFamily
<1>3. heap[n].node_type \in {"INT", "FLOAT"}
  BY DEF Settled
<1>4. ~(IsLiteral(heap, heap[n].kids[1]) /\ IsLiteral(heap, heap[n].kids[2]))
  BY DEF AllTyped, Types, FoldableIn, IsLiteral
<1>5. \A i \in 1 .. 2 : heap[heap[n].kids[i]].type \in Literals <=> IsLiteral(heap, heap[n].kids[i])
  BY DEF IsLiteral
<1>6. \A i \in 1 .. 2 :
        /\ heap[n].node_type = "INT" =>
             (heap[heap[n].kids[i]].type = "INTEGERLIT" <=> IsLiteral(heap, heap[n].kids[i]))
        /\ heap[n].node_type # "INT" =>
             (heap[heap[n].kids[i]].type = "NUMLIT" <=> IsLiteral(heap, heap[n].kids[i]))
  BY <1>2, <1>3, <1>5 DEF Literals
<1>7. PICK a, b \in BOOLEAN :
        (a <=> IsLiteral(heap, heap[n].kids[1])) /\ (b <=> IsLiteral(heap, heap[n].kids[2]))
  OBVIOUS
<1>8. ~(a /\ b)
  BY <1>4, <1>7
<1>9. CASE heap[n].node_type = "INT"
  <2>1. configure_spec(n) = IF a THEN ioplm ELSE IF b THEN ioprm ELSE iop
    BY <1>6, <1>7, <1>9 DEF configure_spec
  <2> QED BY <1>2, <1>7, <1>8, <1>9, <2>1 DEF iop, fop, ioplm, ioprm, foplm, foprm
<1>10. CASE heap[n].node_type # "INT"
  <2>1. configure_spec(n) = IF a THEN foplm ELSE IF b THEN foprm ELSE fop
    BY <1>6, <1>7, <1>10 DEF configure_spec
  <2> QED BY <1>2, <1>7, <1>8, <1>10, <2>1 DEF iop, fop, ioplm, ioprm, foplm, foprm
<1> QED BY <1>9, <1>10

(* A name that has a field has eight bytes among the variables.            *)
LEMMA VariableOffset ==
  ASSUME AllTyped, NEW name, FieldsIn(layout, name) # {}
  PROVE  /\ layout_count_offset(name) \in Int
         /\ layout_count_offset(name) < VarBytes(layout)
<1>1. Len(layout) \in Nat /\ DOMAIN layout = 1 .. Len(layout)
  <2>1. PICK F : layout \in Seq([name : F, field_t : {"INT", "FLOAT"}])
    BY DEF AllTyped, Types, LayoutTypes
  <2> QED BY <2>1
<1>2. PICK i : i = CHOOSE j \in FieldsIn(layout, name) : TRUE
  OBVIOUS
<1>3. i \in 1 .. Len(layout)
  <2>1. i \in FieldsIn(layout, name)
    BY <1>2
  <2> QED BY <1>1, <2>1 DEF FieldsIn
<1>4. layout_count_offset(name) = FieldSize * (i - 1)
  BY <1>2 DEF layout_count_offset, FieldsOf, FieldsIn
<1> QED BY <1>1, <1>3, <1>4 DEF VarBytes, FieldSize

(* The target of a statement that is an assignment has one.                *)
LEMMA TargetOffset ==
  ASSUME AllTyped, NEW s \in 1 .. Len(heap), Settled(heap, layout, s), heap[s].type = "ASSIGN"
  PROVE  /\ layout_count_offset(NameOf(heap[s].kids[1])) \in Int
         /\ layout_count_offset(NameOf(heap[s].kids[1])) < VarBytes(layout)
<1>1. FieldsIn(layout, NameIn(heap, heap[s].kids[1])) # {}
  BY DEF Settled
<1>2. NameOf(heap[s].kids[1]) = NameIn(heap, heap[s].kids[1])
  BY DEF NameOf, NameIn
<1> QED BY <1>1, <1>2, VariableOffset

(* A statement has its type when the types are done.                       *)
LEMMA StatementSettled ==
  ASSUME AllTyped, NEW s \in Range(root)
  PROVE  s \in 1 .. Len(heap) /\ Settled(heap, layout, s)
<1>1. PICK k \in 1 .. Len(root) : root[k] = s
  <2>1. DOMAIN root = 1 .. Len(root)
    BY DEF AllTyped, Tree
  <2> QED BY <2>1 DEF Range
<1>2. s \in 1 .. Len(heap)
  BY <1>1, ElementOfSeq DEF AllTyped, Tree
<1>3. Typed(heap, s)
  BY <1>1 DEF AllTyped, Types
<1>4. ~Named(heap, s)
  <2>1. s \notin KidSet(heap)
    BY <1>1 DEF AllTyped, Tree
  <2> QED BY <1>2, <2>1, ReadFacts DEF AllTyped
<1> QED BY <1>2, <1>3, <1>4 DEF AllTyped, Types

(* An operation stores into the variable of its assignment, or into the    *)
(* next eight bytes of the frame.                                          *)
LEMMA DestStores ==
  ASSUME AllTyped, NEW n, TakeDest(n), NEW op, ~Writes(op), op.dest_arg = RealDest(n)
  PROVE  Stores(layout, op, RealDest(n), current_stack_offset, current_stack_offset')
<1>1. CASE AssignmentsOf(n) = {}
  BY <1>1 DEF TakeDest, RealDest, Stores
<1>2. CASE AssignmentsOf(n) # {}
  <2>1. PICK s : s = CHOOSE a \in AssignmentsOf(n) : TRUE
    OBVIOUS
  <2>2. s \in AssignmentsOf(n)
    BY <1>2, <2>1
  <2>3. s \in Range(root) /\ heap[s].type = "ASSIGN"
    BY <2>2 DEF AssignmentsOf
  <2>4. RealDest(n) = layout_count_offset(NameOf(heap[s].kids[1]))
    BY <1>2, <2>1 DEF RealDest
  <2>5. RealDest(n) \in Int /\ RealDest(n) < VarBytes(layout)
    BY <2>3, <2>4, StatementSettled, TargetOffset
  <2> QED BY <1>2, <2>5 DEF TakeDest, Stores
<1> QED BY <1>1, <1>2

(***************************************************************************)
(* The steps of the code generator.                                        *)
(***************************************************************************)
CodeNow  == CodeState(heap, layout, unloaded, place, ops, statics, current_stack_offset)
CodeNext == CodeState(heap, layout, unloaded', place', ops', statics', current_stack_offset')

(* The node leaves with a literal, with the value of a variable, with none *)
(* at all, or behind an operation on what it loads.                        *)
Quietly(v) == /\ ops' = ops
              /\ IsLiteral(heap, Head(unloaded)) \/ (v \in Int /\ v < VarBytes(layout))
Operating(v) == \E op : /\ ops' = Append(ops, op)
                        /\ SlotsRead(op) \subseteq SlotPlaces(heap, place, Head(unloaded))
                        /\ Stores(layout, op, v, current_stack_offset, current_stack_offset')
CodeEffect ==
  \E v : /\ LeftWith(heap, layout, unloaded, place, place', v) /\ unloaded' = Tail(unloaded)
         /\ \/ Quietly(v)
            \/ heap[Head(unloaded)].type \notin Tops /\ Operating(v)

(* What a step makes of the node that is to leave.                         *)
LEMMA LoadLeaves ==
  ASSUME AllTyped, CodeNow, NEW types, Loading(types), NEW n, n = Head(unloaded),
         NEW v, Returns(n, v)
  PROVE  /\ LeftWith(heap, layout, unloaded, place, place', v) /\ unloaded' = Tail(unloaded)
         /\ Walking(heap, layout, unloaded', place')
         /\ n \in 1 .. Len(heap) /\ heap[n].type \in types
         /\ NodeShape(heap, n) /\ Settled(heap, layout, n)
         /\ SlotsInv(heap, layout, unloaded, place, ops, current_stack_offset)
         /\ StaticsInv(heap, unloaded, place, ops, statics)
<1>1. /\ Tree(heap, root) /\ Walking(heap, layout, unloaded, place)
      /\ SlotsInv(heap, layout, unloaded, place, ops, current_stack_offset)
      /\ StaticsInv(heap, unloaded, place, ops, statics)
  BY DEF AllTyped, CodeNow, CodeState
<1>2. unloaded # <<>> /\ unloaded' = Tail(unloaded) /\ heap[n].type \in types
  BY DEF Loading
<1>3. place' = [m \in DOMAIN place \cup {Head(unloaded)} |->
                  IF m = Head(unloaded) THEN v ELSE place[m]]
  BY DEF Returns
<1>4. LeftWith(heap, layout, unloaded, place, place', v)
  BY <1>1, <1>2, <1>3, LeaveNode
<1>5. /\ Walking(heap, layout, unloaded', place') /\ n \in 1 .. Len(heap)
      /\ Settled(heap, layout, n)
  BY <1>2, <1>4 DEF LeftWith
<1> QED BY <1>1, <1>2, <1>4, <1>5, KidsOfTree

(* A literal becomes a static. *)
LEMMA LoadLiteralKeeps ==
  ASSUME AllTyped, CodeNow, LoadLiteral
  PROVE  CodeNext /\ CodeEffect
<1> DEFINE n == Head(unloaded)
<1>1. /\ Loading(Literals) /\ Returns(n, StaticOffset) /\ statics' = Append(statics, heap[n].val)
      /\ ops' = ops /\ current_stack_offset' = current_stack_offset
  BY DEF LoadLiteral, add_static
<1>2. /\ LeftWith(heap, layout, unloaded, place, place', FieldSize * Len(statics))
      /\ unloaded' = Tail(unloaded) /\ Walking(heap, layout, unloaded', place')
      /\ SlotsInv(heap, layout, unloaded, place, ops, current_stack_offset)
      /\ StaticsInv(heap, unloaded, place, ops, statics)
      /\ IsLiteral(heap, Head(unloaded))
  BY <1>1, LoadLeaves DEF StaticOffset, IsLiteral
<1>3. SlotsInv(heap, layout, unloaded', place', ops', current_stack_offset')
  BY <1>1, <1>2, SlotsQuiet
<1>4. StaticsInv(heap, unloaded', place', ops', statics')
  BY <1>1, <1>2, StaticsLiteral
<1>5. CodeEffect
  BY <1>1, <1>2 DEF CodeEffect, Quietly
<1> QED BY <1>2, <1>3, <1>4, <1>5 DEF CodeNext, CodeState

(* A name lies where its variable does. *)
LEMMA LoadNameKeeps ==
  ASSUME AllTyped, CodeNow, LoadName
  PROVE  CodeNext /\ CodeEffect
<1> DEFINE n == Head(unloaded)
           v == layout_count_offset(heap[n].val)
<1>1. /\ Loading({"NAME"}) /\ Returns(n, v)
      /\ ops' = ops /\ statics' = statics /\ current_stack_offset' = current_stack_offset
  BY DEF LoadName
<1>2. /\ LeftWith(heap, layout, unloaded, place, place', v)
      /\ unloaded' = Tail(unloaded) /\ Walking(heap, layout, unloaded', place')
      /\ SlotsInv(heap, layout, unloaded, place, ops, current_stack_offset)
      /\ StaticsInv(heap, unloaded, place, ops, statics)
      /\ heap[n].type = "NAME" /\ Settled(heap, layout, n)
  BY <1>1, LoadLeaves
<1>3. v \in Int /\ v < VarBytes(layout)
  <2>1. FieldsIn(layout, heap[n].val) # {}
    BY <1>2 DEF Settled
  <2> QED BY <2>1, VariableOffset
<1>4. ~IsLiteral(heap, Head(unloaded))
  BY <1>2 DEF IsLiteral, Literals
<1> HIDE DEF v
<1>5. SlotsInv(heap, layout, unloaded', place', ops', current_stack_offset')
  BY <1>1, <1>2, <1>3, SlotsQuiet
<1>6. StaticsInv(heap, unloaded', place', ops', statics')
  BY <1>1, <1>2, <1>4, StaticsQuiet
<1>7. CodeEffect
  BY <1>1, <1>2, <1>3 DEF CodeEffect, Quietly
<1> QED BY <1>2, <1>5, <1>6, <1>7 DEF CodeNext, CodeState

(* A node with an operation on what it loads, and no static of its own.    *)
LEMMA OperationKeeps ==
  ASSUME AllTyped, CodeNow, NEW types, Loading(types), types \cap Tops = {},
         NEW n, n = Head(unloaded), NEW v, Returns(n, v),
         NEW op, ops' = Append(ops, op), statics' = statics,
         SlotsRead(op) \subseteq SlotPlaces(heap, place, n),
         Stores(layout, op, v, current_stack_offset, current_stack_offset'),
         \A s \in StaticsRead(op) :
           \E i \in Loads(heap, n) :
             /\ IsLiteral(heap, heap[n].kids[i]) /\ s = place[heap[n].kids[i]]
             /\ FamilyOf(heap[heap[n].kids[i]].val) = StaticType(op.opcode)
  PROVE  CodeNext /\ CodeEffect
<1>1. /\ LeftWith(heap, layout, unloaded, place, place', v)
      /\ unloaded' = Tail(unloaded) /\ Walking(heap, layout, unloaded', place')
      /\ SlotsInv(heap, layout, unloaded, place, ops, current_stack_offset)
      /\ StaticsInv(heap, unloaded, place, ops, statics) /\ heap[n].type \in types
  BY LoadLeaves
<1>2. ~IsLiteral(heap, Head(unloaded)) /\ heap[Head(unloaded)].type \notin Tops
  BY <1>1 DEF IsLiteral, Tops
<1>3. SlotsInv(heap, layout, unloaded', place', ops', current_stack_offset')
  BY <1>1, <1>2, SlotsOperation
<1>4. \A s \in StaticsRead(op) : Takes(heap, place, Head(unloaded), statics, NoVal, op, s)
  BY DEF Takes
<1>5. FieldSize * Len(statics) \notin StaticsRead(op)
  <2> SUFFICES ASSUME FieldSize * Len(statics) \in StaticsRead(op) PROVE FALSE
    OBVIOUS
  <2>1. PICK i \in Loads(heap, n) : /\ IsLiteral(heap, heap[n].kids[i])
                                    /\ FieldSize * Len(statics) = place[heap[n].kids[i]]
    OBVIOUS
  <2>2. Pending(heap, unloaded, place, heap[n].kids[i])
    BY <1>1 DEF LeftWith
  <2>3. Holds(statics, FieldSize * Len(statics), heap[heap[n].kids[i]].val) /\ IsSeq(statics)
    <3>1. IsSeq(statics) /\ \A x \in DOMAIN place : IsLiteral(heap, x) =>
                               Holds(statics, place[x], heap[x].val)
      BY <1>1 DEF StaticsInv
    <3>2. heap[n].kids[i] \in DOMAIN place
      BY <2>2 DEF Pending
    <3> QED BY <2>1, <3>1, <3>2
  <2> QED BY <2>3, HoldsLast
<1>6. StaticsInv(heap, Tail(unloaded), place', Append(ops, op), statics)
  BY <1>1, <1>2, <1>4, <1>5, StaticsOperation
<1>7. Operating(v)
  BY DEF Operating
<1>8. CodeEffect
  BY <1>1, <1>2, <1>7 DEF CodeEffect
<1> QED BY <1>1, <1>3, <1>6, <1>8 DEF CodeNext, CodeState

(* Arithmetic takes each operand from where its child lies.                *)
LEMMA LoadArithmeticKeeps ==
  ASSUME AllTyped, CodeNow, LoadArithmetic
  PROVE  CodeNext /\ CodeEffect
<1> DEFINE n == Head(unloaded)
<1>1. PICK spec : spec = configure_spec(n)
  OBVIOUS
<1>2. PICK op : op = DulIROP(OpcodeOf[heap[n].type] + spec, RealDest(n), KidPlace(n, 1),
                             KidPlace(n, 2))
  OBVIOUS
<1>3. /\ Loading(Arithmetic) /\ TakeDest(n) /\ Returns(n, RealDest(n))
      /\ ops' = Append(ops, op) /\ statics' = statics
  BY <1>1, <1>2 DEF LoadArithmetic, write_op
<1>4. /\ n \in 1 .. Len(heap) /\ heap[n].type \in Arithmetic
      /\ NodeShape(heap, n) /\ Settled(heap, layout, n)
  BY <1>3, LoadLeaves
<1>5. /\ spec \in {iop, fop, ioplm, ioprm, foplm, foprm}
      /\ spec \in {ioplm, foplm} <=> IsLiteral(heap, heap[n].kids[1])
      /\ spec \in {ioprm, foprm} <=> IsLiteral(heap, heap[n].kids[2])
      /\ spec \in {iop, ioplm, ioprm} <=> heap[n].node_type = "INT"
      /\ \A i \in 1 .. 2 : IsLiteral(heap, heap[n].kids[i]) =>
           FamilyOf(heap[heap[n].kids[i]].val) = heap[n].node_type
  BY <1>1, <1>4, SpecFits
<1>6. /\ ~Writes(op) /\ op.dest_arg = RealDest(n)
      /\ SlotsRead(op) = (IF spec \in {ioplm, foplm} THEN {} ELSE {KidPlace(n, 1)})
                           \cup (IF spec \in {ioprm, foprm} THEN {} ELSE {KidPlace(n, 2)})
      /\ StaticsRead(op) = (IF spec \in {ioplm, foplm} THEN {KidPlace(n, 1)} ELSE {})
                             \cup (IF spec \in {ioprm, foprm} THEN {KidPlace(n, 2)} ELSE {})
      /\ StaticType(op.opcode) = IF spec \in {iop, ioplm, ioprm} THEN "INT" ELSE "FLOAT"
  <2>1. PICK type, d, a, b : /\ type = heap[n].type /\ d = RealDest(n)
                             /\ a = KidPlace(n, 1) /\ b = KidPlace(n, 2)
    OBVIOUS
  <2>2. type \in Arithmetic /\ op = DulIROP(OpcodeOf[type] + spec, d, a, b)
    BY <1>2, <1>4, <2>1
  <2> HIDE DEF n
  <2>3. Computes(op, spec, d, a, b)
    BY <1>5, <2>2, ArithmeticOp
  <2> QED BY <2>1, <2>3 DEF Computes
<1>7. StaticType(op.opcode) = heap[n].node_type
  BY <1>4, <1>5, <1>6 DEF Settled
<1>8. Loads(heap, n) = 1 .. 2
  <2>1. heap[n].type # "ASSIGN" /\ Len(heap[n].kids) = 2
    BY <1>4 DEF NodeShape, KidsFit, Arithmetic, Additive, Multiplicative
  <2> QED BY <1>4, <2>1, LoadsAll
<1>9. Stores(layout, op, RealDest(n), current_stack_offset, current_stack_offset')
  BY <1>3, <1>6, DestStores
<1>10. ASSUME NEW t \in SlotsRead(op) PROVE t \in SlotPlaces(heap, place, n)
  <2>1. \E i \in 1 .. 2 : t = place[heap[n].kids[i]] /\ ~IsLiteral(heap, heap[n].kids[i])
    <3>1. \/ t = KidPlace(n, 1) /\ spec \notin {ioplm, foplm}
          \/ t = KidPlace(n, 2) /\ spec \notin {ioprm, foprm}
      BY <1>6
    <3>2. \/ t = KidPlace(n, 1) /\ ~IsLiteral(heap, heap[n].kids[1])
          \/ t = KidPlace(n, 2) /\ ~IsLiteral(heap, heap[n].kids[2])
      BY <1>5, <3>1
    <3> QED BY <3>2 DEF KidPlace
  <2> QED BY <1>8, <2>1 DEF SlotPlaces
<1>11. ASSUME NEW s \in StaticsRead(op)
       PROVE  \E i \in Loads(heap, n) :
                /\ IsLiteral(heap, heap[n].kids[i]) /\ s = place[heap[n].kids[i]]
                /\ FamilyOf(heap[heap[n].kids[i]].val) = StaticType(op.opcode)
  <2>1. \E i \in 1 .. 2 : s = place[heap[n].kids[i]] /\ IsLiteral(heap, heap[n].kids[i])
    <3>1. \/ s = KidPlace(n, 1) /\ spec \in {ioplm, foplm}
          \/ s = KidPlace(n, 2) /\ spec \in {ioprm, foprm}
      BY <1>6
    <3>2. \/ s = KidPlace(n, 1) /\ IsLiteral(heap, heap[n].kids[1])
          \/ s = KidPlace(n, 2) /\ IsLiteral(heap, heap[n].kids[2])
      BY <1>5, <3>1
    <3> QED BY <3>2 DEF KidPlace
  <2> QED BY <1>5, <1>7, <1>8, <2>1
<1>12. Arithmetic \cap Tops = {}
  BY DEF Tops, Arithmetic, Additive, Multiplicative, Literals
<1> QED BY <1>3, <1>9, <1>10, <1>11, <1>12, OperationKeeps

(* A cast takes an integer, a static or a value of the frame.              *)
LEMMA LoadCastKeeps ==
  ASSUME AllTyped, CodeNow, LoadCast
  PROVE  CodeNext /\ CodeEffect
<1> DEFINE n == Head(unloaded)
           x == heap[n].kids[1]
<1>1. PICK opcode : opcode = IF heap[x].type = "INTEGERLIT" THEN cast_to_float_m ELSE cast_to_float
  OBVIOUS
<1>2. PICK op : op = DulIROP(opcode, RealDest(n), KidPlace(n, 1), 0)
  OBVIOUS
<1>3. /\ Loading({"CAST_TO_FLOAT"}) /\ TakeDest(n) /\ Returns(n, RealDest(n))
      /\ ops' = Append(ops, op) /\ statics' = statics
  BY <1>1, <1>2 DEF LoadCast, write_op
<1>4. /\ n \in 1 .. Len(heap) /\ heap[n].type = "CAST_TO_FLOAT"
      /\ NodeShape(heap, n) /\ Settled(heap, layout, n)
  BY <1>3, LoadLeaves
<1>5. Loads(heap, n) = 1 .. 1 /\ Read(heap, n) = 1 .. 1
  <2>1. Len(heap[n].kids) = 1
    BY <1>4 DEF NodeShape, KidsFit
  <2> QED BY <1>4, <2>1, LoadsAll
<1>6. x \in 1 .. Len(heap) /\ Settled(heap, layout, x) /\ heap[x].node_type = "INT"
  <2>1. x \in 1 .. Len(heap) /\ Settled(heap, layout, x)
    BY <1>4, <1>5, SettledKid
  <2>2. heap[heap[n].kids[1]].node_type = "INT"
    BY <1>4 DEF Settled
  <2> QED BY <2>1, <2>2
<1>7. /\ IsLiteral(heap, x) <=> heap[x].type = "INTEGERLIT"
      /\ IsLiteral(heap, x) => FamilyOf(heap[x].val) = "INT"
  BY <1>6, LiteralFamily DEF IsLiteral, Literals
<1>8. opcode \in {cast_to_float, cast_to_float_m}
      /\ (opcode = cast_to_float <=> ~IsLiteral(heap, x))
  BY <1>1, <1>7 DEF cast_to_float, cast_to_float_m
<1>9. /\ ~Writes(op) /\ op.dest_arg = RealDest(n)
      /\ SlotsRead(op) = IF opcode = cast_to_float THEN {KidPlace(n, 1)} ELSE {}
      /\ StaticsRead(op) = IF opcode = cast_to_float THEN {} ELSE {KidPlace(n, 1)}
      /\ opcode = cast_to_float_m => StaticType(op.opcode) = "INT"
  BY <1>2, <1>8, CastOp
<1>10. Stores(layout, op, RealDest(n), current_stack_offset, current_stack_offset')
  BY <1>3, <1>9, DestStores
<1>11. SlotsRead(op) \subseteq SlotPlaces(heap, place, n)
  BY <1>5, <1>8, <1>9 DEF SlotPlaces, KidPlace
<1>12. ASSUME NEW s \in StaticsRead(op)
       PROVE  /\ IsLiteral(heap, heap[n].kids[1]) /\ s = place[heap[n].kids[1]]
              /\ FamilyOf(heap[heap[n].kids[1]].val) = StaticType(op.opcode)
  BY <1>7, <1>8, <1>9 DEF KidPlace
<1>13. {"CAST_TO_FLOAT"} \cap Tops = {}
  BY DEF Tops, Literals
<1> HIDE DEF x, n
<1>14. 1 \in Loads(heap, n) /\ n = Head(unloaded)
  BY <1>5 DEF n
<1> QED BY <1>3, <1>10, <1>11, <1>12, <1>13, <1>14, OperationKeeps

(* A write takes a value of the type of what is written.                   *)
LEMMA LoadWriteKeeps ==
  ASSUME AllTyped, CodeNow, LoadWrite
  PROVE  CodeNext /\ CodeEffect
<1> DEFINE n == Head(unloaded)
           x == heap[n].kids[1]
<1>1. PICK opcode :
        /\ opcode = CASE heap[x].type = "NUMLIT" -> fwrite_m
                      [] heap[x].type # "NUMLIT" /\ heap[x].node_type = "FLOAT" -> fwrite_
                      [] heap[x].type = "INTEGERLIT" /\ heap[x].node_type # "FLOAT" -> iwrite_m
                      [] OTHER -> iwrite_
        /\ ops' = Append(ops, DulIROP(opcode, KidPlace(n, 1), 0, 0))
  BY Zenon DEF LoadWrite, write_op
<1>2. PICK op : op = DulIROP(opcode, KidPlace(n, 1), 0, 0)
  OBVIOUS
<1>3. /\ Loading({"WRITE"}) /\ Returns(n, -1) /\ ops' = Append(ops, op) /\ statics' = statics
      /\ current_stack_offset' = current_stack_offset
  <2>1. /\ Loading({"WRITE"}) /\ Returns(n, -1) /\ statics' = statics
        /\ current_stack_offset' = current_stack_offset
    BY DEF LoadWrite
  <2> QED BY <1>1, <1>2, <2>1, Zenon
<1>4. /\ n \in 1 .. Len(heap) /\ heap[n].type = "WRITE"
      /\ NodeShape(heap, n) /\ Settled(heap, layout, n)
      /\ SlotsInv(heap, layout, unloaded, place, ops, current_stack_offset)
  BY <1>3, LoadLeaves
<1>5. Loads(heap, n) = 1 .. 1 /\ Read(heap, n) = 1 .. 1
  <2>1. Len(heap[n].kids) = 1
    BY <1>4 DEF NodeShape, KidsFit
  <2> QED BY <1>4, <2>1, LoadsAll
<1>6. x \in 1 .. Len(heap) /\ Settled(heap, layout, x)
  BY <1>4, <1>5, SettledKid
<1>7. heap[x].node_type \in {"INT", "FLOAT"}
  <2> HIDE DEF x
  <2> QED BY <1>6 DEF Settled
<1>8. IsLiteral(heap, x) =>
        /\ FamilyOf(heap[x].val) = heap[x].node_type
        /\ heap[x].type = "INTEGERLIT" <=> heap[x].node_type = "INT"
        /\ heap[x].type = "NUMLIT" <=> heap[x].node_type = "FLOAT"
  BY <1>6, LiteralFamily
<1>9. /\ opcode \in {iwrite_, iwrite_m, fwrite_, fwrite_m}
      /\ opcode \in {iwrite_, fwrite_} <=> ~IsLiteral(heap, x)
      /\ IsLiteral(heap, x) => (opcode = iwrite_m <=> heap[x].node_type = "INT")
  <2>1. IsLiteral(heap, x) <=> heap[x].type = "INTEGERLIT" \/ heap[x].type = "NUMLIT"
    BY DEF IsLiteral, Literals
  <2> HIDE DEF x
  <2> QED BY <1>1, <1>7, <1>8, <2>1 DEF iwrite_, iwrite_m, fwrite_, fwrite_m
<1>10. /\ Writes(op)
       /\ SlotsRead(op) = IF opcode \in {iwrite_, fwrite_} THEN {KidPlace(n, 1)} ELSE {}
       /\ StaticsRead(op) = IF opcode \in {iwrite_, fwrite_} THEN {} ELSE {KidPlace(n, 1)}
       /\ StaticType(op.opcode) = IF opcode = iwrite_m THEN "INT" ELSE "FLOAT"
  BY <1>2, <1>9, WriteOp
<1>11. Stores(layout, op, -1, current_stack_offset, current_stack_offset')
  <2>1. VarBytes(layout) \in Nat
    BY <1>4 DEF SlotsInv
  <2> QED BY <1>3, <1>10, <2>1 DEF Stores
<1>12. SlotsRead(op) \subseteq SlotPlaces(heap, place, n)
  BY <1>5, <1>9, <1>10 DEF SlotPlaces, KidPlace
<1>13. ASSUME NEW s \in StaticsRead(op)
       PROVE  /\ IsLiteral(heap, heap[n].kids[1]) /\ s = place[heap[n].kids[1]]
              /\ FamilyOf(heap[heap[n].kids[1]].val) = StaticType(op.opcode)
  <2>1. IsLiteral(heap, x) /\ s = KidPlace(n, 1)
    BY <1>9, <1>10
  <2>2. FamilyOf(heap[x].val) = StaticType(op.opcode)
    BY <1>7, <1>8, <1>9, <1>10, <2>1
  <2> QED BY <2>1, <2>2 DEF KidPlace
<1>14. {"WRITE"} \cap Tops = {}
  BY DEF Tops, Literals
<1> HIDE DEF x, n
<1>15. 1 \in Loads(heap, n) /\ n = Head(unloaded)
  BY <1>5 DEF n
<1> QED BY <1>3, <1>11, <1>12, <1>13, <1>14, <1>15, OperationKeeps

(* The assignment of a literal adds the static its operation stores; any   *)
(* other has left that to its right side.                                  *)
LEMMA LoadAssignKeeps ==
  ASSUME AllTyped, CodeNow, LoadAssign
  PROVE  CodeNext /\ CodeEffect
<1> DEFINE n     == Head(unloaded)
           right == heap[heap[n].kids[2]]
           rdest == layout_count_offset(NameOf(heap[n].kids[1]))
<1>1. /\ Loading({"ASSIGN"}) /\ Returns(n, -1) /\ current_stack_offset' = current_stack_offset
  BY DEF LoadAssign
<1>2. /\ LeftWith(heap, layout, unloaded, place, place', -1)
      /\ unloaded' = Tail(unloaded) /\ Walking(heap, layout, unloaded', place')
      /\ n \in 1 .. Len(heap) /\ heap[n].type = "ASSIGN"
      /\ NodeShape(heap, n) /\ Settled(heap, layout, n)
      /\ SlotsInv(heap, layout, unloaded, place, ops, current_stack_offset)
      /\ StaticsInv(heap, unloaded, place, ops, statics)
  BY <1>1, LoadLeaves
<1>3. ~IsLiteral(heap, Head(unloaded)) /\ -1 \in Int /\ -1 < VarBytes(layout)
  <2>1. VarBytes(layout) \in Nat
    BY <1>2 DEF SlotsInv
  <2> QED BY <1>2, <2>1 DEF IsLiteral, Literals
<1>4. CASE right.type \notin Literals
  <2>1. ops' = ops /\ statics' = statics
    BY <1>4 DEF LoadAssign
  <2>2. SlotsInv(heap, layout, unloaded', place', ops', current_stack_offset')
    BY <1>1, <1>2, <1>3, <2>1, SlotsQuiet
  <2>3. StaticsInv(heap, unloaded', place', ops', statics')
    BY <1>2, <1>3, <2>1, StaticsQuiet
  <2>4. CodeEffect
    BY <1>2, <1>3, <2>1 DEF CodeEffect, Quietly
  <2> QED BY <1>2, <2>2, <2>3, <2>4 DEF CodeNext, CodeState
<1>5. CASE right.type \in Literals
  <2>1. PICK opcode : opcode = IF right.type = "NUMLIT" THEN fstore ELSE istore
    OBVIOUS
  <2>2. PICK op : op = DulIROP(opcode, rdest, StaticOffset, 0)
    OBVIOUS
  <2>3. ops' = Append(ops, op) /\ statics' = Append(statics, right.val)
    BY <1>5, <2>1, <2>2 DEF LoadAssign, write_op, add_static
  <2>4. /\ ~Writes(op) /\ op.dest_arg = rdest /\ SlotsRead(op) = {}
        /\ StaticsRead(op) = {FieldSize * Len(statics)}
        /\ StaticType(op.opcode) = IF opcode = istore THEN "INT" ELSE "FLOAT"
    <3>1. opcode \in {istore, fstore}
      BY <2>1
    <3> QED BY <2>2, <3>1, StoreOp DEF StaticOffset
  <2>5. FamilyOf(right.val) = StaticType(op.opcode)
    <3>1. 2 \in Read(heap, n)
      <4>1. Len(heap[n].kids) = 2
        BY <1>2 DEF NodeShape, KidsFit
      <4> QED BY <4>1 DEF Read
    <3>2. /\ heap[n].kids[2] \in 1 .. Len(heap) /\ Settled(heap, layout, heap[n].kids[2])
          /\ IsLiteral(heap, heap[n].kids[2])
      BY <1>2, <1>5, <3>1, SettledKid DEF IsLiteral
    <3>3. \A y : Settled(heap, layout, y) => heap[y].node_type \in {"INT", "FLOAT"}
      BY DEF Settled
    <3>4. /\ FamilyOf(right.val) = right.node_type /\ right.node_type \in {"INT", "FLOAT"}
          /\ right.type = "NUMLIT" <=> right.node_type = "FLOAT"
      BY <3>2, <3>3, LiteralFamily
    <3> HIDE DEF right
    <3> QED BY <2>1, <2>4, <3>4 DEF istore, fstore
  <2>6. Stores(layout, op, -1, current_stack_offset, current_stack_offset')
    <3>1. rdest \in Int /\ rdest < VarBytes(layout)
      BY <1>2, TargetOffset
    <3> QED BY <1>1, <1>3, <2>4, <3>1 DEF Stores
  <2>7. SlotsInv(heap, layout, Tail(unloaded), place', Append(ops, op), current_stack_offset')
    <3>1. SlotsRead(op) \subseteq SlotPlaces(heap, place, Head(unloaded))
      BY <2>4
    <3> QED BY <1>2, <1>3, <2>6, <3>1, SlotsOperation
  <2>8. \A s \in StaticsRead(op) : Takes(heap, place, Head(unloaded), statics, right.val, op, s)
    BY <2>4, <2>5 DEF Takes
  <2>9. statics' # statics
    <3>1. IsSeq(statics)
      BY <1>2 DEF StaticsInv
    <3>2. Len(statics) \in Nat /\ Len(statics') = Len(statics) + 1
      BY <2>3, <3>1, Appended
    <3> QED BY <3>2
  <2>10. StaticsInv(heap, Tail(unloaded), place', Append(ops, op), statics')
    <3>1. PICK e : e = right.val
      OBVIOUS
    <3> HIDE DEF right
    <3> QED BY <1>2, <1>3, <2>3, <2>8, <2>9, <3>1, StaticsOperation
  <2>11. CodeEffect
    <3>1. SlotsRead(op) \subseteq SlotPlaces(heap, place, Head(unloaded))
      BY <2>4
    <3>2. Operating(-1)
      BY <2>3, <2>6, <3>1 DEF Operating
    <3>3. heap[Head(unloaded)].type \notin Tops
      BY <1>2 DEF Tops, Literals
    <3> QED BY <1>2, <3>2, <3>3 DEF CodeEffect
  <2> QED BY <1>2, <2>3, <2>7, <2>10, <2>11 DEF CodeNext, CodeState
<1> QED BY <1>4, <1>5

(***************************************************************************)
(* The code generator of the compiler.                                     *)
(***************************************************************************)
Skipping ==
  [n \in DOMAIN heap |->
     IF heap[n].type = "ASSIGN" /\ heap[heap[n].kids[2]].type \in Literals
       THEN <<>> ELSE Visited[n]]

(* The nodes it visits are children of nodes that it visits, too.          *)
LEMMA SkippingVisits ==
  ASSUME Tree(heap, root)
  PROVE  VisitsKids(heap, Skipping, Unloaded(heap))
<1>1. DOMAIN heap = 1 .. Len(heap)
  BY DEF Tree
<1>2. ASSUME NEW n \in 1 .. Len(heap) PROVE VisitsFrom(heap, Skipping, n, Unloaded(heap)[n])
  <2>1. /\ Unloaded(heap)[n] = IF heap[n].type # "ASSIGN" THEN 0
                               ELSE IF IsLiteral(heap, heap[n].kids[2]) THEN 2 ELSE 1
        /\ Skipping[n] = IF heap[n].type = "ASSIGN" /\ IsLiteral(heap, heap[n].kids[2])
                           THEN <<>> ELSE Visited[n]
    BY <1>1 DEF Unloaded, Skipping, IsLiteral
  <2>2. CASE heap[n].type = "ASSIGN" /\ IsLiteral(heap, heap[n].kids[2])
    <3>1. Skipping[n] = <<>> /\ Unloaded(heap)[n] = 2
      BY <2>1, <2>2
    <3>2. Len(heap[n].kids) = 2
      BY <2>2, KidsOfTree DEF NodeShape, KidsFit
    <3>3. <<>> \in Seq(1 .. Len(heap)) /\ Len(<<>>) = 0
      OBVIOUS
    <3> QED BY <3>1, <3>2, <3>3 DEF VisitsFrom
  <2>3. CASE ~(heap[n].type = "ASSIGN" /\ IsLiteral(heap, heap[n].kids[2]))
    <3>1. Skipping[n] = Visited[n]
      BY <2>1, <2>3
    <3>2. /\ Unloaded(heap)[n] \in Nat
          /\ heap[n].type = "ASSIGN" => Unloaded(heap)[n] = 1
          /\ heap[n].type # "ASSIGN" => Unloaded(heap)[n] = 0
      BY <2>1, <2>3
    <3>3. VisitsFrom(heap, Visited, n, Unloaded(heap)[n])
      BY <3>2, VisitedKids
    <3> QED BY <3>1, <3>3 DEF VisitsFrom
  <2> QED BY <2>2, <2>3
<1>3. Skipping \in [1 .. Len(heap) -> Seq(1 .. Len(heap))]
  <2>1. \A n \in 1 .. Len(heap) : Skipping[n] \in Seq(1 .. Len(heap))
    BY <1>2 DEF VisitsFrom
  <2>2. Skipping = [n \in 1 .. Len(heap) |-> Skipping[n]]
    BY <1>1 DEF Skipping
  <2> QED BY <2>1, <2>2
<1> QED BY <1>2, <1>3 DEF VisitsKids, VisitsFrom

(* It starts with every node of its walk settled: the last one that were   *)
(* not would be a statement, or be loaded by a later one.                  *)
LEMMA CodegenStarts ==
  ASSUME AllTyped, CodegenStart
  PROVE  CodeNext
<1>1. PICK s : s = LeaveOrder(Skipping)
  OBVIOUS
<1>2. /\ unloaded' = s /\ place' = <<>> /\ ops' = <<>> /\ statics' = <<>>
      /\ current_stack_offset' = VarBytes(layout)
  BY <1>1 DEF CodegenStart, Skipping, LayoutSize, VarBytes
<1>3. Walked(heap, root, Unloaded(heap), s)
  BY <1>1, SkippingVisits, WalkReads DEF AllTyped
<1>4. /\ s \in Seq(1 .. Len(heap)) /\ Once(s) /\ Len(s) \in Nat
      /\ \A p \in 1 .. Len(s) : \A i \in Loads(heap, s[p]) :
           \E q \in 1 .. p - 1 : s[q] = heap[s[p]].kids[i]
      /\ \A p \in 1 .. Len(s) :
           \/ \E k \in 1 .. Len(root) : root[k] = s[p]
           \/ \E q \in p + 1 .. Len(s) : \E i \in Loads(heap, s[q]) : heap[s[q]].kids[i] = s[p]
  BY <1>3 DEF Walked, Loads
<1>5. \A p \in 1 .. Len(s) : s[p] \in 1 .. Len(heap)
  BY <1>4, ElementOfSeq
<1>6. ASSUME NEW n \in 1 .. Len(heap), NEW i \in Loads(heap, n) PROVE i \in Read(heap, n)
  <2>1. /\ Len(heap[n].kids) \in Nat
        /\ heap[n].type = "ASSIGN" => Len(heap[n].kids) = 2
    BY KidsOfTree DEF AllTyped, NodeShape, KidsFit
  <2>2. i \in 1 .. Len(heap[n].kids) /\ i > Unloaded(heap)[n]
    BY DEF Loads, ReadFrom
  <2>3. heap[n].type = "ASSIGN" => Unloaded(heap)[n] \in {1, 2}
    BY DEF Unloaded
  <2>4. heap[n].type = "ASSIGN" => i = 2
    <3> SUFFICES ASSUME heap[n].type = "ASSIGN" PROVE i = 2
      OBVIOUS
    <3>1. Len(heap[n].kids) = 2 /\ i \in 1 .. 2
      BY <2>1, <2>2
    <3>2. i > 1
      BY <2>2, <2>3, <3>1
    <3> QED BY <3>1, <3>2
  <2> QED BY <2>2, <2>4 DEF Read
<1>7. \A p \in 1 .. Len(s) : Settled(heap, layout, s[p])
  <2> DEFINE T == {p \in 1 .. Len(s) : ~Settled(heap, layout, s[p])}
  <2> SUFFICES ASSUME T # {} PROVE FALSE
    OBVIOUS
  <2>1. PICK p \in T : \A q \in T : q <= p
    <3>1. T \in SUBSET (0 .. Len(s))
      BY <1>4
    <3> QED BY <1>4, <3>1, GreatestNumber
  <2>2. p \in 1 .. Len(s) /\ ~Settled(heap, layout, s[p])
    BY <2>1
  <2>3. CASE \E k \in 1 .. Len(root) : root[k] = s[p]
    <3>1. s[p] \in Range(root)
      <4>1. DOMAIN root = 1 .. Len(root)
        BY DEF AllTyped, Tree
      <4> QED BY <2>3, <4>1 DEF Range
    <3> QED BY <2>2, <3>1, StatementSettled
  <2>4. CASE \E q \in p + 1 .. Len(s) : \E i \in Loads(heap, s[q]) : heap[s[q]].kids[i] = s[p]
    <3>1. PICK q \in p + 1 .. Len(s) : \E i \in Loads(heap, s[q]) : heap[s[q]].kids[i] = s[p]
      BY <2>4
    <3>2. PICK i \in Loads(heap, s[q]) : heap[s[q]].kids[i] = s[p]
      BY <3>1
    <3>3. q \in 1 .. Len(s) /\ ~(q <= p)
      BY <1>4, <2>2
    <3>4. Settled(heap, layout, s[q])
      BY <2>1, <3>3
    <3>5. i \in Read(heap, s[q])
      BY <1>5, <1>6, <3>3
    <3> QED BY <1>5, <2>2, <3>2, <3>3, <3>4, <3>5, SettledKid
  <2> QED BY <1>4, <2>2, <2>3, <2>4
<1>8. DOMAIN (<<>>) = {} /\ Len(<<>>) = 0 /\ <<>> \in Seq({})
  OBVIOUS
<1>9. Walking(heap, layout, s, <<>>)
  <2>1. \A p \in 1 .. Len(s) : Coming(heap, layout, s, <<>>, p)
    BY <1>4, <1>7, <1>8 DEF Coming
  <2> QED BY <1>4, <2>1 DEF Walking
<1>10. SlotsInv(heap, layout, s, <<>>, <<>>, VarBytes(layout))
  <2>1. VarBytes(layout) \in Nat
    <3>1. Len(layout) \in Nat
      BY DEF AllTyped, Types, LayoutTypes
    <3> QED BY <3>1 DEF VarBytes, FieldSize
  <2> QED BY <1>8, <2>1 DEF SlotsInv, IsSeq
<1>11. StaticsInv(heap, s, <<>>, <<>>, <<>>)
  BY <1>8 DEF StaticsInv, IsSeq
<1> QED BY <1>2, <1>9, <1>10, <1>11 DEF CodeNext, CodeState

(* Each of its steps. *)
LEMMA CodegenKeeps ==
  ASSUME AllTyped, CodeNow, CodegenStep
  PROVE  CodeNext /\ CodeEffect
BY LoadArithmeticKeeps, LoadLiteralKeeps, LoadNameKeeps, LoadCastKeeps, LoadWriteKeeps,
   LoadAssignKeeps DEF CodegenStep

(* The phases before it have no code, and those behind it leave it alone.  *)
LEMMA CodeInitial == CompilerInit => CodeInv
BY DEF CompilerInit, CodeInv

(* What runs the code leaves it alone.                                     *)
LEMMA CodeStays ==
  ASSUME CodeInv, phase \in {"codegen", "run", "done"}, phase' \in {"codegen", "run", "done"},
         UNCHANGED <<heap, passVars>>
  PROVE  CodeInv'
BY DEF CodeInv, passVars, codeVars

(* So does a step of nothing.                                              *)
LEMMA CodeStutters ==
  ASSUME CodeInv, UNCHANGED compilerVars
  PROVE  CodeInv'
BY DEF CodeInv, compilerVars, astVars, passVars, codeVars

(* Every step of the compiler keeps the state of the code generator.       *)
LEMMA CodeStep ==
  ASSUME PassInv, CodeInv, CompilerStep
  PROVE  CodeInv'
<1>1. ASSUME phase \notin {"codegen", "run", "done"}, phase' \in {"lex", "parse", "optimize", "types"},
             UNCHANGED <<ops, statics>>
      PROVE  CodeInv'
  BY <1>1 DEF CodeInv
<1>2. CASE ReadText
  BY <1>1, <1>2 DEF ReadText, In, passVars, codeVars
<1>3. CASE HandOver
  BY <1>1, <1>3 DEF HandOver, Then, In, passVars, codeVars
<1>4. CASE Parse
  BY <1>1, <1>4 DEF Parse, In, passVars, codeVars
<1>5. CASE StartOptimizer
  BY <1>1, <1>5 DEF StartOptimizer, Then, In, codeVars
<1>6. CASE Optimize
  BY <1>1, <1>6 DEF Optimize, In, codeVars
<1>7. CASE StartTypes
  BY <1>1, <1>7 DEF StartTypes, Then, In, codeVars
<1>8. CASE InferTypes
  BY <1>1, <1>8 DEF InferTypes, In, codeVars
<1>9. CASE CountPlaces
  BY <1>9 DEF CountPlaces, Then, In, codeVars, CodeInv
<1>10. CASE StartCodegen
  <2>1. /\ phase = "count" /\ phase' = "codegen" /\ fault = "none" /\ CodegenStart
        /\ heap' = heap /\ layout' = layout /\ untyped' = untyped
    BY <1>10 DEF StartCodegen, Then, In, astVars
  <2>2. untyped = <<>>
    BY <2>1 DEF CodeInv
  <2>3. AllTyped
    BY <2>1, <2>2 DEF PassInv, AllTyped
  <2>4. CodeNext
    BY <2>1, <2>3, CodegenStarts
  <2> QED BY <2>1, <2>2, <2>4 DEF CodeInv, CodeNext
<1>11. CASE GenerateCode
  <2>1. /\ phase = "codegen" /\ phase' = "codegen" /\ fault = "none" /\ CodegenStep
        /\ heap' = heap /\ layout' = layout /\ untyped' = untyped
    BY <1>11 DEF GenerateCode, In, CodegenStep
  <2>2. untyped = <<>> /\ CodeNow
    BY <2>1 DEF CodeInv, CodeNow
  <2>3. AllTyped
    BY <2>1, <2>2 DEF PassInv, AllTyped
  <2>4. CodeNext
    BY <2>1, <2>2, <2>3, CodegenKeeps
  <2> QED BY <2>1, <2>2, <2>4 DEF CodeInv, CodeNext
<1>12. CASE PrintCode
  BY <1>12, CodeStays DEF PrintCode, In
<1>13. CASE Run
  BY <1>13, CodeStays DEF Run, In
<1>14. CASE Stop
  BY <1>14, CodeStays DEF Stop, Then, In, astVars
<1> QED BY <1>2, <1>3, <1>4, <1>5, <1>6, <1>7, <1>8, <1>9, <1>10, <1>11, <1>12, <1>13, <1>14
        DEF CompilerStep

(* Wherever the code generator is, it knows where the value of every node  *)
(* it has left lies, and no operation has read what one to come will read. *)
THEOREM CompilerCode == CompilerSpec => []CodeInv
<1>1. PassInv /\ CodeInv /\ [CompilerNext]_compilerVars => CodeInv'
  BY CodeStep, CodeStutters DEF CompilerNext, CompilerDone
<1> QED BY <1>1, CompilerPasses, CodeInitial, PTL DEF CompilerSpec

(* What the statics hold, and where one lies.                              *)
LEMMA CodeHasImmediates == CodeInv => Immediates
<1> SUFFICES ASSUME CodeInv, NEW i \in DOMAIN ops, NEW s \in StaticsRead(ops[i])
             PROVE  /\ s \div FieldSize < Len(statics)
                    /\ FamilyOf(Static(s)) = StaticType(ops[i].opcode)
                    /\ \A j \in 1 .. i - 1 : s \notin StaticsRead(ops[j])
  BY DEF Immediates
<1>1. ops # <<>>
  OBVIOUS
<1>2. StaticsInv(heap, unloaded, place, ops, statics)
  BY <1>1 DEF CodeInv, CodeState
<1>3. i \in 1 .. Len(ops) /\ Len(statics) \in Nat
  BY <1>2 DEF StaticsInv, IsSeq
<1>4. /\ \E val : Holds(statics, s, val) /\ FamilyOf(val) = StaticType(ops[i].opcode)
      /\ Untaken(ops, i, s)
  BY <1>2, <1>3 DEF StaticsInv
<1>5. PICK val : Holds(statics, s, val) /\ FamilyOf(val) = StaticType(ops[i].opcode)
  BY <1>4
<1>6. PICK k \in 1 .. Len(statics) : s = FieldSize * (k - 1) /\ statics[k] = val
  BY <1>5 DEF Holds
<1>7. s \div FieldSize = k - 1
  BY <1>3, <1>6 DEF FieldSize
<1>8. Static(s) = val /\ s \div FieldSize < Len(statics)
  BY <1>3, <1>6, <1>7 DEF Static
<1> QED BY <1>4, <1>5, <1>8 DEF Untaken

(* Every static is the operand of one operation, which finds a value of    *)
(* its own type there, whatever the program.                               *)
THEOREM CompilerImmediates == CompilerSpec => []Immediates
<1> QED BY CompilerCode, CodeHasImmediates, PTL

(* A slot behind the variables has the one writer that CodeInv knows.      *)
LEMMA CodeHasTemporaries == CodeInv => Temporaries
<1> DEFINE writers(t) == {i \in DOMAIN ops : ~Writes(ops[i]) /\ ops[i].dest_arg = t}
<1> SUFFICES ASSUME CodeInv, phase \in {"codegen", "run"}, NEW i \in DOMAIN ops,
                    NEW t \in SlotsRead(ops[i]), t >= LayoutSize
             PROVE  /\ t < current_stack_offset
                    /\ \E w \in 1 .. i - 1 : writers(t) = {w}
                    /\ \A j \in 1 .. i - 1 : t \notin SlotsRead(ops[j])
  BY DEF Temporaries
<1>1. SlotsInv(heap, layout, unloaded, place, ops, current_stack_offset)
  BY DEF CodeInv, CodeState
<1>2. DOMAIN ops = 1 .. Len(ops) /\ Len(ops) \in Nat
  BY <1>1 DEF SlotsInv, IsSeq
<1>3. t < current_stack_offset /\ Result(ops, i, t)
  BY <1>1, <1>2 DEF SlotsInv, VarBytes, LayoutSize
<1>4. PICK w \in 1 .. i - 1 :
           /\ ~Writes(ops[w]) /\ ops[w].dest_arg = t
           /\ \A v \in 1 .. Len(ops) : ~Writes(ops[v]) /\ ops[v].dest_arg = t => v = w
  BY <1>3 DEF Result, WrittenOnce
<1>5. writers(t) = {w}
  <2>1. w \in DOMAIN ops
    BY <1>2
  <2> QED BY <1>2, <1>4, <2>1
<1> QED BY <1>3, <1>5 DEF Result, Unread

(* Every intermediate result has eight bytes of the frame to itself, from  *)
(* the one operation that writes it to the one that reads it.              *)
THEOREM CompilerTemporaries == CompilerSpec => []Temporaries
<1> QED BY CompilerCode, CodeHasTemporaries, PTL
=============================================================================
