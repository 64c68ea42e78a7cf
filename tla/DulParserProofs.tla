-------------------------- MODULE DulParserProofs --------------------------
(***************************************************************************)
(* The parser keeps its types, its call discipline, the shape of its trees *)
(* and one owner for every node, for every set of programs and every       *)
(* program length.                                                         *)
(***************************************************************************)
EXTENDS DulParser, SequenceTheorems, TLAPS

BuiltTypes    == NodeTypes \ {"CAST_TO_FLOAT", "FREED"}
NodeRecord(V) == [type : BuiltTypes, val : V \cup {NoVal},
                  kids : Seq(Nat), node_type : {"NULL"}]
FrameRecord(h) ==
  [at : StatFrames \cup PlusFrames \cup {"mult"},
   left : 0 .. Len(h),
   type : Arithmetic \cup {"WRITE", "ASSIGN"}]

(* Kind, FrameOK and WellFormed over any heap h. *)
KindIn(h, n, types) == n = NULL \/ h[n].type \in types

FrameOK(h, k, f) ==
  /\ f.at \in StatFrames <=> k = 1
  /\ f.at \in PlusFrames <=> k = 2
  /\ f.type \in FrameTypes(f.at)
  /\ KindIn(h, f.left, IF f.at = "mult" THEN Tops ELSE Expressions)

(* ParserTypeOK for lexems that carry the values V, in whatever stream:    *)
(* the compiler hands over what it has read, and no member of Streams.     *)
ParserTypes(V) ==
  /\ heap \in Seq(NodeRecord(V))
  /\ root \in Seq(Nodes)
  /\ fault \in {"none", "null dereference"}
  /\ \A pos \in Nat : LexemAt(pos).val \in V \cup {NoVal}
  /\ currlexem \in Nat
  /\ frames \in Seq(FrameRecord(heap))
  /\ ctl \in [go : {"text", "stat", "plus", "mult", "ret", "end"}, arg : 0 .. Len(heap)]

ParserInv(V) == ParserTypes(V) /\ TreeShape /\ CallStack

(***************************************************************************)
(* Sequences: what Append, Front and Last give.                            *)
(***************************************************************************)

(* Append adds one last element and leaves the others alone.               *)
LEMMA AppendFacts ==
  ASSUME NEW S, NEW s \in Seq(S), NEW e \in S
  PROVE  /\ Append(s, e) \in Seq(S)
         /\ Len(Append(s, e)) = Len(s) + 1
         /\ \A i \in 1 .. Len(s) : Append(s, e)[i] = s[i]
         /\ Append(s, e)[Len(s) + 1] = e
OBVIOUS

(* Front drops the last element and leaves the others alone; Last is it.   *)
LEMMA FrontFacts ==
  ASSUME NEW S, NEW s \in Seq(S), s # <<>>
  PROVE  /\ Len(s) \in Nat \ {0}
         /\ Front(s) \in Seq(S)
         /\ Len(Front(s)) = Len(s) - 1
         /\ \A i \in 1 .. Len(s) - 1 : Front(s)[i] = s[i]
         /\ Last(s) = s[Len(s)]
         /\ Last(s) \in S
<1>1. Len(s) \in Nat \ {0} /\ Len(s) - 1 \in 0 .. Len(s)
  BY EmptySeq
<1>2. /\ SubSeq(s, 1, Len(s) - 1) \in Seq(S)
      /\ Len(SubSeq(s, 1, Len(s) - 1)) = Len(s) - 1
      /\ \A i \in 1 .. Len(s) - 1 : SubSeq(s, 1, Len(s) - 1)[i] = s[i]
  <2>1. \A i \in 1 .. Len(s) - 1 : s[i] \in S
    BY <1>1, ElementOfSeq
  <2> DEFINE m == Len(s) - 1
  <2>2. m \in Nat /\ \A i \in 1 .. m : s[i] \in S
    BY <1>1, <2>1
  <2> HIDE DEF m
  <2>3. /\ SubSeq(s, 1, m) \in Seq(S)
        /\ Len(SubSeq(s, 1, m)) = IF 1 <= m THEN m - 1 + 1 ELSE 0
        /\ \A i \in 1 .. m - 1 + 1 : SubSeq(s, 1, m)[i] = s[1 + i - 1]
    BY <2>2, SubSeqProperties
  <2>4. Len(SubSeq(s, 1, m)) = m /\ \A i \in 1 .. m : SubSeq(s, 1, m)[i] = s[i]
    BY <2>2, <2>3
  <2> QED BY <2>3, <2>4 DEF m
<1>3. s[Len(s)] \in S
  BY <1>1, ElementOfSeq
<1> QED BY <1>1, <1>2, <1>3 DEF Front, Last

(***************************************************************************)
(* Allocation: an old node keeps its fields, so the tree keeps its shape   *)
(* when the new node has it.                                               *)
(***************************************************************************)

(* astnode_new adds a node behind the ones that exist.                     *)
LEMMA AllocateFacts ==
  ASSUME NEW V, ParserTypes(V), NEW node \in NodeRecord(V), Allocate(node)
  PROVE  /\ heap' \in Seq(NodeRecord(V))
         /\ Len(heap) \in Nat
         /\ Len(heap') = Len(heap) + 1
         /\ \A n \in 1 .. Len(heap) : heap'[n] = heap[n]
         /\ heap'[Len(heap) + 1] = node
<1>1. heap \in Seq(NodeRecord(V))
  BY DEF ParserTypes, NodeRecord
<1> QED BY <1>1, AppendFacts DEF Allocate

(* A node whose children exist and have the right kinds keeps the tree     *)
(* well formed.                                                            *)
LEMMA AllocateShape ==
  ASSUME NEW V, ParserTypes(V), TreeShape, NEW node \in NodeRecord(V), Allocate(node),
         \A i \in DOMAIN node.kids : node.kids[i] \in 1 .. Len(heap),
         node.type \in Tops \cup {"IFSTAT"} => node.kids = <<>>,
         node.type = "WRITE" =>
           Len(node.kids) = 1 /\ heap[node.kids[1]].type \in Expressions,
         node.type \in Arithmetic \cup {"ASSIGN"} =>
           /\ Len(node.kids) = 2
           /\ heap[node.kids[1]].type \in Expressions
           /\ heap[node.kids[2]].type \in Expressions,
         node.type \in Multiplicative => heap[node.kids[1]].type \in Tops,
         node.type \in Arithmetic => heap[node.kids[2]].type \in Tops \cup Multiplicative
  PROVE  \A n \in Nodes' : WellFormed(n)'
<1>1. /\ heap' \in Seq(NodeRecord(V))
      /\ Len(heap) \in Nat
      /\ Len(heap') = Len(heap) + 1
      /\ \A n \in 1 .. Len(heap) : heap'[n] = heap[n]
      /\ heap'[Len(heap) + 1] = node
  BY AllocateFacts
<1>2. heap \in Seq(NodeRecord(V)) /\ node.kids \in Seq(Nat)
  BY DEF ParserTypes, NodeRecord
<1> SUFFICES ASSUME NEW n \in 1 .. Len(heap) + 1
             PROVE  WellFormed(n)'
  BY <1>1 DEF Nodes
<1>3. CASE n \in 1 .. Len(heap)
  <2>1. WellFormed(n) /\ heap'[n] = heap[n]
    BY <1>1, <1>3 DEF TreeShape, Nodes
  <2>2. heap[n] \in NodeRecord(V)
    BY <1>2, <1>3
  <2>4. heap[n].kids \in Seq(Nat)
    BY <2>2 DEF NodeRecord
  <2>3. \A i \in DOMAIN heap[n].kids : heap'[heap[n].kids[i]] = heap[heap[n].kids[i]]
    BY <1>1, <1>3, <2>1 DEF WellFormed
  <2> QED BY <2>1, <2>3, <2>4, <1>3, SMTT(30)
    DEF WellFormed, Multiplicative, Arithmetic, Additive
<1>4. CASE n = Len(heap) + 1
  <2>1. \A i \in DOMAIN node.kids : heap'[node.kids[i]] = heap[node.kids[i]]
    BY <1>1
  <2> QED BY <1>1, <1>2, <1>4, <2>1, SMTT(30)
        DEF WellFormed, Multiplicative, Arithmetic, Additive
<1> QED BY <1>3, <1>4, <1>1
(* Frames and statements keep their kinds while the heap only grows. *)
HeapGrows(V) ==
  /\ heap' \in Seq(NodeRecord(V))
  /\ Len(heap) \in Nat /\ Len(heap') \in Nat /\ Len(heap') >= Len(heap)
  /\ \A n \in 1 .. Len(heap) : heap'[n] = heap[n]

(* Every step leaves the nodes alone that exist.                           *)
LEMMA HeapGrowsFacts ==
  ASSUME NEW V, ParserTypes(V)
  PROVE  /\ UNCHANGED heap => HeapGrows(V)
         /\ \A node \in NodeRecord(V) : Allocate(node) => HeapGrows(V)
<1>1. heap \in Seq(NodeRecord(V))
  BY DEF ParserTypes, NodeRecord
<1>2. Len(heap) \in Nat
  BY <1>1
<1> QED BY <1>1, <1>2, AllocateFacts DEF HeapGrows

(* The suspended calls keep their kinds when the heap grows.               *)
LEMMA FramesKeep ==
  ASSUME NEW V, ParserTypes(V), CallStack, HeapGrows(V)
  PROVE  /\ frames \in Seq(FrameRecord(heap'))
         /\ \A k \in 1 .. Len(frames) : FrameOK(heap', k, frames[k])
<1>1. frames \in Seq(FrameRecord(heap))
  BY DEF ParserTypes, FrameRecord, NodesOrNull, NULL
<1>2. ASSUME NEW k \in 1 .. Len(frames)
      PROVE  frames[k] \in FrameRecord(heap') /\ FrameOK(heap', k, frames[k])
  <2>1. frames[k] \in FrameRecord(heap)
    BY <1>1, <1>2, ElementOfSeq
  <2>2. FrameOK(heap, k, frames[k])
    BY <1>1, <1>2 DEF CallStack, FrameOK, Kind, KindIn
  <2> QED BY <2>1, <2>2 DEF FrameRecord, FrameOK, KindIn, HeapGrows, NULL
<1> QED BY <1>1, <1>2, SeqDef

(***************************************************************************)
(* What a step that pushes or pops frames has to establish.                *)
(***************************************************************************)
StackInv(h, fs, c, l, pos) ==
  /\ fs \in Seq(FrameRecord(h))
  /\ c \in [go : {"text", "stat", "plus", "mult", "ret", "end"}, arg : 0 .. Len(h)]
  /\ pos \in Nat
  /\ \A k \in 1 .. Len(fs) : FrameOK(h, k, fs[k])
  /\ c.go \in {"text", "stat", "end"} => fs = <<>>
  /\ c.go = "plus" => Len(fs) = 1
  /\ c.go = "mult" => Len(fs) >= 2
  /\ c.go = "ret"  =>
       /\ Len(fs) = 0 => KindIn(h, c.arg, Expressions \cup {"WRITE", "ASSIGN"})
       /\ Len(fs) = 1 => KindIn(h, c.arg, Expressions)
       /\ Len(fs) > 1 => KindIn(h, c.arg, Tops \cup Multiplicative)
       /\ Len(fs) > 1 /\ c.arg # NULL => ~IsSpecial(l, MultiplicativeOps)

(* CallStack, restated on explicit arguments.                              *)
LEMMA CallStackIsStackInv ==
  ASSUME NEW V, ParserTypes(V), CallStack
  PROVE  StackInv(heap, frames, ctl, Current, currlexem)
<1>1. frames \in Seq(FrameRecord(heap))
  BY DEF ParserTypes, FrameRecord, NodesOrNull, NULL
<1>2. ctl \in [go : {"text", "stat", "plus", "mult", "ret", "end"}, arg : 0 .. Len(heap)]
  BY DEF ParserTypes, NodesOrNull, NULL
<1>3. currlexem \in Nat
  BY DEF ParserTypes
<1>4. \A k \in 1 .. Len(frames) : FrameOK(heap, k, frames[k])
  BY <1>1 DEF CallStack, FrameOK, Kind, KindIn
<1> QED BY <1>1, <1>2, <1>3, <1>4 DEF StackInv, CallStack, Kind, KindIn

(* The restated invariant after a step gives CallStack after it.           *)
LEMMA StackInvIsCallStackNext ==
  ASSUME StackInv(heap', frames', ctl', Current', currlexem')
  PROVE  CallStack'
BY DEF StackInv, CallStack, FrameOK, Kind, KindIn

(* No node is lost while the heap grows.                                   *)
LEMMA NodesGrow ==
  ASSUME NEW V, HeapGrows(V)
  PROVE  Nodes \subseteq Nodes'
BY DEF HeapGrows, Nodes

(* With one call suspended the stack does not depend on the iterator.      *)
LEMMA StackInvMoves ==
  ASSUME NEW h, NEW fs, NEW c, NEW l, NEW pos, NEW next \in Nat, NEW after,
         StackInv(h, fs, c, l, pos), Len(fs) = 1
  PROVE  StackInv(h, fs, c, after, next)
BY DEF StackInv

(* The loop test of astparse_plus or astparse_mult keeps the stack in      *)
(* order, whether it goes round or returns.                                *)
LEMMA LoopTestStack ==
  ASSUME NEW V, NEW level \in {"mult", "plus"}, NEW base, NEW left, NEW pos \in Nat,
         heap' \in Seq(NodeRecord(V)), lexems' = lexems,
         base \in Seq(FrameRecord(heap')),
         \A k \in 1 .. Len(base) : FrameOK(heap', k, base[k]),
         left \in 0 .. Len(heap'),
         level = "plus" => Len(base) = 1 /\ KindIn(heap', left, Expressions),
         level = "mult" => Len(base) >= 2 /\ KindIn(heap', left, Tops \cup Multiplicative),
         level = "mult" /\ IsSpecial(LexemAt(pos), MultiplicativeOps) =>
           KindIn(heap', left, Tops),
         LoopTest(level, base, left, pos)
  PROVE  StackInv(heap', frames', ctl', Current', currlexem')
<1>1. Len(base) \in Nat
  BY LenProperties
<1>2. CASE IsSpecial(LexemAt(pos), OpsOf(level))
  <2> DEFINE frame == Frame(level, left, NodeTypeOf(LexemAt(pos).val[2]))
  <2>1. frames' = Append(base, frame) /\ currlexem' = pos + 1 /\ ctl' = Enter("mult")
    BY <1>2 DEF LoopTest
  <2>2. NodeTypeOf(LexemAt(pos).val[2])
          \in IF level = "mult" THEN Multiplicative ELSE Additive
    BY <1>2 DEF IsSpecial, OpsOf, NodeTypeOf, MultiplicativeOps, AdditiveOps,
                Multiplicative, Additive
  <2>3. frame \in FrameRecord(heap')
    BY <2>2 DEF Frame, FrameRecord, PlusFrames, Arithmetic
  <2>4. FrameOK(heap', Len(base) + 1, frame)
    <3>1. CASE level = "mult"
      BY <1>1, <1>2, <2>2, <3>1 DEF FrameOK, Frame, FrameTypes, StatFrames,
                                    PlusFrames, KindIn, OpsOf
    <3>2. CASE level = "plus"
      <4>1. frame.at = "plus" /\ frame.left = left /\ frame.type \in Additive
        BY <2>2, <3>2 DEF Frame
      <4> HIDE DEF frame
      <4>2. Len(base) = 1
        BY <3>2, Zenon
      <4>3. KindIn(heap', left, Expressions)
        BY <3>2
      <4> QED BY <4>1, <4>2, <4>3 DEF FrameOK, FrameTypes, StatFrames, PlusFrames
    <3> QED BY <3>1, <3>2
  <2> HIDE DEF frame
  <2>5. /\ frames' \in Seq(FrameRecord(heap'))
        /\ Len(frames') = Len(base) + 1
        /\ \A k \in 1 .. Len(base) : frames'[k] = base[k]
        /\ frames'[Len(base) + 1] = frame
    BY <2>1, <2>3, AppendFacts
  <2>6. \A k \in 1 .. Len(frames') : FrameOK(heap', k, frames'[k])
    BY <1>1, <2>4, <2>5, SMTT(30)
  <2> QED BY <1>1, <2>1, <2>5, <2>6 DEF StackInv, Enter, NULL
<1>3. CASE ~IsSpecial(LexemAt(pos), OpsOf(level))
  <2>1. frames' = base /\ currlexem' = pos /\ ctl' = Return(left)
    BY <1>3 DEF LoopTest
  <2>2. Current' = LexemAt(pos)
    BY <2>1 DEF Current, LexemAt
  <2> QED BY <1>1, <1>3, <2>1, <2>2, SMTT(30) DEF StackInv, Return, OpsOf
<1> QED BY <1>2, <1>3

(* A call that fits its depth may be pushed.                               *)
LEMMA PushFrame ==
  ASSUME NEW h, NEW base \in Seq(FrameRecord(h)),
         \A k \in 1 .. Len(base) : FrameOK(h, k, base[k]),
         NEW f \in FrameRecord(h), FrameOK(h, Len(base) + 1, f)
  PROVE  /\ Append(base, f) \in Seq(FrameRecord(h))
         /\ Len(Append(base, f)) = Len(base) + 1
         /\ \A k \in 1 .. Len(base) + 1 : FrameOK(h, k, Append(base, f)[k])
<1>1. /\ Append(base, f) \in Seq(FrameRecord(h))
      /\ Len(Append(base, f)) = Len(base) + 1
      /\ \A k \in 1 .. Len(base) : Append(base, f)[k] = base[k]
      /\ Append(base, f)[Len(base) + 1] = f
  BY AppendFacts
<1>2. Len(base) \in Nat
  BY LenProperties
<1> QED BY <1>1, <1>2

(* A return leaves a stack in order.                                       *)
LEMMA PopFrame ==
  ASSUME NEW h, NEW fs \in Seq(FrameRecord(h)), fs # <<>>,
         \A k \in 1 .. Len(fs) : FrameOK(h, k, fs[k])
  PROVE  /\ Len(fs) \in Nat \ {0}
         /\ Front(fs) \in Seq(FrameRecord(h))
         /\ Len(Front(fs)) = Len(fs) - 1
         /\ \A k \in 1 .. Len(fs) - 1 : FrameOK(h, k, Front(fs)[k])
         /\ Last(fs) \in FrameRecord(h)
         /\ FrameOK(h, Len(fs), Last(fs))
<1>1. /\ Len(fs) \in Nat \ {0}
      /\ Front(fs) \in Seq(FrameRecord(h))
      /\ Len(Front(fs)) = Len(fs) - 1
      /\ \A k \in 1 .. Len(fs) - 1 : Front(fs)[k] = fs[k]
      /\ Last(fs) = fs[Len(fs)]
      /\ Last(fs) \in FrameRecord(h)
  BY FrontFacts
<1> QED BY <1>1

(* A step that keeps the statements keeps the invariant when the heap only *)
(* grows by well-formed nodes and the stack invariant holds afterwards.    *)
LEMMA InvFromParts ==
  ASSUME NEW V, ParserInv(V), HeapGrows(V), \A n \in Nodes' : WellFormed(n)',
         root' = root, fault' \in {"none", "null dereference"}, lexems' = lexems,
         StackInv(heap', frames', ctl', Current', currlexem')
  PROVE  ParserInv(V)'
<1>1. /\ root' \in Seq(Nodes')
      /\ \A i \in DOMAIN root' :
           (heap[root[i]].type)' \in Expressions \cup {"WRITE", "ASSIGN"}
  <2>1. root \in Seq(Nodes)
    BY DEF ParserInv, ParserTypes
  <2>4. Nodes \subseteq Nodes'
    BY NodesGrow
  <2>2. root \in Seq(Nodes')
    BY <2>1, <2>4, SeqMonotonic
  <2>3. ASSUME NEW i \in DOMAIN root
        PROVE  heap'[root[i]] = heap[root[i]]
    <3>1. root[i] \in Nodes
      BY <2>1, ElementOfSeq, LenProperties
    <3> QED BY <3>1 DEF HeapGrows, Nodes
  <2> QED BY <2>2, <2>3 DEF ParserInv, TreeShape
<1>2. TreeShape'
  BY <1>1 DEF TreeShape
<1>3. CallStack'
  BY StackInvIsCallStackNext
<1>4. ParserTypes(V)'
  <2>1. (\A pos \in Nat : LexemAt(pos).val \in V \cup {NoVal})'
    BY DEF ParserInv, ParserTypes, LexemAt
  <2> QED BY <1>1, <2>1 DEF ParserTypes, HeapGrows, StackInv
<1> QED BY <1>2, <1>3, <1>4 DEF ParserInv
(***************************************************************************)
(* The state a step starts from, as the steps use it.                      *)
(***************************************************************************)

(* A step that allocates nothing keeps the tree well formed.               *)
LEMMA HeapSame ==
  ASSUME NEW V, ParserInv(V), UNCHANGED heap
  PROVE  HeapGrows(V) /\ \A n \in Nodes' : WellFormed(n)'
<1>1. HeapGrows(V)
  BY HeapGrowsFacts DEF ParserInv
<1>2. \A n \in Nodes : WellFormed(n)
  BY DEF ParserInv, TreeShape
<1> QED BY <1>1, <1>2 DEF WellFormed, Nodes

(* What ParserInv says of the stack, against the heap before and after a   *)
(* step.                                                                   *)
LEMMA Before ==
  ASSUME NEW V, ParserInv(V), HeapGrows(V)
  PROVE  /\ frames \in Seq(FrameRecord(heap'))
         /\ \A k \in 1 .. Len(frames) : FrameOK(heap', k, frames[k])
         /\ StackInv(heap, frames, ctl, Current, currlexem)
         /\ ctl.arg \in 0 .. Len(heap) /\ ctl.arg \in 0 .. Len(heap')
         /\ currlexem \in Nat /\ Len(frames) \in Nat
         /\ \A n \in 1 .. Len(heap) : heap'[n] = heap[n]
         /\ heap' \in Seq(NodeRecord(V))
<1>1. StackInv(heap, frames, ctl, Current, currlexem)
  BY CallStackIsStackInv DEF ParserInv
<1>2. /\ frames \in Seq(FrameRecord(heap'))
      /\ \A k \in 1 .. Len(frames) : FrameOK(heap', k, frames[k])
  BY FramesKeep DEF ParserInv
<1>3. Len(frames) \in Nat
  BY <1>2, LenProperties
<1> QED BY <1>1, <1>2, <1>3 DEF StackInv, HeapGrows

(* The node that is returned exists, or is NULL.                           *)
LEMMA ArgFacts ==
  ASSUME NEW V, ParserInv(V)
  PROVE  /\ Len(heap) \in Nat
         /\ ctl.arg # NULL => ctl.arg \in 1 .. Len(heap)
         /\ ctl.arg \in 0 .. Len(heap)
<1>1. Len(heap) \in Nat
  BY LenProperties DEF ParserInv, ParserTypes
<1>2. ctl.arg \in 0 .. Len(heap)
  BY DEF ParserInv, ParserTypes, NodesOrNull, NULL
<1> QED BY <1>1, <1>2 DEF NULL

(* The frame a return goes to: only its level of the stack can hold it.    *)
LEMMA TopFrame ==
  ASSUME NEW V, ParserInv(V), HeapGrows(V), NEW S, Returning(S)
  PROVE  /\ Len(frames) \in Nat \ {0}
         /\ Top \in FrameRecord(heap') /\ Top.left \in 0 .. Len(heap)
         /\ FrameOK(heap', Len(frames), Top) /\ FrameOK(heap, Len(frames), Top)
         /\ Top.at \in S
         /\ Front(frames) \in Seq(FrameRecord(heap'))
         /\ Len(Front(frames)) = Len(frames) - 1
         /\ \A k \in 1 .. Len(frames) - 1 : FrameOK(heap', k, Front(frames)[k])
<1>1. /\ frames \in Seq(FrameRecord(heap'))
      /\ \A k \in 1 .. Len(frames) : FrameOK(heap', k, frames[k])
      /\ StackInv(heap, frames, ctl, Current, currlexem)
  BY Before
<1>2. frames # <<>> /\ Top.at \in S
  BY DEF Returning
<1>3. /\ Len(frames) \in Nat \ {0}
      /\ Last(frames) \in FrameRecord(heap')
      /\ FrameOK(heap', Len(frames), Last(frames))
      /\ Front(frames) \in Seq(FrameRecord(heap'))
      /\ Len(Front(frames)) = Len(frames) - 1
      /\ \A k \in 1 .. Len(frames) - 1 : FrameOK(heap', k, Front(frames)[k])
  BY <1>1, <1>2, PopFrame
<1>4. Last(frames) \in FrameRecord(heap) /\ FrameOK(heap, Len(frames), Last(frames))
  BY <1>1, <1>2, PopFrame DEF StackInv
<1>5. Last(frames).left \in 0 .. Len(heap)
  BY <1>4 DEF FrameRecord
<1> QED BY <1>2, <1>3, <1>4, <1>5 DEF Top

(* The same, against the heap before the step.                             *)
LEMMA TopFrameNow ==
  ASSUME NEW V, ParserInv(V), NEW S, Returning(S)
  PROVE  /\ Len(frames) \in Nat \ {0}
         /\ Top.left \in 0 .. Len(heap)
         /\ FrameOK(heap, Len(frames), Top)
         /\ Top.at \in S
<1>1. StackInv(heap, frames, ctl, Current, currlexem)
  BY CallStackIsStackInv DEF ParserInv
<1>2. frames # <<>> /\ Top.at \in S
  BY DEF Returning
<1>3. /\ Len(frames) \in Nat \ {0}
      /\ Last(frames) \in FrameRecord(heap)
      /\ FrameOK(heap, Len(frames), Last(frames))
  BY <1>1, <1>2, PopFrame DEF StackInv
<1> QED BY <1>2, <1>3 DEF Top, FrameRecord

(***************************************************************************)
(* The steps that allocate nothing.                                        *)
(***************************************************************************)

(* The step NextStatement keeps the invariant.                             *)
LEMMA NextStatementInv ==
  ASSUME NEW V, ParserInv(V), NextStatement
  PROVE  ParserInv(V)'
<1>1. HeapGrows(V) /\ (\A n \in Nodes' : WellFormed(n)')
  BY HeapSame DEF NextStatement
<1>2. frames = <<>> /\ currlexem \in Nat /\ Len(heap) \in Nat
  BY <1>1, Before DEF NextStatement, Running, ParserInv, CallStack, HeapGrows
<1>3. StackInv(heap', frames', ctl', Current', currlexem')
  BY <1>2 DEF NextStatement, StackInv, Enter, NULL
<1>4. fault' \in {"none", "null dereference"}
  BY DEF NextStatement, ParserInv, ParserTypes
<1> QED BY <1>1, <1>3, <1>4, InvFromParts DEF NextStatement

(* The step EnterWrite keeps the invariant.                                *)
LEMMA EnterWriteInv ==
  ASSUME NEW V, ParserInv(V), EnterWrite
  PROVE  ParserInv(V)'
<1>1. HeapGrows(V) /\ (\A n \in Nodes' : WellFormed(n)')
  BY HeapSame DEF EnterWrite
<1>2. frames = <<>> /\ currlexem \in Nat /\ Len(heap) \in Nat
  BY <1>1, Before DEF EnterWrite, Running, ParserInv, CallStack, HeapGrows
<1> DEFINE frame == Frame("write", NULL, "WRITE")
<1>3. frame \in FrameRecord(heap') /\ FrameOK(heap', 1, frame)
  BY <1>1 DEF Frame, FrameRecord, FrameOK, FrameTypes, StatFrames, PlusFrames,
              KindIn, NULL, HeapGrows
<1>4. frames' = Append(<<>>, frame) /\ ctl' = Enter("plus") /\ currlexem' = currlexem + 1
  BY <1>2 DEF EnterWrite
<1> HIDE DEF frame
<1>5. /\ frames' \in Seq(FrameRecord(heap'))
      /\ Len(frames') = 1
      /\ \A k \in 1 .. 1 : FrameOK(heap', k, frames'[k])
  BY <1>3, <1>4
<1>6. StackInv(heap', frames', ctl', Current', currlexem')
  BY <1>1, <1>2, <1>4, <1>5 DEF StackInv, Enter, NULL, HeapGrows
<1>7. fault' \in {"none", "null dereference"}
  BY DEF EnterWrite, ParserInv, ParserTypes
<1> QED BY <1>1, <1>6, <1>7, InvFromParts DEF EnterWrite

(* The step EnterPlus keeps the invariant.                                 *)
LEMMA EnterPlusInv ==
  ASSUME NEW V, ParserInv(V), EnterPlus
  PROVE  ParserInv(V)'
<1>1. HeapGrows(V) /\ (\A n \in Nodes' : WellFormed(n)')
  BY HeapSame DEF EnterPlus
<1>2. /\ frames \in Seq(FrameRecord(heap'))
      /\ \A k \in 1 .. Len(frames) : FrameOK(heap', k, frames[k])
      /\ currlexem \in Nat
  BY <1>1, Before
<1>3. Len(frames) = 1
  BY DEF EnterPlus, Running, ParserInv, CallStack
<1> DEFINE frame == Frame("plus0", NULL, "PLUS")
<1>4. frame \in FrameRecord(heap') /\ FrameOK(heap', 2, frame)
  BY <1>1 DEF Frame, FrameRecord, FrameOK, FrameTypes, StatFrames, PlusFrames,
              KindIn, NULL, HeapGrows, Arithmetic, Additive
<1>5. frames' = Append(frames, frame) /\ ctl' = Enter("mult") /\ currlexem' = currlexem
  BY DEF EnterPlus
<1> HIDE DEF frame
<1>6. /\ frames' \in Seq(FrameRecord(heap'))
      /\ Len(frames') = 2
      /\ \A k \in 1 .. 2 : FrameOK(heap', k, frames'[k])
  BY <1>2, <1>3, <1>4, <1>5, PushFrame
<1>7. StackInv(heap', frames', ctl', Current', currlexem')
  BY <1>1, <1>2, <1>5, <1>6 DEF StackInv, Enter, NULL, HeapGrows
<1>8. fault' \in {"none", "null dereference"}
  BY DEF EnterPlus, ParserInv, ParserTypes
<1> QED BY <1>1, <1>7, <1>8, InvFromParts DEF EnterPlus

(* The step FirstOperand keeps the invariant.                              *)
LEMMA FirstOperandInv ==
  ASSUME NEW V, ParserInv(V), FirstOperand
  PROVE  ParserInv(V)'
<1>1. HeapGrows(V) /\ (\A n \in Nodes' : WellFormed(n)') /\ heap' = heap
  BY HeapSame DEF FirstOperand
<1>2. Returning({"plus0"})
  BY DEF FirstOperand
<1>3. /\ Len(frames) \in Nat \ {0}
      /\ FrameOK(heap', Len(frames), Top) /\ Top.at \in {"plus0"}
      /\ Front(frames) \in Seq(FrameRecord(heap'))
      /\ Len(Front(frames)) = Len(frames) - 1
      /\ \A k \in 1 .. Len(frames) - 1 : FrameOK(heap', k, Front(frames)[k])
  BY <1>1, <1>2, TopFrame
<1>4. Len(frames) = 2
  BY <1>3 DEF FrameOK, PlusFrames
<1>5. /\ ctl.arg \in 0 .. Len(heap')
      /\ currlexem \in Nat
      /\ heap' \in Seq(NodeRecord(V))
      /\ StackInv(heap, frames, ctl, Current, currlexem)
  BY <1>1, Before
<1>6. KindIn(heap', ctl.arg, Expressions)
  BY <1>1, <1>2, <1>4, <1>5
     DEF StackInv, KindIn, Returning, Running, Expressions, Arithmetic
<1>7. PICK base, left, pos :
        base = Front(frames) /\ left = ctl.arg /\ pos = currlexem
  OBVIOUS
<1>8. LoopTest("plus", base, left, pos) /\ lexems' = lexems
  BY <1>7 DEF FirstOperand
<1>9. StackInv(heap', frames', ctl', Current', currlexem')
  BY <1>3, <1>4, <1>5, <1>6, <1>7, <1>8, LoopTestStack
<1>10. fault' \in {"none", "null dereference"}
  BY DEF FirstOperand, ParserInv, ParserTypes
<1> QED BY <1>1, <1>9, <1>10, InvFromParts DEF FirstOperand

(* The step FinishExpression keeps the invariant.                          *)
LEMMA FinishExpressionInv ==
  ASSUME NEW V, ParserInv(V), FinishExpression
  PROVE  ParserInv(V)'
<1>1. HeapGrows(V) /\ (\A n \in Nodes' : WellFormed(n)') /\ heap' = heap
  BY HeapSame DEF FinishExpression
<1>2. Returning({"expr"})
  BY DEF FinishExpression
<1>3. /\ Len(frames) \in Nat \ {0}
      /\ FrameOK(heap', Len(frames), Top) /\ Top.at \in {"expr"}
      /\ Front(frames) \in Seq(FrameRecord(heap'))
      /\ Len(Front(frames)) = Len(frames) - 1
      /\ \A k \in 1 .. Len(frames) - 1 : FrameOK(heap', k, Front(frames)[k])
  BY <1>1, <1>2, TopFrame
<1>4. Len(frames) = 1
  BY <1>3 DEF FrameOK, StatFrames
<1>5. /\ ctl.arg \in 0 .. Len(heap')
      /\ currlexem \in Nat
      /\ Len(heap') \in Nat
      /\ StackInv(heap, frames, ctl, Current, currlexem)
  BY <1>1, Before DEF HeapGrows
<1>6. KindIn(heap', ctl.arg, Expressions)
  BY <1>1, <1>2, <1>4, <1>5 DEF StackInv, Returning, Running
<1>7. StackInv(heap', frames', ctl', Current', currlexem')
  <2>1. CASE IsSpecial(Current, {"assign"})
    <3> DEFINE frame == Frame("assign", ctl.arg, "ASSIGN")
    <3>1. frame \in FrameRecord(heap') /\ FrameOK(heap', 1, frame)
      BY <1>5, <1>6 DEF Frame, FrameRecord, FrameOK, FrameTypes, StatFrames, PlusFrames
    <3>2. /\ frames' = Append(Front(frames), frame)
          /\ ctl' = Enter("plus")
          /\ currlexem' = currlexem + 1
      BY <2>1 DEF FinishExpression, IsSpecial
    <3> HIDE DEF frame
    <3>3. /\ frames' \in Seq(FrameRecord(heap'))
          /\ Len(frames') = 1
          /\ \A k \in 1 .. 1 : FrameOK(heap', k, frames'[k])
      BY <1>3, <1>4, <3>1, <3>2, PushFrame
    <3> QED BY <1>5, <3>2, <3>3 DEF StackInv, Enter, NULL
  <2>2. CASE ~IsSpecial(Current, {"assign"})
    <3>1. /\ frames' = Front(frames)
          /\ currlexem' \in Nat
          /\ ctl' = Return(ctl.arg) \/ ctl' = Return(NULL)
      BY <1>5, <2>2 DEF FinishExpression
    <3>2. ctl'.go = "ret" /\ ctl'.arg \in 0 .. Len(heap')
          /\ KindIn(heap', ctl'.arg, Expressions)
      BY <1>5, <1>6, <3>1 DEF Return, KindIn, NULL
    <3>3. ctl' \in [go : {"ret"}, arg : 0 .. Len(heap')]
      BY <1>5, <3>1 DEF Return, NULL
    <3> QED BY <1>3, <1>4, <3>1, <3>2, <3>3 DEF StackInv, KindIn
  <2> QED BY <2>1, <2>2
<1>8. fault' \in {"none", "null dereference"}
  BY DEF FinishExpression, ParserInv, ParserTypes
<1> QED BY <1>1, <1>7, <1>8, InvFromParts DEF FinishExpression

(* The step AddStatement keeps the invariant.                              *)
LEMMA AddStatementInv ==
  ASSUME NEW V, ParserInv(V), AddStatement
  PROVE  ParserInv(V)'
<1>1. HeapGrows(V) /\ (\A n \in Nodes' : WellFormed(n)') /\ heap' = heap
  BY HeapSame DEF AddStatement
<1>2. /\ ctl.arg \in 0 .. Len(heap')
      /\ currlexem \in Nat /\ Len(heap) \in Nat
      /\ StackInv(heap, frames, ctl, Current, currlexem)
  BY <1>1, Before DEF HeapGrows
<1>3. /\ ctl.go = "ret" /\ frames = <<>>
      /\ KindIn(heap, ctl.arg, Expressions \cup {"WRITE", "ASSIGN"})
  BY <1>2 DEF AddStatement, Running, StackInv
<1>4. CASE ctl.arg = NULL
  <2>1. fault' = "null dereference" /\ UNCHANGED <<root, ctl, frames, lexems, currlexem>>
    BY <1>4 DEF AddStatement
  <2>2. Current' = Current
    BY <2>1 DEF Current, LexemAt
  <2>3. StackInv(heap', frames', ctl', Current', currlexem')
    BY <1>1, <1>2, <2>1, <2>2
  <2> QED BY <1>1, <2>1, <2>3, InvFromParts
<1>5. CASE ctl.arg # NULL
  <2>1. /\ root' = Append(root, ctl.arg) /\ ctl' = Enter("text")
        /\ UNCHANGED <<heap, fault, frames, lexems, currlexem>>
    BY <1>5 DEF AddStatement
  <2>2. ctl.arg \in Nodes /\ heap[ctl.arg].type \in Expressions \cup {"WRITE", "ASSIGN"}
    BY <1>1, <1>2, <1>3, <1>5 DEF KindIn, Nodes, NULL
  <2>3. root \in Seq(Nodes)
    BY DEF ParserInv, ParserTypes
  <2>4. /\ root' \in Seq(Nodes)
        /\ Len(root') = Len(root) + 1
        /\ \A i \in 1 .. Len(root) : root'[i] = root[i]
        /\ root'[Len(root) + 1] = ctl.arg
    BY <2>1, <2>2, <2>3, AppendFacts
  <2>5. \A i \in 1 .. Len(root') :
          heap[root'[i]].type \in Expressions \cup {"WRITE", "ASSIGN"}
    BY <2>2, <2>3, <2>4 DEF ParserInv, TreeShape
  <2>6. TreeShape'
    BY <1>1, <2>1, <2>4, <2>5 DEF TreeShape
  <2>7. ParserTypes(V)'
    <3>1. ParserTypes(V) /\ Nodes' = Nodes
      BY <2>1 DEF ParserInv, Nodes
    <3>2. ctl' \in [go : {"text", "stat", "plus", "mult", "ret", "end"}, arg : 0 .. Len(heap)]
      BY <1>2, <2>1 DEF Enter, NULL
    <3>3. (\A pos \in Nat : LexemAt(pos).val \in V \cup {NoVal})'
      BY <2>1, <3>1 DEF ParserTypes, LexemAt
    <3> QED BY <2>1, <2>4, <3>1, <3>2, <3>3 DEF ParserTypes
  <2>8. CallStack'
    BY <1>3, <2>1 DEF CallStack, Enter
  <2> QED BY <2>6, <2>7, <2>8 DEF ParserInv
<1> QED BY <1>4, <1>5
(***************************************************************************)
(* The steps that allocate.                                                *)
(***************************************************************************)
(* A node built from kids is a node, and the heap it is added to has it as *)
(* its last element.                                                       *)
LEMMA NewNodeFacts ==
  ASSUME NEW V, ParserTypes(V), NEW type \in BuiltTypes, NEW val \in V \cup {NoVal},
         NEW kids \in Seq(Nat), Allocate(NewNode(type, val, kids))
  PROVE  /\ NewNode(type, val, kids) \in NodeRecord(V)
         /\ HeapGrows(V)
         /\ Len(heap') = Len(heap) + 1
         /\ Fresh = Len(heap) + 1 /\ Fresh \in 1 .. Len(heap')
         /\ heap'[Fresh].type = type
<1>1. NewNode(type, val, kids) \in NodeRecord(V) /\ NewNode(type, val, kids).type = type
  BY DEF NewNode, NodeRecord
<1>2. /\ Len(heap) \in Nat
      /\ Len(heap') = Len(heap) + 1
      /\ heap'[Len(heap) + 1] = NewNode(type, val, kids)
  BY <1>1, AllocateFacts
<1>3. HeapGrows(V)
  BY <1>1, HeapGrowsFacts
<1> QED BY <1>1, <1>2, <1>3 DEF Fresh

(* The step EnterExpression keeps the invariant.                           *)
LEMMA EnterExpressionInv ==
  ASSUME NEW V, ParserInv(V), EnterExpression
  PROVE  ParserInv(V)'
<1>1. HeapGrows(V) /\ (\A n \in Nodes' : WellFormed(n)')
  <2>1. CASE IsSpecial(Current, {"kwif"})
    <3>1. Allocate(NewNode("IFSTAT", NoVal, <<>>))
      BY <2>1 DEF EnterExpression
    <3>6. "IFSTAT" \in BuiltTypes /\ <<>> \in Seq(Nat)
      BY DEF NodeTypes, BuiltTypes
    <3>2. NewNode("IFSTAT", NoVal, <<>>) \in NodeRecord(V) /\ HeapGrows(V)
      BY <3>1, <3>6, NewNodeFacts DEF ParserInv
    <3>3. /\ NewNode("IFSTAT", NoVal, <<>>).type = "IFSTAT"
          /\ NewNode("IFSTAT", NoVal, <<>>).kids = <<>>
      BY DEF NewNode
    <3>4. "IFSTAT" \notin Arithmetic \cup {"ASSIGN", "WRITE"}
      BY DEF Arithmetic, Additive, Multiplicative
    <3>5. \A n \in Nodes' : WellFormed(n)'
      BY <3>1, <3>2, <3>3, <3>4, AllocateShape DEF ParserInv, Arithmetic
    <3> QED BY <3>2, <3>5
  <2>2. CASE ~IsSpecial(Current, {"kwif"})
    BY <2>2, HeapSame DEF EnterExpression
  <2> QED BY <2>1, <2>2
<1>2. frames = <<>> /\ currlexem \in Nat /\ Len(heap') \in Nat
  BY <1>1, Before DEF EnterExpression, Running, ParserInv, CallStack, HeapGrows
<1> DEFINE frame == Frame("expr", NULL, "ASSIGN")
<1>3. frame \in FrameRecord(heap') /\ FrameOK(heap', 1, frame)
  BY <1>1 DEF Frame, FrameRecord, FrameOK, FrameTypes, StatFrames, PlusFrames,
              KindIn, NULL, HeapGrows
<1>4. frames' = Append(<<>>, frame) /\ ctl' = Enter("plus") /\ currlexem' = currlexem
  BY <1>2 DEF EnterExpression
<1> HIDE DEF frame
<1>5. /\ frames' \in Seq(FrameRecord(heap'))
      /\ Len(frames') = 1
      /\ \A k \in 1 .. 1 : FrameOK(heap', k, frames'[k])
  BY <1>3, <1>4
<1>6. StackInv(heap', frames', ctl', Current', currlexem')
  BY <1>2, <1>4, <1>5 DEF StackInv, Enter, NULL
<1>7. fault' \in {"none", "null dereference"}
  BY DEF EnterExpression, ParserInv, ParserTypes
<1> QED BY <1>1, <1>6, <1>7, InvFromParts DEF EnterExpression

(* The step FinishWrite keeps the invariant.                               *)
LEMMA FinishWriteInv ==
  ASSUME NEW V, ParserInv(V), FinishWrite
  PROVE  ParserInv(V)'
<1>1. Returning({"write"}) /\ ctl.go = "ret"
  BY DEF FinishWrite, Returning, Running
<1>2. CASE ctl.arg = NULL
  <2>1. /\ fault' = "null dereference" /\ currlexem' = currlexem + 1
        /\ UNCHANGED <<heap, root, frames, ctl, lexems>>
    BY <1>2 DEF FinishWrite
  <2>2. HeapGrows(V) /\ (\A n \in Nodes' : WellFormed(n)')
    BY <2>1, HeapSame
  <2>3. /\ Len(frames) \in Nat \ {0} /\ FrameOK(heap, Len(frames), Top)
        /\ Top.at \in {"write"}
    BY <1>1, <2>2, TopFrame
  <2>4. Len(frames) = 1
    BY <2>3 DEF FrameOK, StatFrames
  <2>5. StackInv(heap, frames, ctl, Current, currlexem) /\ currlexem + 1 \in Nat
    BY <2>2, Before
  <2>6. StackInv(heap', frames', ctl', Current', currlexem')
    BY <2>1, <2>4, <2>5, StackInvMoves
  <2> QED BY <2>1, <2>2, <2>6, InvFromParts
<1>3. CASE ctl.arg # NULL
  <2>1. /\ Allocate(NewNode("WRITE", NoVal, <<ctl.arg>>))
        /\ frames' = Front(frames) /\ ctl' = Return(Fresh)
        /\ currlexem' = currlexem + 1
        /\ UNCHANGED <<root, fault, lexems>>
    BY <1>3 DEF FinishWrite
  <2>2. ctl.arg \in 1 .. Len(heap) /\ Len(heap) \in Nat
    BY <1>3, ArgFacts
  <2>3. <<ctl.arg>> \in Seq(Nat)
    BY <2>2
  <2>4. /\ NewNode("WRITE", NoVal, <<ctl.arg>>) \in NodeRecord(V)
        /\ HeapGrows(V) /\ Len(heap') = Len(heap) + 1
        /\ Fresh \in 1 .. Len(heap') /\ heap'[Fresh].type = "WRITE"
    BY <2>1, <2>3, NewNodeFacts DEF ParserInv, NodeTypes, BuiltTypes
  <2>5. /\ Len(frames) \in Nat \ {0} /\ FrameOK(heap, Len(frames), Top)
        /\ Top.at \in {"write"}
        /\ Front(frames) \in Seq(FrameRecord(heap'))
        /\ Len(Front(frames)) = Len(frames) - 1
        /\ \A k \in 1 .. Len(frames) - 1 : FrameOK(heap', k, Front(frames)[k])
    BY <1>1, <2>4, TopFrame
  <2>6. Len(frames) = 1
    BY <2>5 DEF FrameOK, StatFrames
  <2>7. currlexem \in Nat /\ StackInv(heap, frames, ctl, Current, currlexem)
    BY <2>4, Before
  <2>8. heap[ctl.arg].type \in Expressions
    BY <1>1, <1>3, <2>6, <2>7 DEF StackInv, KindIn
  <2>9. \A n \in Nodes' : WellFormed(n)'
    <3>1. /\ NewNode("WRITE", NoVal, <<ctl.arg>>).type = "WRITE"
          /\ NewNode("WRITE", NoVal, <<ctl.arg>>).kids = <<ctl.arg>>
      BY DEF NewNode
    <3>2. "WRITE" \notin Arithmetic \cup Multiplicative \cup Tops \cup {"IFSTAT", "ASSIGN"}
      BY DEF Arithmetic, Additive, Multiplicative, Tops, Literals
    <3> QED BY <2>1, <2>2, <2>4, <2>8, <3>1, <3>2, AllocateShape DEF ParserInv
  <2>10. StackInv(heap', frames', ctl', Current', currlexem')
    BY <2>1, <2>4, <2>5, <2>6, <2>7 DEF StackInv, Return, KindIn
  <2>11. fault' \in {"none", "null dereference"}
    BY <2>1 DEF ParserInv, ParserTypes
  <2> QED BY <2>1, <2>4, <2>9, <2>10, <2>11, InvFromParts
<1> QED BY <1>2, <1>3

(* The step FinishAssign keeps the invariant.                              *)
LEMMA FinishAssignInv ==
  ASSUME NEW V, ParserInv(V), FinishAssign
  PROVE  ParserInv(V)'
<1>1. Returning({"assign"}) /\ ctl.go = "ret"
  BY DEF FinishAssign, Returning, Running
<1>2. CASE Top.left = NULL \/ ctl.arg = NULL
  <2>1. /\ frames' = Front(frames) /\ ctl' = Return(NULL)
        /\ currlexem' = currlexem + 1
        /\ UNCHANGED <<heap, root, fault, lexems>>
    BY <1>2 DEF FinishAssign
  <2>2. HeapGrows(V) /\ (\A n \in Nodes' : WellFormed(n)')
    BY <2>1, HeapSame
  <2>3. /\ Len(frames) \in Nat \ {0} /\ FrameOK(heap, Len(frames), Top)
        /\ Top.at \in {"assign"}
        /\ Front(frames) \in Seq(FrameRecord(heap'))
        /\ Len(Front(frames)) = Len(frames) - 1
    BY <1>1, <2>2, TopFrame
  <2>4. Len(frames) = 1
    BY <2>3 DEF FrameOK, StatFrames
  <2>5. currlexem \in Nat /\ Len(heap') \in Nat
    BY <2>2, Before DEF HeapGrows
  <2>6. StackInv(heap', frames', ctl', Current', currlexem')
    BY <2>1, <2>3, <2>4, <2>5 DEF StackInv, Return, KindIn, NULL
  <2>7. fault' \in {"none", "null dereference"}
    BY <2>1 DEF ParserInv, ParserTypes
  <2> QED BY <2>1, <2>2, <2>6, <2>7, InvFromParts
<1>3. CASE ~(Top.left = NULL \/ ctl.arg = NULL)
  <2> DEFINE node == NewNode("ASSIGN", NoVal, <<Top.left, ctl.arg>>)
  <2>1. /\ Allocate(node)
        /\ frames' = Front(frames) /\ ctl' = Return(Fresh)
        /\ currlexem' = currlexem + 1
        /\ UNCHANGED <<root, fault, lexems>>
    BY <1>3 DEF FinishAssign
  <2>2. ctl.arg \in 1 .. Len(heap) /\ Len(heap) \in Nat
    BY <1>3, ArgFacts
  <2>3. Top.left \in 1 .. Len(heap) /\ heap[Top.left].type \in Expressions /\ Len(frames) = 1
    <3>1. /\ FrameOK(heap, Len(frames), Top) /\ Top.left \in 0 .. Len(heap)
          /\ Top.at = "assign"
      BY <1>1, TopFrameNow
    <3> QED BY <1>3, <2>2, <3>1 DEF FrameOK, StatFrames, KindIn, NULL
  <2>4. <<Top.left, ctl.arg>> \in Seq(Nat)
    BY <2>2, <2>3
  <2>5. /\ node \in NodeRecord(V)
        /\ HeapGrows(V) /\ Len(heap') = Len(heap) + 1
        /\ Fresh \in 1 .. Len(heap') /\ heap'[Fresh].type = "ASSIGN"
    BY <2>1, <2>4, NewNodeFacts DEF ParserInv, NodeTypes, BuiltTypes
  <2>6. /\ Front(frames) \in Seq(FrameRecord(heap'))
        /\ Len(Front(frames)) = Len(frames) - 1
    BY <1>1, <2>5, TopFrame
  <2>7. currlexem \in Nat /\ StackInv(heap, frames, ctl, Current, currlexem)
    BY <2>5, Before
  <2>8. heap[ctl.arg].type \in Expressions
    BY <1>1, <1>3, <2>3, <2>7 DEF StackInv, KindIn
  <2>9. \A n \in Nodes' : WellFormed(n)'
    <3>1. node.type = "ASSIGN" /\ node.kids = <<Top.left, ctl.arg>>
      BY DEF NewNode
    <3>2. "ASSIGN" \notin Arithmetic \cup Multiplicative \cup Tops \cup {"IFSTAT", "WRITE"}
      BY DEF Arithmetic, Additive, Multiplicative, Tops, Literals
    <3> HIDE DEF node
    <3>3. /\ DOMAIN node.kids = 1 .. 2 /\ Len(node.kids) = 2
          /\ node.kids[1] = Top.left /\ node.kids[2] = ctl.arg
      BY <3>1
    <3>4. \A i \in DOMAIN node.kids : node.kids[i] \in 1 .. Len(heap)
      BY <2>2, <2>3, <3>3
    <3> QED BY <2>1, <2>3, <2>5, <2>8, <3>1, <3>2, <3>3, <3>4, AllocateShape DEF ParserInv
  <2>10. StackInv(heap', frames', ctl', Current', currlexem')
    BY <2>1, <2>3, <2>5, <2>6, <2>7 DEF StackInv, Return, KindIn
  <2>11. fault' \in {"none", "null dereference"}
    BY <2>1 DEF ParserInv, ParserTypes
  <2> QED BY <2>1, <2>5, <2>9, <2>10, <2>11, InvFromParts
<1> QED BY <1>2, <1>3

(* The step EnterMult keeps the invariant.                                 *)
LEMMA EnterMultInv ==
  ASSUME NEW V, ParserInv(V), EnterMult
  PROVE  ParserInv(V)'
<1> DEFINE type == LeafType(Current)
           left == IF type = "none" THEN NULL ELSE Fresh
<1>1. /\ LoopTest("mult", frames, left, currlexem + 1)
      /\ UNCHANGED <<root, fault, lexems>>
      /\ type = "none" => UNCHANGED heap
      /\ type # "none" => Allocate(NewNode(type, Current.val, <<>>))
  BY DEF EnterMult
<1>2. Current.val \in V \cup {NoVal}
  BY DEF ParserInv, ParserTypes, Current
<1>3. type \in Tops \cup {"none"}
  BY DEF LeafType, Tops, Literals
<1>4. /\ HeapGrows(V) /\ (\A n \in Nodes' : WellFormed(n)')
      /\ left \in 0 .. Len(heap') /\ KindIn(heap', left, Tops)
  <2>1. CASE type = "none"
    <3>1. HeapGrows(V) /\ (\A n \in Nodes' : WellFormed(n)')
      BY <1>1, <2>1, HeapSame
    <3> QED BY <2>1, <3>1 DEF HeapGrows, KindIn, NULL
  <2>2. CASE type # "none"
    <3> DEFINE node == NewNode(type, Current.val, <<>>)
    <3>1. type \in Tops /\ type \in BuiltTypes /\ <<>> \in Seq(Nat)
      BY <1>3, <2>2 DEF NodeTypes, BuiltTypes, Tops, Literals
    <3>2. Allocate(node)
      BY <1>1, <2>2
    <3>3. node.type = type /\ node.kids = <<>>
      BY DEF NewNode
    <3> HIDE DEF type
    <3>4. /\ node \in NodeRecord(V) /\ HeapGrows(V)
          /\ Fresh \in 1 .. Len(heap') /\ heap'[Fresh].type = type
      BY <1>2, <3>1, <3>2, NewNodeFacts DEF ParserInv
    <3> HIDE DEF node
    <3>5. type \notin Arithmetic \cup Multiplicative \cup {"WRITE", "ASSIGN"}
      BY <3>1 DEF Arithmetic, Additive, Multiplicative, Tops, Literals
    <3>6. \A n \in Nodes' : WellFormed(n)'
      BY <3>2, <3>3, <3>4, <3>5, AllocateShape DEF ParserInv
    <3> QED BY <2>2, <3>1, <3>4, <3>6 DEF KindIn
  <2> QED BY <2>1, <2>2
<1>5. /\ frames \in Seq(FrameRecord(heap'))
      /\ \A k \in 1 .. Len(frames) : FrameOK(heap', k, frames[k])
      /\ currlexem + 1 \in Nat /\ heap' \in Seq(NodeRecord(V))
  BY <1>4, Before
<1>6. Len(frames) >= 2
  BY DEF EnterMult, Running, ParserInv, CallStack
<1>7. PICK base, leaf, pos : base = frames /\ leaf = left /\ pos = currlexem + 1
  OBVIOUS
<1> HIDE DEF left
<1>8. KindIn(heap', left, Tops \cup Multiplicative)
  BY <1>4 DEF KindIn
<1>9. StackInv(heap', frames', ctl', Current', currlexem')
  BY <1>1, <1>4, <1>5, <1>6, <1>7, <1>8, LoopTestStack
<1>10. fault' \in {"none", "null dereference"}
  BY <1>1 DEF ParserInv, ParserTypes
<1> QED BY <1>1, <1>4, <1>9, <1>10, InvFromParts

(* The step RightOperand keeps the invariant.                              *)
LEMMA RightOperandInv ==
  ASSUME NEW V, ParserInv(V), NEW level \in {"mult", "plus"}, RightOperand(level)
  PROVE  ParserInv(V)'
<1>1. Returning({level}) /\ ctl.go = "ret"
  BY DEF RightOperand, Returning, Running
<1>2. /\ Len(frames) \in Nat \ {0} /\ Top.left \in 0 .. Len(heap)
      /\ FrameOK(heap, Len(frames), Top) /\ Top.at = level
  BY <1>1, TopFrameNow
<1>3. /\ level = "plus" => Len(frames) = 2 /\ Top.type \in Additive
      /\ level = "mult" => Len(frames) > 2 /\ Top.type \in Multiplicative
  <2>1. Len(frames) # 1
    BY <1>2 DEF FrameOK, StatFrames
  <2>2. ASSUME level = "plus" PROVE Len(frames) = 2 /\ Top.type \in Additive
    BY <1>2, <2>2 DEF FrameOK, FrameTypes, PlusFrames
  <2>3. ASSUME level = "mult" PROVE Len(frames) > 2 /\ Top.type \in Multiplicative
    <3>1. Len(frames) # 2 /\ Top.type \in Multiplicative
      BY <1>2, <2>3 DEF FrameOK, FrameTypes, PlusFrames
    <3>2. Len(frames) \in Nat \ {0}
      BY <1>2
    <3>4. \A n \in Nat \ {0} : n # 1 /\ n # 2 => n > 2
      OBVIOUS
    <3>3. Len(frames) > 2
      BY <2>1, <3>1, <3>2, <3>4, Zenon
    <3> QED BY <3>1, <3>3, Zenon
  <2> QED BY <2>2, <2>3, Zenon
<1>4. CASE Top.left = NULL \/ ctl.arg = NULL
  <2>1. /\ frames' = Front(frames) /\ ctl' = Return(NULL)
        /\ UNCHANGED <<heap, root, fault, lexems, currlexem>>
    BY <1>4 DEF RightOperand
  <2>2. HeapGrows(V) /\ (\A n \in Nodes' : WellFormed(n)')
    BY <2>1, HeapSame
  <2>3. /\ Front(frames) \in Seq(FrameRecord(heap'))
        /\ Len(Front(frames)) = Len(frames) - 1
        /\ \A k \in 1 .. Len(frames) - 1 : FrameOK(heap', k, Front(frames)[k])
    BY <1>1, <2>2, TopFrame
  <2>4. currlexem \in Nat /\ Len(heap') \in Nat
    BY <2>2, Before DEF HeapGrows
  <2>5. StackInv(heap', frames', ctl', Current', currlexem')
    BY <1>2, <2>1, <2>3, <2>4 DEF StackInv, Return, KindIn, NULL
  <2>6. fault' \in {"none", "null dereference"}
    BY <2>1 DEF ParserInv, ParserTypes
  <2> QED BY <2>1, <2>2, <2>5, <2>6, InvFromParts
<1>5. CASE ~(Top.left = NULL \/ ctl.arg = NULL)
  <2> DEFINE node == NewNode(Top.type, NoVal, <<Top.left, ctl.arg>>)
  <2>1. /\ Allocate(node)
        /\ LoopTest(level, Front(frames), Fresh, currlexem)
        /\ UNCHANGED <<root, fault, lexems>>
    BY <1>5 DEF RightOperand
  <2>2. /\ ctl.arg \in 1 .. Len(heap) /\ Len(heap) \in Nat
        /\ Top.left \in 1 .. Len(heap)
    BY <1>2, <1>5, ArgFacts DEF NULL
  <2>3. Top.type \in Arithmetic /\ Top.type \in BuiltTypes
    BY <1>3 DEF Arithmetic, Additive, Multiplicative, NodeTypes, BuiltTypes
  <2>4. <<Top.left, ctl.arg>> \in Seq(Nat)
    BY <2>2
  <2>5. /\ node \in NodeRecord(V)
        /\ HeapGrows(V) /\ Len(heap') = Len(heap) + 1
        /\ Fresh \in 1 .. Len(heap') /\ heap'[Fresh].type = Top.type
    BY <2>1, <2>3, <2>4, NewNodeFacts DEF ParserInv
  <2>6. /\ Front(frames) \in Seq(FrameRecord(heap'))
        /\ Len(Front(frames)) = Len(frames) - 1
        /\ \A k \in 1 .. Len(frames) - 1 : FrameOK(heap', k, Front(frames)[k])
    BY <1>1, <2>5, TopFrame
  <2>7. /\ currlexem \in Nat /\ heap' \in Seq(NodeRecord(V))
        /\ StackInv(heap, frames, ctl, Current, currlexem)
    BY <2>5, Before
  <2>8. /\ heap[ctl.arg].type \in Tops \cup Multiplicative
        /\ ~IsSpecial(LexemAt(currlexem), MultiplicativeOps)
    <3>1. Len(frames) > 1
      BY <1>3, SMTT(30)
    <3> QED BY <1>1, <1>5, <2>7, <3>1 DEF StackInv, KindIn, Current
  <2>9. /\ heap[Top.left].type \in Expressions
        /\ level = "mult" => heap[Top.left].type \in Tops
    BY <1>2, <1>5 DEF FrameOK, KindIn, Expressions
  <2>10. \A n \in Nodes' : WellFormed(n)'
    <3>1. node.type = Top.type /\ node.kids = <<Top.left, ctl.arg>>
      BY DEF NewNode
    <3>2. Top.type \notin Tops \cup {"IFSTAT", "WRITE", "ASSIGN"}
      BY <2>3 DEF Arithmetic, Additive, Multiplicative, Tops, Literals
    <3>3. Top.type \in Multiplicative => heap[Top.left].type \in Tops
      BY <1>3, <2>9 DEF Additive, Multiplicative
    <3> HIDE DEF node
    <3>4. /\ DOMAIN node.kids = 1 .. 2 /\ Len(node.kids) = 2
          /\ node.kids[1] = Top.left /\ node.kids[2] = ctl.arg
      BY <3>1
    <3>5. \A i \in DOMAIN node.kids : node.kids[i] \in 1 .. Len(heap)
      BY <2>2, <3>4
    <3>6. heap[ctl.arg].type \in Expressions
      BY <2>8 DEF Expressions, Arithmetic
    <3> QED BY <2>1, <2>5, <2>8, <2>9, <3>1, <3>2, <3>3, <3>4, <3>5, <3>6,
               AllocateShape DEF ParserInv
  <2>11. /\ level = "plus" => KindIn(heap', Fresh, Expressions)
         /\ level = "mult" => KindIn(heap', Fresh, Tops \cup Multiplicative)
    BY <1>3, <2>3, <2>5 DEF KindIn, Expressions
  <2>12. PICK base, left, pos :
           base = Front(frames) /\ left = Fresh /\ pos = currlexem
    OBVIOUS
  <2>13. StackInv(heap', frames', ctl', Current', currlexem')
    <3>1. LoopTest(level, base, left, pos) /\ lexems' = lexems
      BY <2>1, <2>12
    <3>2. /\ level = "plus" => Len(base) = 1
          /\ level = "mult" => Len(base) >= 2
      <4>1. ASSUME level = "plus" PROVE Len(base) = 1
        <5>1. Len(frames) = 2
          BY <1>3, <4>1, Zenon
        <5> QED BY <2>6, <2>12, <5>1
      <4>2. ASSUME level = "mult" PROVE Len(base) >= 2
        <5>1. Len(frames) > 2
          BY <1>3, <4>2, Zenon
        <5> QED BY <1>2, <2>6, <2>12, <5>1
      <4> QED BY <4>1, <4>2, Zenon
    <3>3. base \in Seq(FrameRecord(heap')) /\ left \in 0 .. Len(heap')
      BY <2>5, <2>6, <2>12
    <3>4. \A k \in 1 .. Len(base) : FrameOK(heap', k, base[k])
      BY <2>6, <2>12
    <3>5. /\ ~IsSpecial(LexemAt(pos), MultiplicativeOps)
          /\ level = "plus" => KindIn(heap', left, Expressions)
          /\ level = "mult" => KindIn(heap', left, Tops \cup Multiplicative)
      BY <2>8, <2>11, <2>12
    <3> QED BY <2>7, <2>12, <3>1, <3>2, <3>3, <3>4, <3>5, LoopTestStack
  <2>14. fault' \in {"none", "null dereference"}
    BY <2>1 DEF ParserInv, ParserTypes
  <2> QED BY <2>1, <2>5, <2>10, <2>13, <2>14, InvFromParts
<1> QED BY <1>4, <1>5
(***************************************************************************)
(* The theorems.                                                           *)
(***************************************************************************)

(* The lexems of a stream carry its values.                                *)
LEMMA StreamValues ==
  ASSUME lexems \in Streams
  PROVE  \A pos \in Nat : LexemAt(pos).val \in Values \cup {NoVal}
<1>1. lexems \in Seq([type : LexemTypes, val : Values])
  BY StreamsAssumption
<1> SUFFICES ASSUME NEW pos \in Nat
             PROVE  LexemAt(pos).val \in Values \cup {NoVal}
  OBVIOUS
<1>2. CASE pos >= Len(lexems)
  BY <1>2 DEF LexemAt, NoLexem, Lexem
<1>3. CASE ~(pos >= Len(lexems))
  <2>1. pos + 1 \in 1 .. Len(lexems)
    BY <1>1, <1>3
  <2>2. lexems[pos + 1] \in [type : LexemTypes, val : Values]
    BY <1>1, <2>1, ElementOfSeq
  <2> QED BY <1>3, <2>2 DEF LexemAt
<1> QED BY <1>2, <1>3

(* An empty tree and an empty stack keep the invariant, whatever is read.  *)
LEMMA EmptyParserInv ==
  ASSUME NEW V, heap = <<>>, root = <<>>, fault = "none", currlexem = 0,
         frames = <<>>, ctl = Enter("text"),
         \A pos \in Nat : LexemAt(pos).val \in V \cup {NoVal}
  PROVE  ParserInv(V)
<1>1. ParserTypes(V)
  BY DEF ParserTypes, Enter, NULL
<1>2. TreeShape /\ CallStack
  BY DEF TreeShape, CallStack, Nodes, Enter
<1> QED BY <1>1, <1>2 DEF ParserInv

(* Every step of the parser keeps the invariant.                           *)
LEMMA ParserStepInv ==
  ASSUME NEW V, ParserInv(V), ParserStep
  PROVE  ParserInv(V)'
BY NextStatementInv, AddStatementInv, EnterWriteInv, EnterExpressionInv,
   FinishWriteInv, FinishExpressionInv, FinishAssignInv, EnterPlusInv,
   EnterMultInv, FirstOperandInv, RightOperandInv DEF ParserStep

(* What leaves the state alone keeps the invariant.                        *)
LEMMA ParserStutters ==
  ASSUME NEW V, ParserInv(V), UNCHANGED parserVars
  PROVE  ParserInv(V)'
BY DEF parserVars, ParserInv, ParserTypes, TreeShape, CallStack, WellFormed,
       Kind, Nodes, Current, LexemAt

(* Types, tree shape and call stack are inductive together: whether a step *)
(* builds a well-formed node depends on which call it returns to.          *)
THEOREM ParserInvariance == ParserSpec => [](lexems \in Streams /\ ParserInv(Values))
<1>1. ParserInit => lexems \in Streams /\ ParserInv(Values)
  BY EmptyParserInv, StreamValues DEF ParserInit
<1>2. lexems \in Streams /\ ParserInv(Values) /\ [ParserNext]_parserVars
        => (lexems \in Streams /\ ParserInv(Values))'
  <2> SUFFICES ASSUME lexems \in Streams, ParserInv(Values), [ParserNext]_parserVars
               PROVE  (lexems \in Streams)' /\ ParserInv(Values)'
    OBVIOUS
  <2>1. CASE ParserStep
    <3>1. UNCHANGED lexems
      BY <2>1 DEF ParserStep, NextStatement, AddStatement, EnterWrite, EnterExpression,
         FinishWrite, FinishExpression, FinishAssign, EnterPlus, EnterMult,
         FirstOperand, RightOperand
    <3> QED BY <2>1, <3>1, ParserStepInv
  <2>2. CASE UNCHANGED parserVars
    BY <2>2, ParserStutters DEF parserVars
  <2> QED BY <2>1, <2>2 DEF ParserNext, ParserDone
<1> QED BY <1>1, <1>2, PTL DEF ParserSpec

(* Nodes, frames and the iterator keep their types, for every program.     *)
THEOREM ParserTypeCorrect == ParserSpec => []ParserTypeOK
<1>1. lexems \in Streams /\ ParserInv(Values) => ParserTypeOK
  BY DEF ParserInv, ParserTypes, ParserTypeOK, NodeRecord, BuiltTypes, FrameRecord,
         NodesOrNull, NULL
<1> QED BY <1>1, ParserInvariance, PTL

(* Whatever the lexems, astparse_text only ever builds well-formed trees   *)
(* with multiplication and division below addition and subtraction.        *)
THEOREM ParserTreeShape == ParserSpec => []TreeShape
<1>1. ParserInv(Values) => TreeShape
  BY DEF ParserInv
<1> QED BY <1>1, ParserInvariance, PTL

(* The astparse_* functions call each other, and return to each other, in  *)
(* the order CallStack states, for every program.                          *)
THEOREM ParserCallStack == ParserSpec => []CallStack
<1>1. ParserInv(Values) => CallStack
  BY DEF ParserInv
<1> QED BY <1>1, ParserInvariance, PTL

(***************************************************************************)
(* Ownership: every node has one owner, and a finished parse lost none.    *)
(***************************************************************************)

(* The nodes that are children, statements, locals of a suspended call,    *)
(* and the one being returned.                                             *)
KidSet(h)  == {x \in Nat : \E n \in 1 .. Len(h) : \E i \in DOMAIN h[n].kids : h[n].kids[i] = x}
StmSet(r)  == {r[i] : i \in 1 .. Len(r)}
LocSet(fs) == {fs[k].left : k \in 1 .. Len(fs)} \ {NULL}
ResSet(c)  == IF c.go = "ret" THEN {c.arg} \ {NULL} ELSE {}
Working(fs, c) == LocSet(fs) \cup ResSet(c)

(* The calls that keep an operand while another one is parsed. *)
Keeps == {"plus", "mult", "assign"}

(* No two pointers of one kind lead to the same node. *)
KidsOnce(h) ==
  \A n, m \in 1 .. Len(h) : \A i \in DOMAIN h[n].kids : \A j \in DOMAIN h[m].kids :
    h[n].kids[i] = h[m].kids[j] => n = m /\ i = j
Once(r) == \A i, j \in 1 .. Len(r) : r[i] = r[j] => i = j
LocalsOnce(fs) ==
  /\ \A k, l \in 1 .. Len(fs) : fs[k].left = fs[l].left /\ fs[k].left # NULL => k = l
  /\ \A k \in 1 .. Len(fs) : fs[k].at \notin Keeps => fs[k].left = NULL

Sole(h, r, fs, c) ==
  /\ KidsOnce(h) /\ Once(r) /\ LocalsOnce(fs)
  /\ KidSet(h) \cap StmSet(r) = {}
  /\ KidSet(h) \cap Working(fs, c) = {}
  /\ StmSet(r) \cap Working(fs, c) = {}
  /\ LocSet(fs) \cap ResSet(c) = {}

(* A call that has come back with NULL, or keeps a NULL operand it cannot  *)
(* do without: the statement will come to nothing, and its nodes are lost. *)
DoomedFrames(fs) == \E k \in 1 .. Len(fs) : fs[k].at \in Keeps /\ fs[k].left = NULL
Doomed(fs, c)    == DoomedFrames(fs) \/ (c.go = "ret" /\ c.arg = NULL)

NoneLost(h, r, fs, c) ==
  \A n \in 1 .. Len(h) : h[n].type = "IFSTAT" \/ n \in KidSet(h) \cup StmSet(r) \cup Working(fs, c)

OwnInv ==
  /\ Sole(heap, root, frames, ctl)
  /\ fault = "none" => Doomed(frames, ctl) \/ NoneLost(heap, root, frames, ctl)

(***************************************************************************)
(* What allocating, pushing and popping do to the sets.                    *)
(***************************************************************************)

(* Only nodes that exist have an owner.                                    *)
LEMMA OwnedExist ==
  ASSUME NEW V, ParserInv(V)
  PROVE  /\ Len(heap) \in Nat
         /\ KidSet(heap) \subseteq 1 .. Len(heap)
         /\ StmSet(root) \subseteq 1 .. Len(heap)
         /\ Working(frames, ctl) \subseteq 1 .. Len(heap)
<1>1. Len(heap) \in Nat
  BY ArgFacts
<1>2. KidSet(heap) \subseteq 1 .. Len(heap)
  <2> SUFFICES ASSUME NEW n \in 1 .. Len(heap), NEW i \in DOMAIN heap[n].kids
               PROVE  heap[n].kids[i] \in 1 .. Len(heap)
    BY DEF KidSet
  <2>1. heap[n].kids[i] \in 1 .. n - 1
    BY DEF ParserInv, TreeShape, WellFormed, Nodes
  <2> QED BY <1>1, <2>1
<1>3. StmSet(root) \subseteq 1 .. Len(heap)
  <2>1. root \in Seq(1 .. Len(heap))
    BY DEF ParserInv, ParserTypes, Nodes
  <2>2. \A i \in 1 .. Len(root) : root[i] \in 1 .. Len(heap)
    BY <2>1, ElementOfSeq
  <2> QED BY <2>2 DEF StmSet
<1>4. LocSet(frames) \subseteq 1 .. Len(heap)
  <2>1. frames \in Seq(FrameRecord(heap))
    BY DEF ParserInv, ParserTypes
  <2>3. \A k \in 1 .. Len(frames) : frames[k] \in FrameRecord(heap)
    BY <2>1, ElementOfSeq
  <2>2. \A k \in 1 .. Len(frames) : frames[k].left \in 0 .. Len(heap)
    BY <2>3 DEF FrameRecord
  <2> QED BY <1>1, <2>2 DEF LocSet, NULL
<1>5. ResSet(ctl) \subseteq 1 .. Len(heap)
  BY ArgFacts DEF ResSet
<1> QED BY <1>1, <1>2, <1>3, <1>4, <1>5 DEF Working

(* A new node makes its children children, and adds no other.              *)
LEMMA AllocateKids ==
  ASSUME NEW V, ParserInv(V), NEW node \in NodeRecord(V), Allocate(node),
         NEW N, N = {node.kids[i] : i \in DOMAIN node.kids}
  PROVE  /\ KidSet(heap') = KidSet(heap) \cup N
         /\ KidsOnce(heap) /\ N \cap KidSet(heap) = {}
              /\ (\A i, j \in DOMAIN node.kids : node.kids[i] = node.kids[j] => i = j)
            => KidsOnce(heap')
<1>1. /\ heap' \in Seq(NodeRecord(V))
      /\ Len(heap) \in Nat
      /\ Len(heap') = Len(heap) + 1
      /\ \A n \in 1 .. Len(heap) : heap'[n] = heap[n]
      /\ heap'[Len(heap) + 1] = node
  BY AllocateFacts DEF ParserInv
<1>2. heap \in Seq(NodeRecord(V))
  BY DEF ParserInv, ParserTypes
<1>3. \A n \in 1 .. Len(heap') : heap'[n].kids \in Seq(Nat)
  <2>1. \A n \in 1 .. Len(heap') : heap'[n] \in NodeRecord(V)
    BY <1>1, ElementOfSeq
  <2> QED BY <2>1 DEF NodeRecord
<1>4. \A n \in 1 .. Len(heap') : \A i \in DOMAIN heap'[n].kids : heap'[n].kids[i] \in Nat
  <2> SUFFICES ASSUME NEW n \in 1 .. Len(heap'), NEW i \in DOMAIN heap'[n].kids
               PROVE  heap'[n].kids[i] \in Nat
    OBVIOUS
  <2>1. heap'[n].kids \in Seq(Nat)
    BY <1>3
  <2> QED BY <2>1
<1>5. \A n : n \in 1 .. Len(heap') <=> n \in 1 .. Len(heap) \/ n = Len(heap) + 1
  BY <1>1
<1>6. \A i \in DOMAIN node.kids : node.kids[i] \in Nat
  BY <1>1, <1>4, <1>5
<1>7. KidSet(heap') = KidSet(heap) \cup N
  <2>1. ASSUME NEW x, x \in KidSet(heap')
        PROVE  x \in KidSet(heap) \cup N
    <3>1. PICK n \in 1 .. Len(heap') : \E i \in DOMAIN heap'[n].kids : heap'[n].kids[i] = x
      BY <2>1 DEF KidSet
    <3>2. x \in Nat
      BY <2>1 DEF KidSet
    <3>3. CASE n \in 1 .. Len(heap)
      BY <1>1, <3>1, <3>2, <3>3 DEF KidSet
    <3>4. CASE n = Len(heap) + 1
      BY <1>1, <3>1, <3>4
    <3> QED BY <1>5, <3>3, <3>4
  <2>2. ASSUME NEW x, x \in KidSet(heap)
        PROVE  x \in KidSet(heap')
    <3>1. PICK n \in 1 .. Len(heap) : \E i \in DOMAIN heap[n].kids : heap[n].kids[i] = x
      BY <2>2 DEF KidSet
    <3>2. x \in Nat /\ n \in 1 .. Len(heap') /\ heap'[n] = heap[n]
      BY <1>1, <1>5, <2>2 DEF KidSet
    <3> QED BY <3>1, <3>2 DEF KidSet
  <2>3. ASSUME NEW x, x \in N
        PROVE  x \in KidSet(heap')
    <3>1. PICK i \in DOMAIN node.kids : x = node.kids[i]
      BY <2>3
    <3>2. Len(heap) + 1 \in 1 .. Len(heap') /\ heap'[Len(heap) + 1] = node
      BY <1>1
    <3> QED BY <1>6, <3>1, <3>2 DEF KidSet
  <2> QED BY <2>1, <2>2, <2>3
<1>8. ASSUME KidsOnce(heap), N \cap KidSet(heap) = {},
             \A i, j \in DOMAIN node.kids : node.kids[i] = node.kids[j] => i = j
      PROVE  KidsOnce(heap')
  <2> SUFFICES ASSUME NEW n \in 1 .. Len(heap'), NEW m \in 1 .. Len(heap'),
                      NEW i \in DOMAIN heap'[n].kids, NEW j \in DOMAIN heap'[m].kids,
                      heap'[n].kids[i] = heap'[m].kids[j]
               PROVE  n = m /\ i = j
    BY DEF KidsOnce
  <2>1. \A k \in 1 .. Len(heap) : \A l \in DOMAIN heap'[k].kids : heap'[k].kids[l] \in KidSet(heap)
    BY <1>1, <1>4, <1>5 DEF KidSet
  <2>2. \A l \in DOMAIN node.kids : node.kids[l] \notin KidSet(heap)
    BY <1>8
  <2>3. CASE n \in 1 .. Len(heap) /\ m \in 1 .. Len(heap)
    BY <1>1, <1>8, <2>3 DEF KidsOnce
  <2>4. CASE n = Len(heap) + 1 /\ m = Len(heap) + 1
    BY <1>1, <1>8, <2>4
  <2>5. CASE n \in 1 .. Len(heap) /\ m = Len(heap) + 1
    BY <1>1, <2>1, <2>2, <2>5
  <2>6. CASE n = Len(heap) + 1 /\ m \in 1 .. Len(heap)
    BY <1>1, <2>1, <2>2, <2>6
  <2> QED BY <1>5, <2>3, <2>4, <2>5, <2>6
<1> QED BY <1>7, <1>8

(* A call that is suspended adds the operand it keeps.                     *)
LEMMA PushLocal ==
  ASSUME NEW S, NEW fs \in Seq(S), NEW f \in S
  PROVE  /\ LocSet(Append(fs, f)) = LocSet(fs) \cup ({f.left} \ {NULL})
         /\ LocalsOnce(fs) /\ f.left \notin LocSet(fs) /\ (f.left = NULL \/ f.at \in Keeps)
              => LocalsOnce(Append(fs, f))
         /\ DoomedFrames(Append(fs, f)) <=>
              DoomedFrames(fs) \/ (f.at \in Keeps /\ f.left = NULL)
<1>1. /\ Len(Append(fs, f)) = Len(fs) + 1 /\ Len(fs) \in Nat
      /\ \A i \in 1 .. Len(fs) : Append(fs, f)[i] = fs[i]
      /\ Append(fs, f)[Len(fs) + 1] = f
  BY AppendFacts
<1>2. PICK t : t = Append(fs, f)
  OBVIOUS
<1>3. \A k : k \in 1 .. Len(t) <=> k \in 1 .. Len(fs) \/ k = Len(fs) + 1
  BY <1>1, <1>2
<1>4. (\A k \in 1 .. Len(fs) : t[k] = fs[k]) /\ t[Len(fs) + 1] = f /\ Len(fs) + 1 \notin 1 .. Len(fs)
  BY <1>1, <1>2
<1>5. LocSet(t) = LocSet(fs) \cup ({f.left} \ {NULL})
  BY <1>3, <1>4 DEF LocSet
<1>6. ASSUME LocalsOnce(fs), f.left \notin LocSet(fs), f.left = NULL \/ f.at \in Keeps
      PROVE  LocalsOnce(t)
  BY <1>3, <1>4, <1>6, SMTT(30) DEF LocalsOnce, LocSet
<1>7. DoomedFrames(t) <=> DoomedFrames(fs) \/ (f.at \in Keeps /\ f.left = NULL)
  BY <1>3, <1>4 DEF DoomedFrames
<1> QED BY <1>2, <1>5, <1>6, <1>7

(* A call that returns gives up the operand it kept.                       *)
LEMMA PopLocal ==
  ASSUME NEW S, NEW fs \in Seq(S), fs # <<>>
  PROVE  /\ LocSet(fs) = LocSet(Front(fs)) \cup ({Last(fs).left} \ {NULL})
         /\ LocalsOnce(fs) => /\ LocalsOnce(Front(fs))
                              /\ Last(fs).left \notin LocSet(Front(fs))
                              /\ Last(fs).at \notin Keeps => Last(fs).left = NULL
         /\ DoomedFrames(fs) <=>
              DoomedFrames(Front(fs)) \/ (Last(fs).at \in Keeps /\ Last(fs).left = NULL)
<1>1. /\ Len(fs) \in Nat \ {0}
      /\ Len(Front(fs)) = Len(fs) - 1
      /\ \A i \in 1 .. Len(fs) - 1 : Front(fs)[i] = fs[i]
      /\ Last(fs) = fs[Len(fs)]
  BY FrontFacts
<1>2. PICK t, f : t = Front(fs) /\ f = Last(fs)
  OBVIOUS
<1>3. \A k : k \in 1 .. Len(fs) <=> k \in 1 .. Len(t) \/ k = Len(fs)
  BY <1>1, <1>2
<1>4. (\A k \in 1 .. Len(t) : t[k] = fs[k]) /\ fs[Len(fs)] = f /\ Len(fs) \notin 1 .. Len(t)
  BY <1>1, <1>2
<1>5. LocSet(fs) = LocSet(t) \cup ({f.left} \ {NULL})
  BY <1>3, <1>4 DEF LocSet
<1>6. ASSUME LocalsOnce(fs)
      PROVE  LocalsOnce(t) /\ f.left \notin LocSet(t) /\ (f.at \notin Keeps => f.left = NULL)
  BY <1>3, <1>4, <1>6 DEF LocalsOnce, LocSet
<1>7. DoomedFrames(fs) <=> DoomedFrames(t) \/ (f.at \in Keeps /\ f.left = NULL)
  BY <1>3, <1>4 DEF DoomedFrames
<1> QED BY <1>2, <1>5, <1>6, <1>7

(* The loop test keeps the operand in a frame or returns it.               *)
LEMMA LoopTestOwn ==
  ASSUME NEW S, NEW level \in {"mult", "plus"}, NEW base \in Seq(S), NEW left, NEW pos,
         LoopTest(level, base, left, pos),
         LocalsOnce(base), left \notin LocSet(base)
  PROVE  /\ LocalsOnce(frames')
         /\ LocSet(frames') \cap ResSet(ctl') = {}
         /\ Working(frames', ctl') = LocSet(base) \cup ({left} \ {NULL})
         /\ DoomedFrames(base) \/ left = NULL => Doomed(frames', ctl')
<1>1. CASE IsSpecial(LexemAt(pos), OpsOf(level))
  <2> DEFINE f == Frame(level, left, NodeTypeOf(LexemAt(pos).val[2]))
  <2>1. frames' = Append(base, f) /\ ctl' = Enter("mult")
    BY <1>1 DEF LoopTest
  <2>2. f.left = left /\ f.at \in Keeps
    BY DEF Frame, Keeps
  <2> HIDE DEF f
  <2>3. ResSet(ctl') = {}
    BY <2>1 DEF ResSet, Enter
  <2>4. PICK T : base \in Seq(T) /\ f \in T
    <3>1. base \in Seq(S \cup {f})
      BY SeqMonotonic
    <3> QED BY <3>1
  <2>5. /\ LocSet(Append(base, f)) = LocSet(base) \cup ({f.left} \ {NULL})
        /\ LocalsOnce(base) /\ f.left \notin LocSet(base) /\ f.at \in Keeps
             => LocalsOnce(Append(base, f))
        /\ DoomedFrames(Append(base, f)) <=>
             DoomedFrames(base) \/ (f.at \in Keeps /\ f.left = NULL)
    BY <2>4, PushLocal
  <2> QED BY <2>1, <2>2, <2>3, <2>5 DEF Working, Doomed
<1>2. CASE ~IsSpecial(LexemAt(pos), OpsOf(level))
  <2>1. frames' = base /\ ctl' = Return(left)
    BY <1>2 DEF LoopTest
  <2>2. ResSet(ctl') = {left} \ {NULL}
    BY <2>1 DEF ResSet, Return
  <2> QED BY <2>1, <2>2 DEF Working, Doomed, Return
<1> QED BY <1>1, <1>2

(***************************************************************************)
(* The steps.                                                              *)
(***************************************************************************)

(* What a step has to establish: nodes move from the calls that work on    *)
(* them to a parent or to the statements, and only a new node joins them.  *)
LEMMA OwnStep ==
  ASSUME NEW V, ParserInv(V), OwnInv, HeapGrows(V), NEW N, NEW M,
         KidsOnce(heap'), Once(root'), LocalsOnce(frames'),
         LocSet(frames') \cap ResSet(ctl') = {},
         KidSet(heap') = KidSet(heap) \cup N,
         StmSet(root') = StmSet(root) \cup M,
         N \cup M \subseteq Working(frames, ctl), N \cap M = {},
         Working(frames', ctl') \subseteq (Working(frames, ctl) \ (N \cup M)) \cup {Fresh},
         \/ fault' # "none"
         \/ Doomed(frames', ctl')
         \/ /\ fault = "none" /\ ~Doomed(frames, ctl)
            /\ Working(frames, ctl) \subseteq Working(frames', ctl') \cup N \cup M
            /\ \A n \in 1 .. Len(heap') :
                 \/ n \in 1 .. Len(heap)
                 \/ n \in Working(frames', ctl')
                 \/ heap'[n].type = "IFSTAT"
  PROVE  OwnInv'
<1>1. PICK K, S, W, K1, S1, W1 :
        /\ K = KidSet(heap) /\ S = StmSet(root) /\ W = Working(frames, ctl)
        /\ K1 = KidSet(heap') /\ S1 = StmSet(root') /\ W1 = Working(frames', ctl')
  OBVIOUS
<1>2. K \cap S = {} /\ K \cap W = {} /\ S \cap W = {}
  BY <1>1 DEF OwnInv, Sole
<1>3. Fresh \notin K /\ Fresh \notin S /\ Fresh \notin W
  <2>1. /\ Len(heap) \in Nat
        /\ K \subseteq 1 .. Len(heap) /\ S \subseteq 1 .. Len(heap)
        /\ W \subseteq 1 .. Len(heap)
    BY <1>1, OwnedExist
  <2> QED BY <2>1 DEF Fresh
<1>4. /\ K1 = K \cup N /\ S1 = S \cup M /\ N \cup M \subseteq W /\ N \cap M = {}
      /\ W1 \subseteq (W \ (N \cup M)) \cup {Fresh}
  BY <1>1
<1>5. K1 \cap S1 = {} /\ K1 \cap W1 = {} /\ S1 \cap W1 = {}
  BY <1>2, <1>3, <1>4
<1>6. Sole(heap, root, frames, ctl)'
  BY <1>1, <1>5 DEF Sole
<1>7. ASSUME fault' = "none", ~Doomed(frames', ctl')
      PROVE  NoneLost(heap', root', frames', ctl')
  <2>1. /\ fault = "none" /\ ~Doomed(frames, ctl) /\ W \subseteq W1 \cup N \cup M
        /\ \A n \in 1 .. Len(heap') :
             n \in 1 .. Len(heap) \/ n \in W1 \/ heap'[n].type = "IFSTAT"
    BY <1>1, <1>7
  <2>2. \A n \in 1 .. Len(heap) : heap[n].type = "IFSTAT" \/ n \in K \cup S \cup W
    BY <1>1, <2>1 DEF OwnInv, NoneLost
  <2>3. \A n \in 1 .. Len(heap) : heap'[n] = heap[n]
    BY DEF HeapGrows
  <2>4. \A n \in 1 .. Len(heap') : heap'[n].type = "IFSTAT" \/ n \in K1 \cup S1 \cup W1
    BY <1>4, <2>1, <2>2, <2>3
  <2> QED BY <1>1, <2>4 DEF NoneLost
<1> QED BY <1>6, <1>7 DEF OwnInv

(* A step that changes no heap and no statement.                           *)
LEMMA OwnSame ==
  ASSUME NEW V, ParserInv(V), OwnInv, heap' = heap, root' = root,
         LocalsOnce(frames'), LocSet(frames') \cap ResSet(ctl') = {},
         Working(frames', ctl') \subseteq Working(frames, ctl),
         \/ fault' # "none"
         \/ Doomed(frames', ctl')
         \/ /\ fault = "none" /\ ~Doomed(frames, ctl)
            /\ Working(frames, ctl) \subseteq Working(frames', ctl')
  PROVE  OwnInv'
<1>1. HeapGrows(V)
  BY HeapSame
<1>2. KidsOnce(heap') /\ Once(root')
  BY DEF OwnInv, Sole
<1> QED BY <1>1, <1>2, OwnStep

(* Between two statements nobody works on a node.                          *)
LEMMA NothingWorking ==
  ASSUME frames = <<>>, ctl.go # "ret"
  PROVE  LocSet(frames) = {} /\ Working(frames, ctl) = {} /\ ~Doomed(frames, ctl)
BY DEF LocSet, ResSet, Working, Doomed, DoomedFrames

(* The step NextStatement keeps the owners.                                *)
LEMMA NextStatementOwn ==
  ASSUME NEW V, ParserInv(V), OwnInv, NextStatement
  PROVE  OwnInv'
<1>1. /\ fault = "none" /\ frames = <<>> /\ frames' = frames /\ ctl.go # "ret"
      /\ heap' = heap /\ root' = root
      /\ ctl'.go # "ret"
  BY DEF NextStatement, Running, ParserInv, CallStack, Enter
<1>2. Working(frames, ctl) = {} /\ LocSet(frames) = {} /\ ~Doomed(frames, ctl)
  BY <1>1, NothingWorking
<1>3. Working(frames', ctl') = {} /\ ResSet(ctl') = {}
  BY <1>1, <1>2 DEF Working, ResSet
<1>4. LocalsOnce(frames')
  BY <1>1 DEF OwnInv, Sole
<1> QED BY <1>1, <1>2, <1>3, <1>4, OwnSame

(* The step EnterWrite keeps the owners.                                   *)
LEMMA EnterWriteOwn ==
  ASSUME NEW V, ParserInv(V), OwnInv, EnterWrite
  PROVE  OwnInv'
<1>1. /\ fault = "none" /\ frames = <<>> /\ ctl.go # "ret"
      /\ heap' = heap /\ root' = root
      /\ frames' = Append(frames, Frame("write", NULL, "WRITE"))
      /\ ctl'.go # "ret"
  BY DEF EnterWrite, Running, ParserInv, CallStack, Enter
<1>2. Working(frames, ctl) = {} /\ LocSet(frames) = {} /\ ~Doomed(frames, ctl)
  BY <1>1, NothingWorking
<1>3. frames \in Seq({Frame("write", NULL, "WRITE")})
  BY <1>1
<1>4. LocSet(frames') = {} /\ LocalsOnce(frames')
  <2>1. LocalsOnce(frames)
    BY DEF OwnInv, Sole
  <2>2. Frame("write", NULL, "WRITE").left = NULL
    BY DEF Frame
  <2> QED BY <1>1, <1>2, <1>3, <2>1, <2>2, PushLocal
<1>5. Working(frames', ctl') = {} /\ ResSet(ctl') = {}
  BY <1>1, <1>4 DEF Working, ResSet
<1> QED BY <1>1, <1>2, <1>4, <1>5, OwnSame

(* The step EnterPlus keeps the owners.                                    *)
LEMMA EnterPlusOwn ==
  ASSUME NEW V, ParserInv(V), OwnInv, EnterPlus
  PROVE  OwnInv'
<1> DEFINE f == Frame("plus0", NULL, "PLUS")
<1>1. /\ fault = "none" /\ ctl.go # "ret"
      /\ heap' = heap /\ root' = root
      /\ frames' = Append(frames, f)
      /\ ctl'.go # "ret"
  BY DEF EnterPlus, Running, Enter
<1>2. f.left = NULL /\ f.at \notin Keeps
  BY DEF Frame, Keeps
<1>3. frames \in Seq(FrameRecord(heap) \cup {f}) /\ f \in FrameRecord(heap) \cup {f}
  <2>1. frames \in Seq(FrameRecord(heap))
    BY DEF ParserInv, ParserTypes
  <2> HIDE DEF f
  <2> QED BY <2>1, SeqMonotonic
<1> HIDE DEF f
<1>4. LocalsOnce(frames)
  BY DEF OwnInv, Sole
<1>5. NULL \notin LocSet(frames)
  BY DEF LocSet
<1>6. /\ LocSet(frames') = LocSet(frames) /\ LocalsOnce(frames')
      /\ DoomedFrames(frames') <=> DoomedFrames(frames)
  <2>1. PICK S : frames \in Seq(S) /\ f \in S
    BY <1>3
  <2>2. /\ LocSet(Append(frames, f)) = LocSet(frames) \cup ({f.left} \ {NULL})
        /\ LocalsOnce(frames) /\ f.left \notin LocSet(frames) /\ f.left = NULL
             => LocalsOnce(Append(frames, f))
        /\ DoomedFrames(Append(frames, f)) <=>
             DoomedFrames(frames) \/ (f.at \in Keeps /\ f.left = NULL)
    BY <2>1, PushLocal
  <2> QED BY <1>1, <1>2, <1>4, <1>5, <2>2
<1>7. ResSet(ctl) = {} /\ ResSet(ctl') = {}
  BY <1>1 DEF ResSet
<1>8. Working(frames', ctl') = Working(frames, ctl)
  BY <1>6, <1>7 DEF Working
<1>9. Doomed(frames', ctl') <=> Doomed(frames, ctl)
  BY <1>1, <1>6 DEF Doomed
<1> QED BY <1>1, <1>6, <1>7, <1>8, <1>9, OwnSame

(* The step EnterExpression keeps the owners: the node of an "if" has none *)
(* and makes none.                                                         *)
LEMMA EnterExpressionOwn ==
  ASSUME NEW V, ParserInv(V), OwnInv, EnterExpression
  PROVE  OwnInv'
<1> DEFINE f == Frame("expr", NULL, "ASSIGN")
<1>1. /\ fault = "none" /\ frames = <<>> /\ ctl.go # "ret"
      /\ root' = root
      /\ frames' = Append(frames, f)
      /\ ctl'.go # "ret"
  BY DEF EnterExpression, Running, ParserInv, CallStack, Enter
<1>2. f.left = NULL /\ frames \in Seq({f})
  BY <1>1 DEF Frame
<1> HIDE DEF f
<1>3. Working(frames, ctl) = {} /\ LocSet(frames) = {} /\ ~Doomed(frames, ctl)
  BY <1>1, NothingWorking
<1>4. LocSet(frames') = {} /\ LocalsOnce(frames')
  <2>1. LocalsOnce(frames)
    BY DEF OwnInv, Sole
  <2>2. PICK S : frames \in Seq(S) /\ f \in S
    BY <1>2
  <2>3. /\ LocSet(Append(frames, f)) = LocSet(frames) \cup ({f.left} \ {NULL})
        /\ LocalsOnce(frames) /\ f.left \notin LocSet(frames) /\ f.left = NULL
             => LocalsOnce(Append(frames, f))
    BY <2>2, PushLocal
  <2> QED BY <1>1, <1>2, <1>3, <2>1, <2>3
<1>5. Working(frames', ctl') = {} /\ ResSet(ctl') = {}
  BY <1>1, <1>4 DEF Working, ResSet
<1>6. CASE IsSpecial(Current, {"kwif"})
  <2> DEFINE node == NewNode("IFSTAT", NoVal, <<>>)
  <2>1. Allocate(node)
    BY <1>6 DEF EnterExpression
  <2>2. "IFSTAT" \in BuiltTypes /\ <<>> \in Seq(Nat)
    BY DEF NodeTypes, BuiltTypes
  <2>3. /\ node \in NodeRecord(V) /\ HeapGrows(V) /\ Len(heap') = Len(heap) + 1
        /\ heap'[Fresh].type = "IFSTAT"
    BY <2>1, <2>2, NewNodeFacts DEF ParserInv
  <2>4. node.kids = <<>>
    BY DEF NewNode
  <2> HIDE DEF node
  <2>5. {node.kids[i] : i \in DOMAIN node.kids} = {}
    BY <2>4
  <2>6. KidSet(heap') = KidSet(heap) \cup {} /\ KidsOnce(heap')
    <3>1. KidsOnce(heap) /\ (\A i, j \in DOMAIN node.kids : node.kids[i] = node.kids[j] => i = j)
      BY <2>4 DEF OwnInv, Sole
    <3>2. PICK N : N = {node.kids[i] : i \in DOMAIN node.kids}
      OBVIOUS
    <3>3. /\ KidSet(heap') = KidSet(heap) \cup N
          /\ KidsOnce(heap) /\ N \cap KidSet(heap) = {}
               /\ (\A i, j \in DOMAIN node.kids : node.kids[i] = node.kids[j] => i = j)
             => KidsOnce(heap')
      BY <2>1, <2>3, <3>2, AllocateKids
    <3> QED BY <2>5, <3>1, <3>2, <3>3
  <2>7. \A n \in 1 .. Len(heap') : n \in 1 .. Len(heap) \/ heap'[n].type = "IFSTAT"
    BY <2>3 DEF HeapGrows, Fresh
  <2>8. Once(root') /\ StmSet(root') = StmSet(root) \cup {}
    BY <1>1 DEF OwnInv, Sole
  <2> QED BY <1>1, <1>3, <1>4, <1>5, <2>3, <2>6, <2>7, <2>8, OwnStep
<1>7. CASE ~IsSpecial(Current, {"kwif"})
  <2>1. heap' = heap
    BY <1>7 DEF EnterExpression
  <2> QED BY <1>1, <1>3, <1>4, <1>5, <2>1, OwnSame
<1> QED BY <1>6, <1>7

(* The step AddStatement keeps the owners.                                 *)
LEMMA AddStatementOwn ==
  ASSUME NEW V, ParserInv(V), OwnInv, AddStatement
  PROVE  OwnInv'
<1>1. /\ fault = "none" /\ ctl.go = "ret" /\ frames = <<>> /\ frames' = frames
      /\ heap' = heap
  BY DEF AddStatement, Running
<1>2. LocSet(frames) = {} /\ ~DoomedFrames(frames) /\ LocalsOnce(frames')
  BY <1>1 DEF LocSet, DoomedFrames, LocalsOnce
<1>3. CASE ctl.arg = NULL
  <2>1. fault' = "null dereference" /\ root' = root /\ ctl' = ctl
    BY <1>3 DEF AddStatement
  <2> QED BY <1>1, <1>2, <2>1, OwnSame
<1>4. CASE ctl.arg # NULL
  <2>1. root' = Append(root, ctl.arg) /\ ctl' = Enter("text") /\ fault' = fault
    BY <1>4 DEF AddStatement
  <2>2. Working(frames, ctl) = {ctl.arg} /\ ~Doomed(frames, ctl)
    BY <1>1, <1>2, <1>4 DEF Working, ResSet, Doomed
  <2>3. Working(frames', ctl') = {} /\ ResSet(ctl') = {}
    BY <1>1, <1>2, <2>1 DEF Working, ResSet, Enter
  <2>4. ctl.arg \notin StmSet(root) /\ Once(root) /\ KidsOnce(heap')
    BY <1>1, <2>2 DEF OwnInv, Sole
  <2>5. StmSet(root') = StmSet(root) \cup {ctl.arg} /\ Once(root')
    <3>1. root \in Seq(Nodes \cup {ctl.arg})
      <4>1. root \in Seq(Nodes)
        BY DEF ParserInv, ParserTypes
      <4> QED BY <4>1, SeqMonotonic
    <3>2. /\ Len(root') = Len(root) + 1 /\ Len(root) \in Nat
          /\ \A i \in 1 .. Len(root) : root'[i] = root[i]
          /\ root'[Len(root) + 1] = ctl.arg
      BY <2>1, <3>1, AppendFacts
    <3>3. \A k : k \in 1 .. Len(root') <=> k \in 1 .. Len(root) \/ k = Len(root) + 1
      BY <3>2
    <3>4. Len(root) + 1 \notin 1 .. Len(root)
      BY <3>2
    <3>5. StmSet(root') = StmSet(root) \cup {ctl.arg}
      BY <3>2, <3>3 DEF StmSet
    <3>6. Once(root')
      BY <2>4, <3>2, <3>3, <3>4 DEF Once, StmSet
    <3> QED BY <3>5, <3>6
  <2>6. HeapGrows(V)
    BY <1>1, HeapSame
  <2>7. KidSet(heap') = KidSet(heap) \cup {}
    BY <1>1
  <2>8. \A n \in 1 .. Len(heap') : n \in 1 .. Len(heap)
    BY <1>1
  <2> QED BY <1>1, <1>2, <2>2, <2>3, <2>4, <2>5, <2>6, <2>7, <2>8, OwnStep
<1> QED BY <1>3, <1>4

(* The state in which a call returns: what it returns and what the call    *)
(* below keeps are two nodes, and no others are worked on but those of the *)
(* calls further down.                                                     *)
LEMMA ReturnOwn ==
  ASSUME NEW V, ParserInv(V), OwnInv, NEW S, Returning(S)
  PROVE  /\ fault = "none" /\ ctl.go = "ret" /\ Top.at \in S
         /\ frames \in Seq(FrameRecord(heap)) /\ Front(frames) \in Seq(FrameRecord(heap))
         /\ LocalsOnce(Front(frames)) /\ Top.left \notin LocSet(Front(frames))
         /\ Top.at \notin Keeps => Top.left = NULL
         /\ ctl.arg # NULL => ctl.arg \notin LocSet(Front(frames)) /\ ctl.arg # Top.left
         /\ Working(frames, ctl) = LocSet(Front(frames)) \cup ({Top.left, ctl.arg} \ {NULL})
         /\ Doomed(frames, ctl) <=>
              \/ DoomedFrames(Front(frames))
              \/ Top.at \in Keeps /\ Top.left = NULL
              \/ ctl.arg = NULL
         /\ Top.at \in StatFrames => /\ LocSet(Front(frames)) = {}
                                     /\ ~DoomedFrames(Front(frames))
         /\ Len(heap) \in Nat
         /\ KidSet(heap) \cap Working(frames, ctl) = {}
         /\ KidsOnce(heap)
<1>1. fault = "none" /\ ctl.go = "ret" /\ Top.at \in S /\ frames # <<>>
  BY DEF Returning, Running
<1>2. frames \in Seq(FrameRecord(heap)) /\ Front(frames) \in Seq(FrameRecord(heap))
  <2>1. frames \in Seq(FrameRecord(heap))
    BY DEF ParserInv, ParserTypes
  <2> QED BY <1>1, <2>1, FrontFacts
<1>3. /\ LocalsOnce(frames) /\ LocSet(frames) \cap ResSet(ctl) = {}
      /\ KidSet(heap) \cap Working(frames, ctl) = {} /\ KidsOnce(heap)
  BY DEF OwnInv, Sole
<1>4. /\ LocSet(frames) = LocSet(Front(frames)) \cup ({Top.left} \ {NULL})
      /\ LocalsOnce(Front(frames)) /\ Top.left \notin LocSet(Front(frames))
      /\ Top.at \notin Keeps => Top.left = NULL
      /\ DoomedFrames(frames) <=>
           DoomedFrames(Front(frames)) \/ (Top.at \in Keeps /\ Top.left = NULL)
  BY <1>1, <1>2, <1>3, PopLocal DEF Top
<1>5. ResSet(ctl) = {ctl.arg} \ {NULL}
  BY <1>1 DEF ResSet
<1>6. /\ ctl.arg # NULL => ctl.arg \notin LocSet(Front(frames)) /\ ctl.arg # Top.left
      /\ Working(frames, ctl) = LocSet(Front(frames)) \cup ({Top.left, ctl.arg} \ {NULL})
  BY <1>3, <1>4, <1>5 DEF Working
<1>7. Doomed(frames, ctl) <=>
        \/ DoomedFrames(Front(frames))
        \/ Top.at \in Keeps /\ Top.left = NULL
        \/ ctl.arg = NULL
  BY <1>1, <1>4 DEF Doomed
<1>8. ASSUME Top.at \in StatFrames
      PROVE  LocSet(Front(frames)) = {} /\ ~DoomedFrames(Front(frames))
  <2>1. FrameOK(heap, Len(frames), Top) /\ Len(frames) \in Nat \ {0}
    BY TopFrameNow
  <2>2. Len(frames) = 1
    BY <1>8, <2>1 DEF FrameOK
  <2>3. Len(Front(frames)) = 0
    BY <1>1, <1>2, <2>2, FrontFacts
  <2> QED BY <2>3 DEF LocSet, DoomedFrames
<1>9. Len(heap) \in Nat
  BY ArgFacts
<1> QED BY <1>1, <1>2, <1>3, <1>4, <1>6, <1>7, <1>8, <1>9

(* Two different nodes that somebody works on become the children of a new *)
(* one.                                                                    *)
LEMMA AdoptTwo ==
  ASSUME NEW V, ParserInv(V), OwnInv, NEW type \in BuiltTypes,
         NEW a \in 1 .. Len(heap), NEW b \in 1 .. Len(heap), a # b,
         Allocate(NewNode(type, NoVal, <<a, b>>)),
         a \in Working(frames, ctl), b \in Working(frames, ctl)
  PROVE  /\ HeapGrows(V)
         /\ Len(heap') = Len(heap) + 1
         /\ KidSet(heap') = KidSet(heap) \cup {a, b}
         /\ KidsOnce(heap')
<1> DEFINE node == NewNode(type, NoVal, <<a, b>>)
<1>1. <<a, b>> \in Seq(Nat)
  BY OwnedExist
<1>2. node \in NodeRecord(V) /\ HeapGrows(V) /\ Len(heap') = Len(heap) + 1
  BY <1>1, NewNodeFacts DEF ParserInv
<1>3. node.kids = <<a, b>> /\ Allocate(node)
  BY DEF NewNode
<1> HIDE DEF node
<1>4. DOMAIN node.kids = 1 .. 2 /\ node.kids[1] = a /\ node.kids[2] = b
  BY <1>3
<1>5. PICK N : N = {node.kids[i] : i \in DOMAIN node.kids}
  OBVIOUS
<1>6. N = {a, b}
  BY <1>4, <1>5
<1>7. N \cap KidSet(heap) = {} /\ KidsOnce(heap)
  BY <1>6 DEF OwnInv, Sole
<1>8. \A i, j \in DOMAIN node.kids : node.kids[i] = node.kids[j] => i = j
  BY <1>4
<1>9. /\ KidSet(heap') = KidSet(heap) \cup N
      /\ KidsOnce(heap')
  <2>1. /\ KidSet(heap') = KidSet(heap) \cup N
        /\ KidsOnce(heap) /\ N \cap KidSet(heap) = {}
             /\ (\A i, j \in DOMAIN node.kids : node.kids[i] = node.kids[j] => i = j)
           => KidsOnce(heap')
    BY <1>2, <1>3, <1>5, AllocateKids
  <2> QED BY <1>7, <1>8, <2>1
<1> QED BY <1>2, <1>6, <1>9

(* The step FinishWrite keeps the owners.                                  *)
LEMMA FinishWriteOwn ==
  ASSUME NEW V, ParserInv(V), OwnInv, FinishWrite
  PROVE  OwnInv'
<1>1. Returning({"write"}) /\ root' = root
  BY DEF FinishWrite
<1>2. Top.at = "write" /\ Top.at \in StatFrames /\ Top.at \notin Keeps
  BY <1>1, ReturnOwn DEF StatFrames, Keeps
<1>3. /\ fault = "none" /\ ctl.go = "ret" /\ LocalsOnce(Front(frames))
      /\ LocSet(Front(frames)) = {} /\ ~DoomedFrames(Front(frames))
      /\ Working(frames, ctl) = {ctl.arg} \ {NULL}
      /\ Doomed(frames, ctl) <=> ctl.arg = NULL
      /\ KidSet(heap) \cap Working(frames, ctl) = {} /\ KidsOnce(heap)
      /\ Len(heap) \in Nat
  BY <1>1, <1>2, ReturnOwn
<1>4. Once(root') /\ StmSet(root') = StmSet(root) \cup {}
  BY <1>1 DEF OwnInv, Sole
<1>5. CASE ctl.arg = NULL
  <2>1. fault' = "null dereference" /\ heap' = heap /\ frames' = frames /\ ctl' = ctl
    BY <1>5 DEF FinishWrite
  <2>2. LocalsOnce(frames') /\ LocSet(frames') \cap ResSet(ctl') = {}
    BY <2>1 DEF OwnInv, Sole
  <2> QED BY <1>1, <2>1, <2>2, OwnSame
<1>6. CASE ctl.arg # NULL
  <2> DEFINE node == NewNode("WRITE", NoVal, <<ctl.arg>>)
  <2>1. Allocate(node) /\ frames' = Front(frames) /\ ctl' = Return(Fresh) /\ fault' = fault
    BY <1>6 DEF FinishWrite
  <2>2. ctl.arg \in 1 .. Len(heap)
    BY <1>6, ArgFacts
  <2>3. "WRITE" \in BuiltTypes /\ <<ctl.arg>> \in Seq(Nat)
    BY <2>2 DEF NodeTypes, BuiltTypes
  <2>4. node \in NodeRecord(V) /\ HeapGrows(V) /\ Len(heap') = Len(heap) + 1
    BY <2>1, <2>3, NewNodeFacts DEF ParserInv
  <2>5. node.kids = <<ctl.arg>>
    BY DEF NewNode
  <2> HIDE DEF node
  <2>6. DOMAIN node.kids = {1} /\ node.kids[1] = ctl.arg
    BY <2>5
  <2>7. PICK N : N = {node.kids[i] : i \in DOMAIN node.kids}
    OBVIOUS
  <2>8. N = {ctl.arg} /\ N \cap KidSet(heap) = {}
    BY <1>3, <1>6, <2>6, <2>7
  <2>9. KidSet(heap') = KidSet(heap) \cup N /\ KidsOnce(heap')
    <3>1. /\ KidSet(heap') = KidSet(heap) \cup N
          /\ KidsOnce(heap) /\ N \cap KidSet(heap) = {}
               /\ (\A i, j \in DOMAIN node.kids : node.kids[i] = node.kids[j] => i = j)
             => KidsOnce(heap')
      BY <2>1, <2>4, <2>7, AllocateKids
    <3>2. \A i, j \in DOMAIN node.kids : node.kids[i] = node.kids[j] => i = j
      BY <2>6
    <3> QED BY <1>3, <2>8, <3>1, <3>2
  <2>10. /\ LocSet(frames') = {} /\ LocalsOnce(frames') /\ ResSet(ctl') = {Fresh}
         /\ Working(frames', ctl') = {Fresh}
    BY <1>3, <2>1 DEF Working, ResSet, Return, Fresh, NULL
  <2>11. \A n \in 1 .. Len(heap') : n \in 1 .. Len(heap) \/ n = Fresh
    BY <1>3, <2>4 DEF Fresh
  <2> QED BY <1>3, <1>4, <1>6, <2>1, <2>4, <2>8, <2>9, <2>10, <2>11,
    OwnStep, SMTT(30)
<1> QED BY <1>5, <1>6

(* The step FinishExpression keeps the owners: an expression with anything *)
(* but "=" or a line end behind it is lost, and dooms its statement.       *)
LEMMA FinishExpressionOwn ==
  ASSUME NEW V, ParserInv(V), OwnInv, FinishExpression
  PROVE  OwnInv'
<1>1. Returning({"expr"}) /\ heap' = heap /\ root' = root
  BY DEF FinishExpression
<1>2. Top.at = "expr" /\ Top.at \in StatFrames /\ Top.at \notin Keeps
  BY <1>1, ReturnOwn DEF StatFrames, Keeps
<1>3. /\ fault = "none" /\ ctl.go = "ret" /\ LocalsOnce(Front(frames))
      /\ Front(frames) \in Seq(FrameRecord(heap))
      /\ LocSet(Front(frames)) = {} /\ ~DoomedFrames(Front(frames))
      /\ Working(frames, ctl) = {ctl.arg} \ {NULL}
      /\ Doomed(frames, ctl) <=> ctl.arg = NULL
  BY <1>1, <1>2, ReturnOwn
<1>4. CASE IsSpecial(Current, {"assign"})
  <2> DEFINE f == Frame("assign", ctl.arg, "ASSIGN")
  <2>1. frames' = Append(Front(frames), f) /\ ctl' = Enter("plus")
    BY <1>4 DEF FinishExpression, IsSpecial
  <2>2. f.left = ctl.arg /\ f.at \in Keeps
    BY DEF Frame, Keeps
  <2> HIDE DEF f
  <2>3. PICK S : Front(frames) \in Seq(S) /\ f \in S
    <3>1. Front(frames) \in Seq(FrameRecord(heap) \cup {f})
      BY <1>3, SeqMonotonic
    <3> QED BY <3>1
  <2>4. PICK base : base = Front(frames)
    OBVIOUS
  <2>5. /\ LocSet(Append(base, f)) = LocSet(base) \cup ({f.left} \ {NULL})
        /\ LocalsOnce(base) /\ f.left \notin LocSet(base) /\ f.at \in Keeps
             => LocalsOnce(Append(base, f))
        /\ DoomedFrames(Append(base, f)) <=>
             DoomedFrames(base) \/ (f.at \in Keeps /\ f.left = NULL)
    BY <2>3, <2>4, PushLocal
  <2>6. /\ LocSet(frames') = {ctl.arg} \ {NULL} /\ LocalsOnce(frames')
        /\ DoomedFrames(frames') <=> ctl.arg = NULL
    BY <1>3, <2>1, <2>2, <2>4, <2>5
  <2>7. ResSet(ctl') = {} /\ ctl'.go # "ret"
    BY <2>1 DEF ResSet, Enter
  <2> QED BY <1>1, <1>3, <2>6, <2>7, OwnSame DEF Working, Doomed
<1>5. CASE ~IsSpecial(Current, {"assign"})
  <2>1. frames' = Front(frames) /\ (ctl' = Return(ctl.arg) \/ ctl' = Return(NULL))
    BY <1>5 DEF FinishExpression
  <2>2. LocSet(frames') = {} /\ LocalsOnce(frames')
    BY <1>3, <2>1
  <2>3. CASE ctl' = Return(ctl.arg)
    <3>1. ResSet(ctl') = {ctl.arg} \ {NULL}
      BY <2>3 DEF ResSet, Return
    <3>2. Doomed(frames', ctl') <=> ctl.arg = NULL
      BY <1>3, <2>1, <2>3 DEF Doomed, Return
    <3> QED BY <1>1, <1>3, <2>2, <3>1, <3>2, OwnSame DEF Working
  <2>4. CASE ctl' = Return(NULL)
    <3>1. ResSet(ctl') = {} /\ Doomed(frames', ctl')
      BY <2>4 DEF ResSet, Return, Doomed
    <3> QED BY <1>1, <2>2, <3>1, OwnSame DEF Working
  <2> QED BY <2>1, <2>3, <2>4
<1> QED BY <1>4, <1>5

(* A binary node takes the operand its call kept and the one returned.     *)
LEMMA AdoptOperands ==
  ASSUME NEW V, ParserInv(V), OwnInv, NEW S, Returning(S), NEW type \in BuiltTypes,
         Top.left # NULL, ctl.arg # NULL,
         Allocate(NewNode(type, NoVal, <<Top.left, ctl.arg>>))
  PROVE  /\ HeapGrows(V)
         /\ Len(heap') = Len(heap) + 1
         /\ KidSet(heap') = KidSet(heap) \cup {Top.left, ctl.arg}
         /\ KidsOnce(heap')
         /\ \A n \in 1 .. Len(heap') : n \in 1 .. Len(heap) \/ n = Fresh
<1>1. Working(frames, ctl) \subseteq 1 .. Len(heap) /\ Len(heap) \in Nat
  BY OwnedExist
<1>2. /\ Working(frames, ctl) = LocSet(Front(frames)) \cup ({Top.left, ctl.arg} \ {NULL})
      /\ ctl.arg # NULL => ctl.arg # Top.left
  BY ReturnOwn
<1>3. PICK a, b : a = Top.left /\ b = ctl.arg
  OBVIOUS
<1>4. /\ a \in Working(frames, ctl) /\ b \in Working(frames, ctl) /\ a # b
      /\ a \in 1 .. Len(heap) /\ b \in 1 .. Len(heap)
  BY <1>1, <1>2, <1>3
<1>5. Allocate(NewNode(type, NoVal, <<a, b>>))
  BY <1>3
<1>6. /\ HeapGrows(V) /\ Len(heap') = Len(heap) + 1
      /\ KidSet(heap') = KidSet(heap) \cup {a, b} /\ KidsOnce(heap')
  BY <1>4, <1>5, AdoptTwo
<1>7. \A n \in 1 .. Len(heap') : n \in 1 .. Len(heap) \/ n = Fresh
  BY <1>1, <1>6 DEF Fresh
<1> QED BY <1>3, <1>6, <1>7

(* The step FinishAssign keeps the owners.                                 *)
LEMMA FinishAssignOwn ==
  ASSUME NEW V, ParserInv(V), OwnInv, FinishAssign
  PROVE  OwnInv'
<1>1. Returning({"assign"}) /\ root' = root /\ frames' = Front(frames) /\ fault' = fault
  BY DEF FinishAssign
<1>2. Top.at = "assign" /\ Top.at \in StatFrames /\ Top.at \in Keeps
  BY <1>1, ReturnOwn DEF StatFrames, Keeps
<1>3. /\ fault = "none" /\ ctl.go = "ret" /\ LocalsOnce(frames')
      /\ LocSet(frames') = {}
      /\ Working(frames, ctl) = {Top.left, ctl.arg} \ {NULL}
      /\ Doomed(frames, ctl) <=> Top.left = NULL \/ ctl.arg = NULL
      /\ Len(heap) \in Nat
  BY <1>1, <1>2, ReturnOwn
<1>4. CASE Top.left = NULL \/ ctl.arg = NULL
  <2>1. ctl' = Return(NULL) /\ heap' = heap
    BY <1>4 DEF FinishAssign
  <2>2. ResSet(ctl') = {} /\ Doomed(frames', ctl')
    BY <2>1 DEF ResSet, Return, Doomed
  <2>3. Working(frames', ctl') \subseteq Working(frames, ctl)
    BY <1>3, <2>2 DEF Working
  <2> QED BY <1>1, <1>3, <2>1, <2>2, <2>3, OwnSame
<1>5. CASE ~(Top.left = NULL \/ ctl.arg = NULL)
  <2>1. Allocate(NewNode("ASSIGN", NoVal, <<Top.left, ctl.arg>>)) /\ ctl' = Return(Fresh)
    BY <1>5 DEF FinishAssign
  <2>2. "ASSIGN" \in BuiltTypes
    BY DEF NodeTypes, BuiltTypes
  <2>3. PICK N : N = {Top.left, ctl.arg}
    OBVIOUS
  <2>4. /\ HeapGrows(V) /\ KidSet(heap') = KidSet(heap) \cup N /\ KidsOnce(heap')
        /\ \A n \in 1 .. Len(heap') : n \in 1 .. Len(heap) \/ n = Fresh
    BY <1>1, <1>5, <2>1, <2>2, <2>3, AdoptOperands
  <2>5. ResSet(ctl') = {Fresh} /\ Working(frames', ctl') = {Fresh}
    BY <1>3, <2>1 DEF Working, ResSet, Return, Fresh, NULL
  <2>6. N \subseteq Working(frames, ctl) /\ ~Doomed(frames, ctl) /\ Working(frames, ctl) \subseteq N
    BY <1>3, <1>5, <2>3
  <2>7. Once(root') /\ StmSet(root') = StmSet(root) \cup {}
    BY <1>1 DEF OwnInv, Sole
  <2>8. /\ N \cup {} \subseteq Working(frames, ctl) /\ N \cap {} = {}
        /\ Working(frames', ctl') \subseteq (Working(frames, ctl) \ (N \cup {})) \cup {Fresh}
        /\ Working(frames, ctl) \subseteq Working(frames', ctl') \cup N \cup {}
        /\ Fresh \in Working(frames', ctl') /\ LocSet(frames') \cap ResSet(ctl') = {}
    BY <1>3, <2>5, <2>6
  <2>9. /\ fault = "none" /\ ~Doomed(frames, ctl)
        /\ Working(frames, ctl) \subseteq Working(frames', ctl') \cup N \cup {}
        /\ \A n \in 1 .. Len(heap') :
             \/ n \in 1 .. Len(heap)
             \/ n \in Working(frames', ctl')
             \/ heap'[n].type = "IFSTAT"
    BY <1>3, <2>4, <2>6, <2>8
  <2>10. KidsOnce(heap') /\ Once(root') /\ LocalsOnce(frames')
    BY <1>3, <2>4, <2>7
  <2>11. KidSet(heap') = KidSet(heap) \cup N /\ HeapGrows(V)
    BY <2>4
  <2> QED BY <2>7, <2>8, <2>9, <2>10, <2>11, OwnStep
<1> QED BY <1>4, <1>5

(* The step EnterMult keeps the owners: a leaf is worked on as soon as it  *)
(* exists, and a lexem that makes none dooms the statement.                *)
LEMMA EnterMultOwn ==
  ASSUME NEW V, ParserInv(V), OwnInv, EnterMult
  PROVE  OwnInv'
<1>1. fault = "none" /\ fault' = fault /\ ctl.go = "mult" /\ root' = root
  BY DEF EnterMult, Running
<1>2. /\ frames \in Seq(FrameRecord(heap)) /\ LocalsOnce(frames)
      /\ KidsOnce(heap) /\ Once(root') /\ StmSet(root') = StmSet(root) \cup {}
  BY <1>1 DEF ParserInv, ParserTypes, OwnInv, Sole
<1>3. /\ Working(frames, ctl) = LocSet(frames)
      /\ Doomed(frames, ctl) <=> DoomedFrames(frames)
  BY <1>1 DEF Working, ResSet, Doomed
<1>4. Len(heap) \in Nat /\ LocSet(frames) \subseteq 1 .. Len(heap)
  BY <1>3, OwnedExist
<1>5. CASE LeafType(Current) = "none"
  <2>1. LoopTest("mult", frames, NULL, currlexem + 1) /\ heap' = heap
    BY <1>5 DEF EnterMult
  <2>2. NULL \notin LocSet(frames)
    BY DEF LocSet
  <2>3. /\ LocalsOnce(frames') /\ LocSet(frames') \cap ResSet(ctl') = {}
        /\ Working(frames', ctl') = LocSet(frames) \cup ({NULL} \ {NULL})
        /\ DoomedFrames(frames) \/ NULL = NULL => Doomed(frames', ctl')
    BY <1>2, <2>1, <2>2, LoopTestOwn
  <2>4. Working(frames', ctl') \subseteq Working(frames, ctl)
    BY <1>3, <2>3
  <2> QED BY <1>1, <2>1, <2>3, <2>4, OwnSame
<1>6. CASE LeafType(Current) # "none"
  <2> DEFINE node == NewNode(LeafType(Current), Current.val, <<>>)
  <2>1. LoopTest("mult", frames, Fresh, currlexem + 1) /\ Allocate(node)
    BY <1>6 DEF EnterMult
  <2>2. LeafType(Current) \in BuiltTypes /\ <<>> \in Seq(Nat) /\ Current.val \in V \cup {NoVal}
    <3>1. LeafType(Current) \in {"NAME", "NUMLIT", "INTEGERLIT"}
      BY <1>6 DEF LeafType
    <3>2. LeafType(Current) \in BuiltTypes
      BY <3>1 DEF BuiltTypes, NodeTypes, Tops, Literals
    <3>3. Current.val \in V \cup {NoVal}
      <4>1. currlexem \in Nat /\ (\A pos \in Nat : LexemAt(pos).val \in V \cup {NoVal})
        BY DEF ParserInv, ParserTypes
      <4> QED BY <4>1 DEF Current
    <3> QED BY <3>2, <3>3
  <2>3. node \in NodeRecord(V) /\ HeapGrows(V) /\ Len(heap') = Len(heap) + 1
    BY <2>1, <2>2, NewNodeFacts DEF ParserInv
  <2>4. node.kids = <<>>
    BY DEF NewNode
  <2> HIDE DEF node
  <2>5. KidSet(heap') = KidSet(heap) \cup {} /\ KidsOnce(heap')
    <3>1. PICK N : N = {node.kids[i] : i \in DOMAIN node.kids}
      OBVIOUS
    <3>2. /\ KidSet(heap') = KidSet(heap) \cup N
          /\ KidsOnce(heap) /\ N \cap KidSet(heap) = {}
               /\ (\A i, j \in DOMAIN node.kids : node.kids[i] = node.kids[j] => i = j)
             => KidsOnce(heap')
      BY <2>1, <2>3, <3>1, AllocateKids
    <3>3. N = {} /\ (\A i, j \in DOMAIN node.kids : node.kids[i] = node.kids[j] => i = j)
      BY <2>4, <3>1
    <3> QED BY <1>2, <3>2, <3>3
  <2>6. Fresh \notin LocSet(frames) /\ Fresh # NULL
    BY <1>4 DEF Fresh, NULL
  <2>7. /\ LocalsOnce(frames') /\ LocSet(frames') \cap ResSet(ctl') = {}
        /\ Working(frames', ctl') = LocSet(frames) \cup ({Fresh} \ {NULL})
        /\ DoomedFrames(frames) \/ Fresh = NULL => Doomed(frames', ctl')
    BY <1>2, <2>1, <2>6, LoopTestOwn
  <2>8. Working(frames', ctl') = Working(frames, ctl) \cup {Fresh}
    BY <1>3, <2>6, <2>7
  <2>9. \A n \in 1 .. Len(heap') : n \in 1 .. Len(heap) \/ n = Fresh
    BY <1>4, <2>3 DEF Fresh
  <2> QED BY <1>1, <1>2, <1>3, <2>3, <2>5, <2>7, <2>8, <2>9, OwnStep
<1> QED BY <1>5, <1>6

(* The step FirstOperand keeps the owners: the operand stays with          *)
(* astparse_plus or is what it returns.                                    *)
LEMMA FirstOperandOwn ==
  ASSUME NEW V, ParserInv(V), OwnInv, FirstOperand
  PROVE  OwnInv'
<1>1. Returning({"plus0"}) /\ heap' = heap /\ root' = root /\ fault' = fault
      /\ LoopTest("plus", Front(frames), ctl.arg, currlexem)
  BY DEF FirstOperand
<1>2. Top.at = "plus0" /\ Top.at \notin Keeps
  BY <1>1, ReturnOwn DEF Keeps
<1>3. /\ fault = "none" /\ ctl.go = "ret" /\ LocalsOnce(Front(frames))
      /\ Front(frames) \in Seq(FrameRecord(heap))
      /\ Top.left = NULL
      /\ ctl.arg # NULL => ctl.arg \notin LocSet(Front(frames))
      /\ Working(frames, ctl) = LocSet(Front(frames)) \cup ({Top.left, ctl.arg} \ {NULL})
      /\ Doomed(frames, ctl) <=> DoomedFrames(Front(frames)) \/ ctl.arg = NULL
  BY <1>1, <1>2, ReturnOwn
<1>4. ctl.arg \notin LocSet(Front(frames))
  BY <1>3 DEF LocSet
<1>5. /\ LocalsOnce(frames') /\ LocSet(frames') \cap ResSet(ctl') = {}
      /\ Working(frames', ctl') = LocSet(Front(frames)) \cup ({ctl.arg} \ {NULL})
      /\ DoomedFrames(Front(frames)) \/ ctl.arg = NULL => Doomed(frames', ctl')
  BY <1>1, <1>3, <1>4, LoopTestOwn
<1>6. Working(frames', ctl') = Working(frames, ctl)
  BY <1>3, <1>5
<1> QED BY <1>1, <1>3, <1>5, <1>6, OwnSame

(* The step RightOperand keeps the owners.                                 *)
LEMMA RightOperandOwn ==
  ASSUME NEW V, ParserInv(V), OwnInv, NEW level \in {"mult", "plus"}, RightOperand(level)
  PROVE  OwnInv'
<1>1. Returning({level}) /\ root' = root /\ fault' = fault
  BY DEF RightOperand
<1>2. Top.at = level /\ Top.at \in Keeps
  BY <1>1, ReturnOwn DEF Keeps
<1>3. /\ fault = "none" /\ ctl.go = "ret" /\ LocalsOnce(Front(frames))
      /\ Front(frames) \in Seq(FrameRecord(heap))
      /\ Top.left \notin LocSet(Front(frames))
      /\ ctl.arg # NULL => ctl.arg \notin LocSet(Front(frames)) /\ ctl.arg # Top.left
      /\ Working(frames, ctl) = LocSet(Front(frames)) \cup ({Top.left, ctl.arg} \ {NULL})
      /\ Doomed(frames, ctl) <=>
           DoomedFrames(Front(frames)) \/ Top.left = NULL \/ ctl.arg = NULL
      /\ Len(heap) \in Nat
  BY <1>1, <1>2, ReturnOwn
<1>4. CASE Top.left = NULL \/ ctl.arg = NULL
  <2>1. ctl' = Return(NULL) /\ heap' = heap /\ frames' = Front(frames)
    BY <1>4 DEF RightOperand
  <2>2. ResSet(ctl') = {} /\ Doomed(frames', ctl')
    BY <2>1 DEF ResSet, Return, Doomed
  <2>3. Working(frames', ctl') \subseteq Working(frames, ctl) /\ LocalsOnce(frames')
    BY <1>3, <2>1, <2>2 DEF Working
  <2> QED BY <1>1, <1>3, <2>1, <2>2, <2>3, OwnSame
<1>5. CASE ~(Top.left = NULL \/ ctl.arg = NULL)
  <2>1. /\ Allocate(NewNode(Top.type, NoVal, <<Top.left, ctl.arg>>))
        /\ LoopTest(level, Front(frames), Fresh, currlexem)
    BY <1>5 DEF RightOperand
  <2>2. Top.type \in BuiltTypes
    <3>1. Last(frames) \in FrameRecord(heap)
      <4>1. frames \in Seq(FrameRecord(heap)) /\ frames # <<>>
        BY <1>1 DEF ParserInv, ParserTypes, Returning
      <4> QED BY <4>1, FrontFacts
    <3> QED BY <3>1 DEF Top, FrameRecord, BuiltTypes, NodeTypes, Arithmetic, Additive, Multiplicative
  <2>3. PICK N : N = {Top.left, ctl.arg}
    OBVIOUS
  <2>4. /\ HeapGrows(V) /\ KidSet(heap') = KidSet(heap) \cup N /\ KidsOnce(heap')
        /\ \A n \in 1 .. Len(heap') : n \in 1 .. Len(heap) \/ n = Fresh
    BY <1>1, <1>5, <2>1, <2>2, <2>3, AdoptOperands
  <2>5. PICK L : L = LocSet(Front(frames))
    OBVIOUS
  <2>6. Fresh \notin L /\ Fresh # NULL
    <3>1. Working(frames, ctl) \subseteq 1 .. Len(heap)
      BY OwnedExist
    <3>2. L \subseteq 1 .. Len(heap)
      BY <1>3, <2>5, <3>1
    <3> QED BY <1>3, <3>2 DEF Fresh, NULL
  <2>7. /\ LocalsOnce(frames') /\ LocSet(frames') \cap ResSet(ctl') = {}
        /\ Working(frames', ctl') = L \cup ({Fresh} \ {NULL})
        /\ DoomedFrames(Front(frames)) \/ Fresh = NULL => Doomed(frames', ctl')
    BY <1>3, <2>1, <2>5, <2>6, LoopTestOwn
  <2>8. Working(frames', ctl') = L \cup {Fresh}
    BY <2>6, <2>7
  <2>9. /\ Working(frames, ctl) = L \cup N /\ L \cap N = {}
        /\ Doomed(frames, ctl) <=> DoomedFrames(Front(frames))
    BY <1>3, <1>5, <2>3, <2>5
  <2>10. /\ N \cup {} \subseteq Working(frames, ctl)
         /\ Working(frames', ctl') \subseteq (Working(frames, ctl) \ (N \cup {})) \cup {Fresh}
         /\ Working(frames, ctl) \subseteq Working(frames', ctl') \cup N \cup {}
         /\ Fresh \in Working(frames', ctl')
    BY <2>8, <2>9
  <2>11. Once(root') /\ StmSet(root') = StmSet(root) \cup {}
    BY <1>1 DEF OwnInv, Sole
  <2>12. \/ Doomed(frames', ctl')
         \/ /\ fault = "none" /\ ~Doomed(frames, ctl)
            /\ Working(frames, ctl) \subseteq Working(frames', ctl') \cup N \cup {}
            /\ \A n \in 1 .. Len(heap') : n \in 1 .. Len(heap) \/ n \in Working(frames', ctl')
    BY <1>3, <2>4, <2>7, <2>9, <2>10
  <2>13. N \cap {} = {}
    OBVIOUS
  <2> QED BY <1>1, <2>4, <2>7, <2>10, <2>11, <2>12, <2>13, OwnStep
<1> QED BY <1>4, <1>5

(* Every step of the parser keeps the owners.                              *)
LEMMA OwnStepInv ==
  ASSUME NEW V, ParserInv(V), OwnInv, ParserStep
  PROVE  OwnInv'
BY NextStatementOwn, AddStatementOwn, EnterWriteOwn, EnterExpressionOwn,
   FinishWriteOwn, FinishExpressionOwn, FinishAssignOwn, EnterPlusOwn,
   EnterMultOwn, FirstOperandOwn, RightOperandOwn DEF ParserStep

(* What leaves the tree, the statements and the calls alone keeps them.    *)
LEMMA OwnStutters ==
  ASSUME OwnInv, UNCHANGED parserVars
  PROVE  OwnInv'
<1>1. heap' = heap /\ root' = root /\ frames' = frames /\ ctl' = ctl /\ fault' = fault
  BY DEF parserVars
<1> QED BY <1>1 DEF OwnInv, Sole, NoneLost

(* Before the first node there is nothing to own.                          *)
LEMMA EmptyOwnInv ==
  ASSUME heap = <<>>, root = <<>>, frames = <<>>, ctl = Enter("text")
  PROVE  OwnInv
<1>1. KidSet(heap) = {} /\ StmSet(root) = {} /\ LocSet(frames) = {} /\ ResSet(ctl) = {}
  BY DEF KidSet, StmSet, LocSet, ResSet, Enter
<1>2. KidsOnce(heap) /\ Once(root) /\ LocalsOnce(frames) /\ NoneLost(heap, root, frames, ctl)
  BY DEF KidsOnce, Once, LocalsOnce, NoneLost
<1> QED BY <1>1, <1>2 DEF OwnInv, Sole, Working

(***************************************************************************)
(* From the sets to the pointers.                                          *)
(***************************************************************************)

(* The pointers, one kind at a time.                                       *)
LEMMA PointerTags ==
  ASSUME NEW p
  PROVE  p \in Pointers <=>
           \/ \E n \in Nodes : \E i \in DOMAIN heap[n].kids : p = <<"child", n, i>>
           \/ \E i \in DOMAIN root : p = <<"statement", i, 0>>
           \/ \E k \in DOMAIN frames : p = <<"local", k, 0>>
           \/ ctl.go = "ret" /\ p = <<"result", 0, 0>>
<1>1. ASSUME NEW n \in Nodes
      PROVE  p \in {<<"child", n, i>> : i \in DOMAIN heap[n].kids} <=>
               \E i \in DOMAIN heap[n].kids : p = <<"child", n, i>>
  OBVIOUS
<1>2. p \in UNION {{<<"child", n, i>> : i \in DOMAIN heap[n].kids} : n \in Nodes} <=>
        \E n \in Nodes : p \in {<<"child", n, i>> : i \in DOMAIN heap[n].kids}
  BY Zenon
<1>3. p \in {<<"statement", i, 0>> : i \in DOMAIN root} <=>
        \E i \in DOMAIN root : p = <<"statement", i, 0>>
  OBVIOUS
<1>4. p \in {<<"local", k, 0>> : k \in DOMAIN frames} <=>
        \E k \in DOMAIN frames : p = <<"local", k, 0>>
  OBVIOUS
<1>5. p \in (IF ctl.go = "ret" THEN {<<"result", 0, 0>>} ELSE {}) <=>
        ctl.go = "ret" /\ p = <<"result", 0, 0>>
  OBVIOUS
<1>6. p \in Pointers <=>
        \/ p \in (UNION {{<<"child", n, i>> : i \in DOMAIN heap[n].kids} : n \in Nodes})
        \/ p \in {<<"statement", i, 0>> : i \in DOMAIN root}
        \/ p \in {<<"local", k, 0>> : k \in DOMAIN frames}
        \/ p \in (IF ctl.go = "ret" THEN {<<"result", 0, 0>>} ELSE {})
  <2> DEFINE A == UNION {{<<"child", n, i>> : i \in DOMAIN heap[n].kids} : n \in Nodes}
             B == {<<"statement", i, 0>> : i \in DOMAIN root}
             C == {<<"local", k, 0>> : k \in DOMAIN frames}
             D == IF ctl.go = "ret" THEN {<<"result", 0, 0>>} ELSE {}
  <2>1. Pointers = A \cup B \cup C \cup D
    BY Zenon DEF Pointers
  <2> HIDE DEF A, B, C, D
  <2>2. p \in A \cup B \cup C \cup D <=> p \in A \/ p \in B \/ p \in C \/ p \in D
    OBVIOUS
  <2>3. p \in Pointers <=> p \in A \/ p \in B \/ p \in C \/ p \in D
    BY <2>1, <2>2
  <2> QED BY <2>3, Zenon DEF A, B, C, D
<1> QED BY <1>1, <1>2, <1>3, <1>4, <1>5, <1>6

(* The lists of statements and of calls are indexed from 1.                *)
LEMMA ListDomains ==
  ASSUME NEW V, ParserInv(V)
  PROVE  DOMAIN root = 1 .. Len(root) /\ DOMAIN frames = 1 .. Len(frames)
<1>1. root \in Seq(Nodes) /\ frames \in Seq(FrameRecord(heap))
  BY DEF ParserInv, ParserTypes
<1> QED BY <1>1

(* A pointer that is not NULL leads into the set of its kind.              *)
LEMMA PointerKinds ==
  ASSUME NEW V, ParserInv(V), NEW p \in Pointers
  PROVE  \/ /\ p[1] = "child" /\ p[2] \in 1 .. Len(heap) /\ p[3] \in DOMAIN heap[p[2]].kids
            /\ p = <<"child", p[2], p[3]>>
            /\ Target(p) = heap[p[2]].kids[p[3]] /\ Target(p) \in KidSet(heap)
         \/ /\ p[1] = "statement" /\ p[2] \in 1 .. Len(root) /\ p = <<"statement", p[2], 0>>
            /\ Target(p) = root[p[2]] /\ Target(p) \in StmSet(root)
         \/ /\ p[1] = "local" /\ p[2] \in 1 .. Len(frames) /\ p = <<"local", p[2], 0>>
            /\ Target(p) = frames[p[2]].left
            /\ Target(p) # NULL => Target(p) \in LocSet(frames)
         \/ /\ p[1] = "result" /\ p = <<"result", 0, 0>>
            /\ Target(p) = ctl.arg
            /\ Target(p) # NULL => Target(p) \in ResSet(ctl)
<1>1. DOMAIN root = 1 .. Len(root) /\ DOMAIN frames = 1 .. Len(frames)
  BY ListDomains
<1>2. ASSUME NEW n \in Nodes, NEW i \in DOMAIN heap[n].kids, p = <<"child", n, i>>
      PROVE  /\ p[1] = "child" /\ p[2] = n /\ p[3] = i
             /\ Target(p) = heap[n].kids[i] /\ Target(p) \in KidSet(heap)
  <2>1. p[1] = "child" /\ p[2] = n /\ p[3] = i
    BY <1>2
  <2>2. Target(p) = heap[n].kids[i]
    BY <2>1 DEF Target
  <2>3. heap[n].kids[i] \in 1 .. n - 1
    BY DEF ParserInv, TreeShape, WellFormed
  <2>4. heap[n].kids[i] \in Nat
    BY <2>3 DEF Nodes
  <2> QED BY <2>1, <2>2, <2>4 DEF KidSet, Nodes
<1>3. ASSUME NEW i \in 1 .. Len(root), p = <<"statement", i, 0>>
      PROVE  /\ p[1] = "statement" /\ p[2] = i
             /\ Target(p) = root[i] /\ Target(p) \in StmSet(root)
  <2>1. p[1] = "statement" /\ p[2] = i
    BY <1>3
  <2>2. Target(p) = root[i]
    BY <2>1 DEF Target
  <2> QED BY <2>1, <2>2 DEF StmSet
<1>4. ASSUME NEW k \in 1 .. Len(frames), p = <<"local", k, 0>>
      PROVE  /\ p[1] = "local" /\ p[2] = k
             /\ Target(p) = frames[k].left
             /\ Target(p) # NULL => Target(p) \in LocSet(frames)
  <2>1. p[1] = "local" /\ p[2] = k
    BY <1>4
  <2>2. Target(p) = frames[k].left
    BY <2>1 DEF Target
  <2> QED BY <2>1, <2>2 DEF LocSet
<1>5. ASSUME ctl.go = "ret", p = <<"result", 0, 0>>
      PROVE  /\ p[1] = "result" /\ Target(p) = ctl.arg
             /\ Target(p) # NULL => Target(p) \in ResSet(ctl)
  <2>1. p[1] = "result"
    BY <1>5
  <2>2. Target(p) = ctl.arg
    BY <2>1 DEF Target
  <2> QED BY <1>5, <2>1, <2>2 DEF ResSet
<1>6. CASE \E n \in Nodes : \E i \in DOMAIN heap[n].kids : p = <<"child", n, i>>
  BY <1>2, <1>6 DEF Nodes
<1>7. CASE \E i \in 1 .. Len(root) : p = <<"statement", i, 0>>
  BY <1>3, <1>7
<1>8. CASE \E k \in 1 .. Len(frames) : p = <<"local", k, 0>>
  BY <1>4, <1>8
<1>9. CASE ctl.go = "ret" /\ p = <<"result", 0, 0>>
  BY <1>5, <1>9
<1> QED BY <1>1, <1>6, <1>7, <1>8, <1>9, PointerTags

(* Two pointers to one node are one pointer, and the nodes of a finished   *)
(* parse, the nodes of "if" aside, have one.                               *)
LEMMA OwnersAreUnique ==
  ASSUME NEW V, ParserInv(V), OwnInv
  PROVE  Ownership
<1>1. ASSUME NEW p \in Pointers, NEW q \in Pointers, Target(p) = Target(q), Target(p) # NULL
      PROVE  p = q
  <2>1. /\ KidsOnce(heap) /\ Once(root) /\ LocalsOnce(frames)
        /\ KidSet(heap) \cap StmSet(root) = {}
        /\ KidSet(heap) \cap LocSet(frames) = {} /\ KidSet(heap) \cap ResSet(ctl) = {}
        /\ StmSet(root) \cap LocSet(frames) = {} /\ StmSet(root) \cap ResSet(ctl) = {}
        /\ LocSet(frames) \cap ResSet(ctl) = {}
    BY DEF OwnInv, Sole, Working
  <2>2. p[1] = q[1]
    BY <1>1, <2>1, PointerKinds
  <2>3. CASE p[1] = "child"
    BY <1>1, <2>1, <2>2, <2>3, PointerKinds DEF KidsOnce
  <2>4. CASE p[1] = "statement"
    BY <1>1, <2>1, <2>2, <2>4, PointerKinds DEF Once
  <2>5. CASE p[1] = "local"
    BY <1>1, <2>1, <2>2, <2>5, PointerKinds DEF LocalsOnce
  <2>6. CASE p[1] = "result"
    BY <1>1, <2>2, <2>6, PointerKinds
  <2> QED BY <2>3, <2>4, <2>5, <2>6, PointerKinds
<1>2. ASSUME Parsed, NEW n \in Nodes, heap[n].type # "IFSTAT"
      PROVE  \E p \in Pointers : Target(p) = n
  <2>1. frames = <<>> /\ ctl.go # "ret" /\ fault = "none"
    BY <1>2 DEF Parsed, ParserInv, CallStack
  <2>2. NoneLost(heap, root, frames, ctl) /\ Working(frames, ctl) = {}
    BY <2>1, NothingWorking DEF OwnInv
  <2>3. n \in KidSet(heap) \/ n \in StmSet(root)
    BY <1>2, <2>2 DEF NoneLost, Nodes
  <2>4. CASE n \in KidSet(heap)
    <3>1. PICK m \in 1 .. Len(heap) : \E i \in DOMAIN heap[m].kids : heap[m].kids[i] = n
      BY <2>4 DEF KidSet
    <3>2. PICK i \in DOMAIN heap[m].kids : heap[m].kids[i] = n
      BY <3>1
    <3>3. <<"child", m, i>> \in Pointers
      BY PointerTags DEF Nodes
    <3>4. Target(<<"child", m, i>>) = n
      BY <3>2 DEF Target
    <3> QED BY <3>3, <3>4
  <2>5. CASE n \in StmSet(root)
    <3>1. PICK i \in 1 .. Len(root) : root[i] = n
      BY <2>5 DEF StmSet
    <3>2. <<"statement", i, 0>> \in Pointers
      <4>1. i \in DOMAIN root
        BY ListDomains
      <4> QED BY <4>1, PointerTags
    <3>3. Target(<<"statement", i, 0>>) = n
      BY <3>1 DEF Target
    <3> QED BY <3>2, <3>3
  <2> QED BY <2>3, <2>4, <2>5
<1> QED BY <1>1, <1>2 DEF Ownership

(* Every node has one owner at every step of every parse, and a parse that *)
(* ends well has lost none but the nodes of "if".  The owners are          *)
(* inductive only together with the promise that a call which has failed   *)
(* dooms its statement: its nodes are lost, and AddStatement then stops    *)
(* the program on the NULL statement before the parse can end.             *)
THEOREM ParserOwnership == ParserSpec => []Ownership
<1>1. ParserInit => OwnInv
  BY EmptyOwnInv DEF ParserInit
<1>2. ParserInv(Values) /\ OwnInv /\ [ParserNext]_parserVars => OwnInv'
  BY OwnStepInv, OwnStutters DEF ParserNext, ParserDone
<1>3. ParserInv(Values) /\ OwnInv => Ownership
  BY OwnersAreUnique
<1> QED BY <1>1, <1>2, <1>3, ParserInvariance, PTL DEF ParserSpec
=============================================================================
