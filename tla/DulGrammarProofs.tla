-------------------------- MODULE DulGrammarProofs --------------------------
(***************************************************************************)
(* The parser implements the grammar: whatever the lexems, the statements  *)
(* it has read have the trees that precedence gives, and it stops where    *)
(* the grammar does.                                                       *)
(***************************************************************************)
EXTENDS DulParserProofs, DulWalkProofs

(***************************************************************************)
(* The recursive functions of the grammar.  Each is a function because it  *)
(* asks only for values of a lower rank: a least rank below which there    *)
(* were no such function would have a predecessor.                         *)
(***************************************************************************)
(* The last position of an expression, by that of the rest behind its      *)
(* first operator.                                                         *)
Starts     == 1 .. Len(lexems) + 2
LastOf(f, p) == IF ~Grammar!OperandAt(p) THEN 0
                ELSE IF Grammar!OperatorAt(p + 1) THEN f[p + 2] ELSE p
LastUpto(k, f) == f = [p \in {q \in Starts : Len(lexems) + 2 - q < k} |-> LastOf(f, p)]

(* An operand is a lexem of the program. *)
LEMMA OperandInside ==
  ASSUME Len(lexems) \in Nat, NEW p \in Starts, Grammar!OperandAt(p)
  PROVE  p \in 1 .. Len(lexems) /\ p + 2 \in Starts
BY DEF Starts, Grammar!OperandAt, Grammar!OfType, Grammar!Positions

LEMMA LastExists ==
  ASSUME Len(lexems) \in Nat, NEW m \in Nat
  PROVE  \E f : LastUpto(m, f)
<1> DEFINE T == {k \in Nat : ~ \E f : LastUpto(k, f)}
<1> SUFFICES ASSUME T # {} PROVE FALSE
  OBVIOUS
<1>1. PICK k \in T : \A j \in T : k <= j
  BY LeastNumber
<1>2. CASE k = 0
  <2>1. {q \in Starts : Len(lexems) + 2 - q < 0} = {}
    BY DEF Starts
  <2>2. LastUpto(0, [p \in {} |-> {}])
    BY <2>1 DEF LastUpto
  <2> QED BY <1>1, <1>2, <2>2
<1>3. CASE k # 0
  <2>1. k \in Nat /\ k - 1 \in Nat /\ ~(k <= k - 1)
    BY <1>1, <1>3
  <2>2. PICK f : LastUpto(k - 1, f)
    BY <1>1, <2>1
  <2> DEFINE E(j) == {q \in Starts : Len(lexems) + 2 - q < j}
             g    == [p \in E(k) |-> LastOf(f, p)]
  <2>3. f = [p \in E(k - 1) |-> LastOf(f, p)]
    BY <2>2, Zenon DEF LastUpto
  <2>4. \A p \in E(k - 1) : p \in E(k)
    BY <2>1 DEF Starts
  <2>5. \A p \in E(k - 1) : g[p] = f[p]
    <3>1. ASSUME NEW p \in E(k - 1) PROVE f[p] = LastOf(f, p)
      BY <2>3, Zenon
    <3>2. ASSUME NEW p \in E(k) PROVE g[p] = LastOf(f, p)
      BY Zenon
    <3> HIDE DEF E, g
    <3> QED BY <2>4, <3>1, <3>2
  <2>6. ASSUME NEW p \in E(k) PROVE LastOf(f, p) = LastOf(g, p)
    <3>1. Grammar!OperandAt(p) => p + 2 \in E(k - 1)
      <4> SUFFICES ASSUME Grammar!OperandAt(p) PROVE p + 2 \in E(k - 1)
        OBVIOUS
      <4>1. p \in 1 .. Len(lexems) /\ p + 2 \in Starts
        BY OperandInside
      <4> QED BY <2>1, <4>1
    <3> HIDE DEF E, g
    <3>2. Grammar!OperandAt(p) => g[p + 2] = f[p + 2]
      BY <2>5, <3>1
    <3> QED BY <3>2 DEF LastOf
  <2>7. g = [p \in E(k) |-> LastOf(g, p)]
    <3> DEFINE a(p) == LastOf(f, p)
               b(p) == LastOf(g, p)
    <3>1. \A p \in E(k) : a(p) = b(p)
      <4> HIDE DEF E, g
      <4> QED BY <2>6, Zenon
    <3>2. g = [p \in E(k) |-> a(p)]
      BY Zenon
    <3> HIDE DEF a, b, g, E
    <3>3. g = [p \in E(k) |-> b(p)]
      BY <3>1, <3>2
    <3> QED BY <3>3, Zenon DEF b
  <2>8. LastUpto(k, g)
    <3> HIDE DEF g
    <3> QED BY <2>7, Zenon DEF LastUpto
  <2> QED BY <1>1, <2>8
<1> QED BY <1>2, <1>3

(* That is what the grammar says of it. *)
LEMMA LastIs ==
  ASSUME Len(lexems) \in Nat, NEW p \in Starts
  PROVE  Grammar!ExprLast[p] = LastOf(Grammar!ExprLast, p)
<1> DEFINE last == CHOOSE f : f = [q \in 1 .. Len(lexems) + 2 |->
             IF ~Grammar!OperandAt(q) THEN 0
             ELSE IF Grammar!OperatorAt(q + 1) THEN f[q + 2] ELSE q]
<1>1. \E f : f = [q \in Starts |-> LastOf(f, q)]
  <2>1. PICK f : LastUpto(Len(lexems) + 2, f)
    BY LastExists
  <2>2. {q \in Starts : Len(lexems) + 2 - q < Len(lexems) + 2} = Starts
    BY DEF Starts
  <2> QED BY <2>1, <2>2 DEF LastUpto
<1>2. \E f : f = [q \in 1 .. Len(lexems) + 2 |->
             IF ~Grammar!OperandAt(q) THEN 0
             ELSE IF Grammar!OperatorAt(q + 1) THEN f[q + 2] ELSE q]
  BY <1>1, Zenon DEF LastOf, Starts
<1>3. last = [q \in 1 .. Len(lexems) + 2 |->
             IF ~Grammar!OperandAt(q) THEN 0
             ELSE IF Grammar!OperatorAt(q + 1) THEN last[q + 2] ELSE q]
  BY <1>2, Zenon
<1>4. Grammar!ExprLast = last
  BY Zenon DEF Grammar!ExprLast
<1> HIDE DEF last
<1>5. PICK f : f = Grammar!ExprLast
  OBVIOUS
<1>6. f = [q \in Starts |-> LastOf(f, q)]
  BY <1>3, <1>4, <1>5, Zenon DEF LastOf, Starts
<1> QED BY <1>5, <1>6

(* The tree of a span, by those on both sides of its root.                 *)
Spans == Grammar!Positions \X Grammar!Positions
Size(span) == IF span[1] < span[2] THEN span[2] - span[1] ELSE 0
TreeAt(f, span) ==
  IF span[1] = span[2] THEN <<lexems[span[1]].val>>
  ELSE Grammar!Branches(f, span[1], Grammar!RootOf(span[1], span[2]), span[2])
TreeUpto(k, f) == f = [span \in {s \in Spans : Size(s) < k} |-> TreeAt(f, span)]

(* Both sides are shorter. *)
LEMMA ShorterSpans ==
  ASSUME Len(lexems) \in Nat, NEW span \in Spans, NEW at \in span[1] + 1 .. span[2] - 1
  PROVE  /\ <<span[1], at - 1>> \in Spans /\ Size(<<span[1], at - 1>>) < Size(span)
         /\ <<at + 1, span[2]>> \in Spans /\ Size(<<at + 1, span[2]>>) < Size(span)
<1>1. PICK i \in 1 .. Len(lexems), j \in 1 .. Len(lexems) : span = <<i, j>>
  BY DEF Spans, Grammar!Positions
<1>2. at \in i + 1 .. j - 1
  BY <1>1
<1>3. at - 1 \in 1 .. Len(lexems) /\ at + 1 \in 1 .. Len(lexems)
  BY <1>1, <1>2
<1>4. Size(span) = j - i /\ Size(<<i, at - 1>>) < j - i /\ Size(<<at + 1, j>>) < j - i
  BY <1>1, <1>2 DEF Size
<1> QED BY <1>1, <1>3, <1>4 DEF Spans, Grammar!Positions

(* A span has the tree that the sides decide. *)
LEMMA TreeDecided ==
  ASSUME NEW span, NEW f, NEW g,
         \A at \in span[1] + 1 .. span[2] - 1 :
           /\ f[<<span[1], at - 1>>] = g[<<span[1], at - 1>>]
           /\ f[<<at + 1, span[2]>>] = g[<<at + 1, span[2]>>]
  PROVE  TreeAt(f, span) = TreeAt(g, span)
<1>1. PICK at : at = Grammar!RootOf(span[1], span[2])
  OBVIOUS
<1>2. CASE at \in span[1] + 1 .. span[2] - 1
  BY <1>1, <1>2 DEF TreeAt, Grammar!Branches
<1>3. CASE at \notin span[1] + 1 .. span[2] - 1
  BY <1>1, <1>3 DEF TreeAt, Grammar!Branches
<1> QED BY <1>2, <1>3

LEMMA TreeExists ==
  ASSUME Len(lexems) \in Nat, NEW m \in Nat
  PROVE  \E f : TreeUpto(m, f)
<1> DEFINE T == {k \in Nat : ~ \E f : TreeUpto(k, f)}
<1> SUFFICES ASSUME T # {} PROVE FALSE
  OBVIOUS
<1>1. PICK k \in T : \A j \in T : k <= j
  BY LeastNumber
<1>2. \A s \in Spans : Size(s) \in Nat
  BY DEF Spans, Size, Grammar!Positions
<1>3. CASE k = 0
  <2>1. {s \in Spans : Size(s) < 0} = {}
    BY <1>2
  <2>2. TreeUpto(0, [s \in {} |-> {}])
    BY <2>1 DEF TreeUpto
  <2> QED BY <1>1, <1>3, <2>2
<1>4. CASE k # 0
  <2>1. k \in Nat /\ k - 1 \in Nat /\ ~(k <= k - 1)
    BY <1>1, <1>4
  <2>2. PICK f : TreeUpto(k - 1, f)
    BY <1>1, <2>1
  <2> DEFINE E(j) == {s \in Spans : Size(s) < j}
             g    == [s \in E(k) |-> TreeAt(f, s)]
  <2>3. f = [s \in E(k - 1) |-> TreeAt(f, s)]
    BY <2>2, Zenon DEF TreeUpto
  <2>4. \A s \in E(k - 1) : s \in E(k)
    BY <1>2, <2>1
  <2>5. \A s \in E(k - 1) : g[s] = f[s]
    <3>1. ASSUME NEW s \in E(k - 1) PROVE f[s] = TreeAt(f, s)
      BY <2>3, Zenon
    <3>2. ASSUME NEW s \in E(k) PROVE g[s] = TreeAt(f, s)
      BY Zenon
    <3> HIDE DEF E, g
    <3> QED BY <2>4, <3>1, <3>2
  <2>6. ASSUME NEW s \in E(k) PROVE TreeAt(f, s) = TreeAt(g, s)
    <3>1. ASSUME NEW at \in s[1] + 1 .. s[2] - 1
          PROVE  <<s[1], at - 1>> \in E(k - 1) /\ <<at + 1, s[2]>> \in E(k - 1)
      <4>1. /\ <<s[1], at - 1>> \in Spans /\ Size(<<s[1], at - 1>>) < Size(s)
            /\ <<at + 1, s[2]>> \in Spans /\ Size(<<at + 1, s[2]>>) < Size(s)
        BY ShorterSpans
      <4>2. Size(s) < k /\ Size(s) \in Nat
        BY <1>2
      <4>3. Size(<<s[1], at - 1>>) < k - 1 /\ Size(<<at + 1, s[2]>>) < k - 1
        BY <1>2, <2>1, <4>1, <4>2
      <4> QED BY <4>1, <4>3
    <3> HIDE DEF E, g
    <3> QED BY <2>5, <3>1, TreeDecided
  <2>7. g = [s \in E(k) |-> TreeAt(g, s)]
    <3> DEFINE a(s) == TreeAt(f, s)
               b(s) == TreeAt(g, s)
    <3>1. \A s \in E(k) : a(s) = b(s)
      <4> HIDE DEF E, g
      <4> QED BY <2>6, Zenon
    <3>2. g = [s \in E(k) |-> a(s)]
      BY Zenon
    <3> HIDE DEF a, b, g, E
    <3>3. g = [s \in E(k) |-> b(s)]
      BY <3>1, <3>2
    <3> QED BY <3>3, Zenon DEF b
  <2>8. TreeUpto(k, g)
    <3> HIDE DEF g
    <3> QED BY <2>7, Zenon DEF TreeUpto
  <2> QED BY <1>1, <2>8
<1> QED BY <1>3, <1>4

(* That is what the grammar says of it. *)
LEMMA TreeIs ==
  ASSUME Len(lexems) \in Nat, NEW span \in Spans
  PROVE  Grammar!Tree[span] = TreeAt(Grammar!Tree, span)
<1> DEFINE tree == CHOOSE f : f = [s \in Grammar!Positions \X Grammar!Positions |->
             IF s[1] = s[2] THEN <<lexems[s[1]].val>>
             ELSE Grammar!Branches(f, s[1], Grammar!RootOf(s[1], s[2]), s[2])]
<1>1. \E f : f = [s \in Spans |-> TreeAt(f, s)]
  <2>1. PICK f : TreeUpto(Len(lexems) + 1, f)
    BY TreeExists
  <2>2. {s \in Spans : Size(s) < Len(lexems) + 1} = Spans
    BY DEF Spans, Size, Grammar!Positions
  <2> QED BY <2>1, <2>2 DEF TreeUpto
<1>2. \E f : f = [s \in Grammar!Positions \X Grammar!Positions |->
             IF s[1] = s[2] THEN <<lexems[s[1]].val>>
             ELSE Grammar!Branches(f, s[1], Grammar!RootOf(s[1], s[2]), s[2])]
  BY <1>1, Zenon DEF TreeAt, Spans
<1>3. tree = [s \in Spans |-> TreeAt(tree, s)]
  BY <1>2, Zenon DEF TreeAt, Spans
<1>4. Grammar!Tree = tree
  BY Zenon DEF Grammar!Tree
<1> HIDE DEF tree
<1>5. PICK f : f = Grammar!Tree
  OBVIOUS
<1>6. f = [s \in Spans |-> TreeAt(f, s)]
  BY <1>3, <1>4, <1>5
<1> QED BY <1>5, <1>6

(* Where the statements start, by where they end.                          *)
StartAt(f, k)   == IF k = 1 THEN 1 ELSE Grammar!StatementAt(f[k - 1]).next
StartUpto(m, f) == f = [k \in 1 .. m |-> StartAt(f, k)]

LEMMA StartExists ==
  ASSUME NEW m \in Nat
  PROVE  \E f : StartUpto(m, f)
<1> DEFINE T == {k \in Nat : ~ \E f : StartUpto(k, f)}
<1> SUFFICES ASSUME T # {} PROVE FALSE
  OBVIOUS
<1>1. PICK k \in T : \A j \in T : k <= j
  BY LeastNumber
<1>2. CASE k = 0
  <2>1. 1 .. 0 = {}
    OBVIOUS
  <2>2. StartUpto(0, [p \in {} |-> {}])
    BY <2>1 DEF StartUpto
  <2> QED BY <1>1, <1>2, <2>2
<1>3. CASE k # 0
  <2>1. k \in Nat /\ k - 1 \in Nat /\ ~(k <= k - 1)
    BY <1>1, <1>3
  <2>2. PICK f : StartUpto(k - 1, f)
    BY <1>1, <2>1
  <2> DEFINE g == [p \in 1 .. k |-> StartAt(f, p)]
  <2>3. f = [p \in 1 .. k - 1 |-> StartAt(f, p)]
    BY <2>2, Zenon DEF StartUpto
  <2>4. ASSUME NEW p \in 1 .. k - 1 PROVE p \in 1 .. k
    BY <2>1
  <2>5. \A p \in 1 .. k - 1 : g[p] = f[p]
    <3>1. ASSUME NEW p \in 1 .. k - 1 PROVE f[p] = StartAt(f, p)
      BY <2>3, Zenon
    <3>2. ASSUME NEW p \in 1 .. k PROVE g[p] = StartAt(f, p)
      BY Zenon
    <3> HIDE DEF g
    <3> QED BY <2>4, <3>1, <3>2
  <2> HIDE DEF g
  <2>6. ASSUME NEW p \in 1 .. k PROVE StartAt(f, p) = StartAt(g, p)
    <3>1. CASE p = 1
      BY <3>1 DEF StartAt
    <3>2. CASE p # 1
      <4>1. p - 1 \in 1 .. k - 1
        BY <2>1, <3>2
      <4>2. g[p - 1] = f[p - 1]
        BY <2>5, <4>1
      <4> QED BY <4>2 DEF StartAt
    <3> QED BY <3>1, <3>2
  <2>7. g = [p \in 1 .. k |-> StartAt(g, p)]
    <3> DEFINE a(p) == StartAt(f, p)
               b(p) == StartAt(g, p)
    <3>1. \A p \in 1 .. k : a(p) = b(p)
      BY <2>6, Zenon
    <3>2. g = [p \in 1 .. k |-> a(p)]
      BY Zenon DEF g
    <3> HIDE DEF a, b
    <3>3. g = [p \in 1 .. k |-> b(p)]
      BY <3>1, <3>2
    <3> QED BY <3>3, Zenon DEF b
  <2>8. StartUpto(k, g)
    BY <2>7, Zenon DEF StartUpto
  <2> QED BY <1>1, <2>8
<1> QED BY <1>2, <1>3

(* That is what the grammar says of it. *)
LEMMA StartIs ==
  ASSUME Len(lexems) \in Nat, NEW k \in 1 .. Len(lexems) + 1
  PROVE  Grammar!Start[k] = StartAt(Grammar!Start, k)
<1> DEFINE start == CHOOSE f : f = [j \in 1 .. Len(lexems) + 1 |->
             IF j = 1 THEN 1 ELSE Grammar!StatementAt(f[j - 1]).next]
<1>1. \E f : f = [j \in 1 .. Len(lexems) + 1 |-> StartAt(f, j)]
  <2>1. PICK f : StartUpto(Len(lexems) + 1, f)
    BY StartExists
  <2> QED BY <2>1, Zenon DEF StartUpto
<1>2. \E f : f = [j \in 1 .. Len(lexems) + 1 |->
             IF j = 1 THEN 1 ELSE Grammar!StatementAt(f[j - 1]).next]
  BY <1>1, Zenon DEF StartAt
<1>3. start = [j \in 1 .. Len(lexems) + 1 |-> StartAt(start, j)]
  BY <1>2, Zenon DEF StartAt
<1>4. Grammar!Start = start
  BY Zenon DEF Grammar!Start
<1> HIDE DEF start
<1>5. PICK f : f = Grammar!Start
  OBVIOUS
<1>6. f = [j \in 1 .. Len(lexems) + 1 |-> StartAt(f, j)]
  BY <1>3, <1>4, <1>5
<1> QED BY <1>5, <1>6

(* The tree that TreeOf reads from a node, by those of its children, which *)
(* are older than the node.                                                *)
Older(h)          == \A n \in 1 .. Len(h) : \A i \in DOMAIN h[n].kids : h[n].kids[i] \in 1 .. n - 1
NodeTree(h, f, n) ==
  IF h[n].kids = <<>> THEN <<h[n].val>>
  ELSE <<<<"sp", OperatorOf[h[n].type]>>>> \o [i \in DOMAIN h[n].kids |-> f[h[n].kids[i]]]
TreesUpto(h, k, f) == f = [n \in 1 .. k |-> NodeTree(h, f, n)]
Trees(h, f)        == \A n \in 1 .. Len(h) : f[n] = NodeTree(h, f, n)

(* A node has the tree that its children decide. *)
LEMMA NodeTreeDecided ==
  ASSUME NEW h, NEW n, NEW f, NEW g, \A i \in DOMAIN h[n].kids : f[h[n].kids[i]] = g[h[n].kids[i]]
  PROVE  NodeTree(h, f, n) = NodeTree(h, g, n)
<1> DEFINE a(i) == f[h[n].kids[i]]
           b(i) == g[h[n].kids[i]]
<1>1. \A i \in DOMAIN h[n].kids : a(i) = b(i)
  OBVIOUS
<1> HIDE DEF a, b
<1>2. [i \in DOMAIN h[n].kids |-> a(i)] = [i \in DOMAIN h[n].kids |-> b(i)]
  BY <1>1
<1>3. PICK x : x = [i \in DOMAIN h[n].kids |-> a(i)]
  OBVIOUS
<1>4. x = [i \in DOMAIN h[n].kids |-> f[h[n].kids[i]]]
  BY <1>3, Zenon DEF a
<1>5. x = [i \in DOMAIN h[n].kids |-> g[h[n].kids[i]]]
  BY <1>2, <1>3, Zenon DEF b
<1> QED BY <1>4, <1>5, Zenon DEF NodeTree

LEMMA TreesExist ==
  ASSUME NEW h, Len(h) \in Nat, Older(h)
  PROVE  \E f : TreesUpto(h, Len(h), f)
<1> DEFINE T == {k \in 0 .. Len(h) : ~ \E f : TreesUpto(h, k, f)}
<1> SUFFICES ASSUME T # {} PROVE FALSE
  BY DEF T
<1>0. T \in SUBSET Nat
  OBVIOUS
<1>1. PICK k \in T : \A j \in T : k <= j
  <2> HIDE DEF T
  <2> QED BY <1>0, LeastNumber
<1>2. CASE k = 0
  <2>1. 1 .. 0 = {}
    OBVIOUS
  <2>2. TreesUpto(h, 0, [p \in {} |-> {}])
    BY <2>1 DEF TreesUpto
  <2> QED BY <1>1, <1>2, <2>2
<1>3. CASE k # 0
  <2>1. k \in 1 .. Len(h) /\ k - 1 \in 0 .. Len(h) /\ ~(k <= k - 1)
    BY <1>1, <1>3
  <2>2. PICK f : TreesUpto(h, k - 1, f)
    BY <1>1, <2>1
  <2> DEFINE g == [p \in 1 .. k |-> NodeTree(h, f, p)]
  <2>3. f = [p \in 1 .. k - 1 |-> NodeTree(h, f, p)]
    BY <2>2, Zenon DEF TreesUpto
  <2>4. ASSUME NEW p \in 1 .. k - 1 PROVE p \in 1 .. k
    BY <2>1
  <2>5. \A p \in 1 .. k - 1 : g[p] = f[p]
    <3>1. ASSUME NEW p \in 1 .. k - 1 PROVE f[p] = NodeTree(h, f, p)
      BY <2>3, Zenon
    <3>2. ASSUME NEW p \in 1 .. k PROVE g[p] = NodeTree(h, f, p)
      BY Zenon
    <3> HIDE DEF g
    <3> QED BY <2>4, <3>1, <3>2
  <2> HIDE DEF g
  <2>6. ASSUME NEW p \in 1 .. k PROVE NodeTree(h, f, p) = NodeTree(h, g, p)
    <3>1. \A i \in DOMAIN h[p].kids : h[p].kids[i] \in 1 .. k - 1
      BY <2>1 DEF Older
    <3> QED BY <2>5, <3>1, NodeTreeDecided
  <2>7. g = [p \in 1 .. k |-> NodeTree(h, g, p)]
    <3> DEFINE a(p) == NodeTree(h, f, p)
               b(p) == NodeTree(h, g, p)
    <3>1. \A p \in 1 .. k : a(p) = b(p)
      BY <2>6, Zenon
    <3>2. g = [p \in 1 .. k |-> a(p)]
      BY Zenon DEF g
    <3> HIDE DEF a, b
    <3>3. g = [p \in 1 .. k |-> b(p)]
      BY <3>1, <3>2
    <3> QED BY <3>3, Zenon DEF b
  <2>8. TreesUpto(h, k, g)
    BY <2>7, Zenon DEF TreesUpto
  <2> QED BY <1>1, <2>8
<1> QED BY <1>2, <1>3

(* That is what TreeOf says of it. *)
LEMMA TreeOfIs ==
  ASSUME NEW h, h = heap, Len(h) \in Nat, Older(h)
  PROVE  Trees(h, TreeOf)
<1> DEFINE tree == CHOOSE f : f = [n \in 1 .. Len(heap) |-> NodeTree(heap, f, n)]
<1>1. PICK f : TreesUpto(h, Len(h), f)
  BY TreesExist
<1>2. tree = [n \in 1 .. Len(heap) |-> NodeTree(heap, tree, n)]
  BY <1>1, Zenon DEF TreesUpto
<1>3. TreeOf = tree
  BY Zenon DEF TreeOf, Nodes, NodeTree
<1> HIDE DEF tree
<1>4. ASSUME NEW n \in 1 .. Len(h) PROVE tree[n] = NodeTree(h, tree, n)
  BY <1>2, Zenon
<1> QED BY <1>3, <1>4 DEF Trees

(* The same after a step. *)
LEMMA TreeOfIsNext ==
  ASSUME NEW h, h = heap', Len(h) \in Nat, Older(h)
  PROVE  Trees(h, TreeOf')
<1> DEFINE tree == CHOOSE f : f = [n \in 1 .. Len(heap') |-> NodeTree(heap', f, n)]
<1>1. PICK f : TreesUpto(h, Len(h), f)
  BY TreesExist
<1>2. tree = [n \in 1 .. Len(heap') |-> NodeTree(heap', tree, n)]
  BY <1>1, Zenon DEF TreesUpto
<1>3. TreeOf' = tree
  BY Zenon DEF TreeOf, Nodes, NodeTree
<1> HIDE DEF tree
<1>4. ASSUME NEW n \in 1 .. Len(h) PROVE tree[n] = NodeTree(h, tree, n)
  BY <1>2, Zenon
<1> QED BY <1>3, <1>4 DEF Trees

(* A node keeps its tree while the heap grows. *)
LEMMA TreesAgree ==
  ASSUME NEW h, NEW g, NEW f, NEW e, Trees(h, f), Trees(g, e), Older(h),
         Len(h) \in Nat, Len(g) \in Nat, Len(g) >= Len(h),
         \A n \in 1 .. Len(h) : g[n] = h[n]
  PROVE  \A n \in 1 .. Len(h) : e[n] = f[n]
<1> DEFINE T == {n \in 1 .. Len(h) : e[n] # f[n]}
<1> SUFFICES ASSUME T # {} PROVE FALSE
  BY DEF T
<1>1. T \in SUBSET Nat
  OBVIOUS
<1>2. PICK k \in T : \A j \in T : k <= j
  <2> HIDE DEF T
  <2> QED BY <1>1, LeastNumber
<1>3. k \in 1 .. Len(h) /\ k \in 1 .. Len(g) /\ e[k] # f[k]
  BY <1>2
<1>4. ASSUME NEW i \in DOMAIN h[k].kids PROVE e[h[k].kids[i]] = f[h[k].kids[i]]
  <2>1. h[k].kids[i] \in 1 .. k - 1
    BY <1>3 DEF Older
  <2> QED BY <1>2, <1>3, <2>1, SMTT(30)
<1>5. f[k] = NodeTree(h, f, k)
  BY <1>3 DEF Trees
<1>6. e[k] = NodeTree(g, e, k)
  BY <1>3 DEF Trees
<1>7. g[k] = h[k]
  BY <1>3
<1>8. NodeTree(g, e, k) = NodeTree(h, e, k)
  BY <1>7 DEF NodeTree
<1>9. NodeTree(h, e, k) = NodeTree(h, f, k)
  BY <1>4, NodeTreeDecided
<1> QED BY <1>3, <1>5, <1>6, <1>8, <1>9

(* One element in front of one other, or of two. *)
LEMMA Joined ==
  ASSUME NEW x, NEW y, NEW z
  PROVE  <<x>> \o <<y>> = <<x, y>> /\ <<x>> \o <<y, z>> = <<x, y, z>>
<1> DEFINE S == {x, y, z}
<1>1. <<x>> \in Seq(S) /\ <<y>> \in Seq(S) /\ <<y, z>> \in Seq(S)
  OBVIOUS
<1>2. <<x, y>> \in Seq(S) /\ <<x, y, z>> \in Seq(S)
  OBVIOUS
<1>3. PICK s : s = <<x>> \o <<y>>
  OBVIOUS
<1>4. s \in Seq(S) /\ Len(s) = 2 /\ s[1] = x /\ s[2] = y
  BY <1>1, <1>3, ConcatProperties
<1>5. s = <<x, y>>
  BY <1>2, <1>4, SeqEqual
<1>6. PICK t : t = <<x>> \o <<y, z>>
  OBVIOUS
<1>7. t \in Seq(S) /\ Len(t) = 3 /\ t[1] = x /\ t[2] = y /\ t[3] = z
  BY <1>1, <1>6, ConcatProperties
<1>8. t = <<x, y, z>>
  BY <1>2, <1>7, SeqEqual
<1> QED BY <1>3, <1>5, <1>6, <1>8

(* The trees of a leaf, and of nodes with one child and with two.          *)
LEMMA NodeTrees ==
  ASSUME NEW h, NEW f, NEW n
  PROVE  /\ h[n].kids = <<>> => NodeTree(h, f, n) = <<h[n].val>>
         /\ \A a : h[n].kids = <<a>> =>
              NodeTree(h, f, n) = <<<<"sp", OperatorOf[h[n].type]>>, f[a]>>
         /\ \A a, b : h[n].kids = <<a, b>> =>
              NodeTree(h, f, n) = <<<<"sp", OperatorOf[h[n].type]>>, f[a], f[b]>>
<1>1. h[n].kids = <<>> => NodeTree(h, f, n) = <<h[n].val>>
  BY DEF NodeTree
<1>2. ASSUME NEW a, h[n].kids = <<a>>
      PROVE  NodeTree(h, f, n) = <<<<"sp", OperatorOf[h[n].type]>>, f[a]>>
  <2>1. [i \in DOMAIN <<a>> |-> f[<<a>>[i]]] = <<f[a]>>
    OBVIOUS
  <2>2. PICK s : s = <<"sp", OperatorOf[h[n].type]>>
    OBVIOUS
  <2>3. <<s>> \o <<f[a]>> = <<s, f[a]>>
    BY Joined
  <2>4. NodeTree(h, f, n) = <<s>> \o [i \in DOMAIN <<a>> |-> f[<<a>>[i]]]
    BY <1>2, <2>2 DEF NodeTree
  <2> QED BY <2>1, <2>2, <2>3, <2>4
<1>3. ASSUME NEW a, NEW b, h[n].kids = <<a, b>>
      PROVE  NodeTree(h, f, n) = <<<<"sp", OperatorOf[h[n].type]>>, f[a], f[b]>>
  <2>1. [i \in DOMAIN <<a, b>> |-> f[<<a, b>>[i]]] = <<f[a], f[b]>>
    OBVIOUS
  <2>2. PICK s : s = <<"sp", OperatorOf[h[n].type]>>
    OBVIOUS
  <2>3. <<s>> \o <<f[a], f[b]>> = <<s, f[a], f[b]>>
    BY Joined
  <2>4. NodeTree(h, f, n) = <<s>> \o [i \in DOMAIN <<a, b>> |-> f[<<a, b>>[i]]]
    BY <1>3, <2>2 DEF NodeTree
  <2> QED BY <2>1, <2>2, <2>3, <2>4
<1> QED BY <1>1, <1>2, <1>3

(***************************************************************************)
(* The trees of the grammar, one operator at a time.                       *)
(***************************************************************************)
NoSum(i, j) == \A p \in i .. j : ~Grammar!AdditiveAt(p)

(* An operand is a leaf. *)
LEMMA LeafTree ==
  ASSUME Len(lexems) \in Nat, NEW p \in 1 .. Len(lexems)
  PROVE  Grammar!Tree[<<p, p>>] = <<lexems[p].val>>
<1>1. <<p, p>> \in Spans
  BY DEF Spans, Grammar!Positions
<1> QED BY <1>1, TreeIs DEF TreeAt

(* The branches of a longer one lie on both sides of its root. *)
LEMMA BranchTree ==
  ASSUME Len(lexems) \in Nat, NEW i \in 1 .. Len(lexems), NEW j \in 1 .. Len(lexems),
         NEW at \in i + 1 .. j - 1, at = Grammar!RootOf(i, j)
  PROVE  Grammar!Tree[<<i, j>>] =
           <<lexems[at].val, Grammar!Tree[<<i, at - 1>>], Grammar!Tree[<<at + 1, j>>]>>
<1>1. <<i, j>> \in Spans /\ i # j
  BY DEF Spans, Grammar!Positions
<1> QED BY <1>1, TreeIs DEF TreeAt, Grammar!Branches

(* A product groups to the right. *)
LEMMA ProductTree ==
  ASSUME Len(lexems) \in Nat, NEW i \in 1 .. Len(lexems), NEW j \in 1 .. Len(lexems),
         i + 2 <= j, NoSum(i, j)
  PROVE  Grammar!Tree[<<i, j>>] =
           <<lexems[i + 1].val, Grammar!Tree[<<i, i>>], Grammar!Tree[<<i + 2, j>>]>>
<1>1. Grammar!RootOf(i, j) = i + 1
  BY DEF Grammar!RootOf, NoSum
<1>2. i + 1 \in i + 1 .. j - 1 /\ i + 1 - 1 = i /\ i + 1 + 1 = i + 2
  OBVIOUS
<1> QED BY <1>1, <1>2, BranchTree

(* A sum groups to the left. *)
LEMMA SumTree ==
  ASSUME Len(lexems) \in Nat, NEW i \in 1 .. Len(lexems), NEW j \in 1 .. Len(lexems),
         NEW at \in i + 1 .. j - 1, Grammar!AdditiveAt(at), NoSum(at + 1, j)
  PROVE  Grammar!Tree[<<i, j>>] =
           <<lexems[at].val, Grammar!Tree[<<i, at - 1>>], Grammar!Tree[<<at + 1, j>>]>>
<1> DEFINE A == {p \in i .. j : Grammar!AdditiveAt(p)}
<1>1. at \in A /\ \A p \in A : p <= at /\ p \in Int
  BY DEF NoSum
<1>2. A # {}
  BY <1>1
<1>3. Grammar!RootOf(i, j) = CHOOSE x \in A : \A y \in A : x >= y
  BY <1>2 DEF Grammar!RootOf, Grammar!Max
<1> HIDE DEF A
<1>4. Grammar!RootOf(i, j) = at
  <2>1. PICK r : r = CHOOSE x \in A : \A y \in A : x >= y
    OBVIOUS
  <2>2. at \in A /\ \A y \in A : at >= y
    BY <1>1
  <2>3. r \in A /\ \A y \in A : r >= y
    BY <2>1, <2>2, Zenon
  <2>4. r <= at /\ r \in Int /\ r >= at
    BY <1>1, <2>3
  <2> QED BY <1>3, <2>1, <2>4
<1> QED BY <1>4, BranchTree

(***************************************************************************)
(* The lexems, as the parser and as the grammar look at them.              *)
(***************************************************************************)
(* What SpelledAssumption says of the program that is read. *)
Spelled ==
  /\ Len(lexems) \in Nat
  /\ \A i \in 1 .. Len(lexems) :
       /\ lexems[i].type # "NONE"
       /\ lexems[i].type = "SPECIAL" => lexems[i].val = <<"sp", lexems[i].val[2]>>

LEMMA StreamsAreSpelled ==
  ASSUME lexems \in Streams
  PROVE  Spelled
<1>1. lexems \in Seq([type : LexemTypes, val : Values])
  BY StreamsAssumption
<1>2. Len(lexems) \in Nat /\ DOMAIN lexems = 1 .. Len(lexems)
  BY <1>1
<1> QED BY <1>2, SpelledAssumption DEF Spelled, Special, Lexem

(* A multiplicative operator stands at p. *)
TimesAt(p) == Grammar!Symbol(p, MultiplicativeOps)

(* The iterator at pos sees what the grammar has at pos + 1. *)
LEMMA Seen ==
  ASSUME Spelled, NEW pos \in Nat
  PROVE  /\ LexemAt(pos).type = "NONE" <=> pos + 1 \notin Grammar!Positions
         /\ pos + 1 \in Grammar!Positions => LexemAt(pos) = lexems[pos + 1]
         /\ \A S : IsSpecial(LexemAt(pos), S) <=> Grammar!Symbol(pos + 1, S)
         /\ LeafType(LexemAt(pos)) = "none" <=> ~Grammar!OperandAt(pos + 1)
<1>1. CASE pos >= Len(lexems)
  <2>1. LexemAt(pos) = NoLexem /\ pos + 1 \notin Grammar!Positions
    BY <1>1 DEF LexemAt, Grammar!Positions, Spelled
  <2> QED BY <2>1 DEF NoLexem, Lexem, IsSpecial, LeafType, Grammar!Symbol, Grammar!OfType,
             Grammar!OperandAt
<1>2. CASE ~(pos >= Len(lexems))
  <2>1. /\ LexemAt(pos) = lexems[pos + 1] /\ pos + 1 \in Grammar!Positions
        /\ pos + 1 \in 1 .. Len(lexems)
    BY <1>2 DEF LexemAt, Grammar!Positions, Spelled
  <2>2. PICK p : p = pos + 1
    OBVIOUS
  <2>3. lexems[p].type # "NONE"
    BY <2>1, <2>2 DEF Spelled
  <2> QED BY <2>1, <2>2, <2>3 DEF IsSpecial, LeafType, Grammar!Symbol, Grammar!OfType,
             Grammar!OperandAt
<1> QED BY <1>1, <1>2

(* An operator is of one of the two levels, and no operand is one.         *)
LEMMA OperatorKinds ==
  ASSUME NEW p
  PROVE  /\ Grammar!AdditiveAt(p) <=> Grammar!Symbol(p, AdditiveOps)
         /\ Grammar!OperatorAt(p) <=> Grammar!AdditiveAt(p) \/ TimesAt(p)
         /\ ~(Grammar!AdditiveAt(p) /\ TimesAt(p))
         /\ Grammar!OperandAt(p) => ~Grammar!AdditiveAt(p)
         /\ ~(Grammar!Symbol(p, {"assign"}) /\ Grammar!Symbol(p, {"EOL"}))
BY DEF Grammar!AdditiveAt, Grammar!OperatorAt, Grammar!OperandAt, TimesAt, Grammar!Symbol,
       Grammar!OfType, AdditiveOps, MultiplicativeOps

(* The node that an operator makes names the operator. *)
LEMMA OperatorNames ==
  ASSUME Spelled, NEW p, Grammar!AdditiveAt(p) \/ TimesAt(p)
  PROVE  lexems[p].val = <<"sp", OperatorOf[NodeTypeOf(lexems[p].val[2])]>>
<1>1. /\ p \in 1 .. Len(lexems) /\ lexems[p].type = "SPECIAL"
      /\ lexems[p].val[2] \in {"plus", "minus", "asterisk", "slash"}
  BY DEF Grammar!AdditiveAt, TimesAt, Grammar!Symbol, Grammar!OfType, Grammar!Positions,
         MultiplicativeOps
<1>2. lexems[p].val = <<"sp", lexems[p].val[2]>>
  BY <1>1 DEF Spelled
<1>3. PICK op : op = lexems[p].val[2]
  OBVIOUS
<1>4. OperatorOf[NodeTypeOf(op)] = op
  <2>1. op = "plus" => NodeTypeOf(op) = "PLUS"
    BY DEF NodeTypeOf
  <2>2. op = "minus" => NodeTypeOf(op) = "MINUS"
    BY DEF NodeTypeOf
  <2>3. op = "asterisk" => NodeTypeOf(op) = "MULT"
    BY DEF NodeTypeOf
  <2>4. op = "slash" => NodeTypeOf(op) = "DIV"
    BY DEF NodeTypeOf
  <2> QED BY <1>1, <1>3, <2>1, <2>2, <2>3, <2>4 DEF OperatorOf
<1> QED BY <1>2, <1>3, <1>4

(* Where an expression ends, one operand at a time. *)
LEMMA ExprRules ==
  ASSUME Spelled, NEW p \in 1 .. Len(lexems) + 1
  PROVE  /\ ~Grammar!OperandAt(p) => Grammar!ExprLast[p] = 0
         /\ Grammar!OperandAt(p) =>
              /\ p \in 1 .. Len(lexems)
              /\ Grammar!OperatorAt(p + 1) => /\ p + 1 \in 1 .. Len(lexems)
                                              /\ Grammar!ExprLast[p] = Grammar!ExprLast[p + 2]
              /\ ~Grammar!OperatorAt(p + 1) => Grammar!ExprLast[p] = p
<1>1. Len(lexems) \in Nat /\ p \in Starts
  BY DEF Spelled, Starts
<1>2. Grammar!ExprLast[p] = LastOf(Grammar!ExprLast, p)
  BY <1>1, LastIs
<1>3. Grammar!OperandAt(p) => p \in 1 .. Len(lexems)
  BY DEF Grammar!OperandAt, Grammar!OfType, Grammar!Positions
<1>4. Grammar!OperatorAt(p + 1) => p + 1 \in 1 .. Len(lexems)
  BY DEF Grammar!OperatorAt, Grammar!Symbol, Grammar!OfType, Grammar!Positions
<1> QED BY <1>2, <1>3, <1>4 DEF LastOf

(***************************************************************************)
(* The course of a statement that can still become one: how far its calls  *)
(* have come, by the lexems that the nodes they keep span.                 *)
(***************************************************************************)
(* Node n is the tree of i .. j, where T gives the trees of the nodes.     *)
Kept(T, n, i, j) == n # NULL /\ T[n] = Grammar!Tree[<<i, j>>]

(* The statement that starts at H has, in the call f of astparse_stat, its *)
(* last expression at b.                                                   *)
Begins(T, f, H, b) ==
  \/ f.at = "write" /\ Grammar!Symbol(H, {"kwwrite"}) /\ b = H + 1
  \/ f.at = "expr" /\ ~Grammar!Symbol(H, {"kwwrite"}) /\ b = H
  \/ /\ f.at = "assign" /\ ~Grammar!Symbol(H, {"kwwrite"})
     /\ Grammar!ExprLast[H] \in H .. Len(lexems)
     /\ Grammar!Symbol(Grammar!ExprLast[H] + 1, {"assign"})
     /\ Kept(T, f.left, H, Grammar!ExprLast[H])
     /\ b = Grammar!ExprLast[H] + 2

(* The call f of astparse_plus for the expression at b reads a term at t.  *)
Term(T, f, b, t) ==
  \/ f.at = "plus0" /\ t = b
  \/ /\ f.at = "plus" /\ t >= b + 2
     /\ Grammar!AdditiveAt(t - 1)
     /\ f.type = NodeTypeOf(lexems[t - 1].val[2])
     /\ Kept(T, f.left, b, t - 2)

(* A call f of astparse_mult keeps the operand at o and its operator.      *)
Factor(T, f, o) ==
  /\ TimesAt(o + 1)
  /\ f.type = NodeTypeOf(lexems[o + 1].val[2])
  /\ Kept(T, f.left, o, o)

(* The calls are in the term at t of the expression at b.  The k-th call   *)
(* but the first two keeps the k-th operand of the term.                   *)
Place(t, k) == t + 2 * (k - 3)
InTerm(T, H, fs, b, t) ==
  /\ b \in 1 .. Len(lexems) + 1 /\ t \in Nat /\ t >= b
  /\ Begins(T, fs[1], H, b)
  /\ Term(T, fs[2], b, t)
  /\ \A k \in 3 .. Len(fs) : Factor(T, fs[k], Place(t, k))

(* The call that is entered next reads the operand behind them. *)
AtOperand(T, H, fs, pos) ==
  \E b, t \in Nat :
    /\ InTerm(T, H, fs, b, t)
    /\ pos + 1 = Place(t, Len(fs) + 1) /\ pos + 1 \in 1 .. Len(lexems) + 1
    /\ NoSum(t, pos)
    /\ Grammar!ExprLast[b] = Grammar!ExprLast[pos + 1]

(* Node n, the rest of a term up to pos, is handed to them. *)
BehindTerm(T, H, fs, n, pos) ==
  \E b, t \in Nat :
    /\ InTerm(T, H, fs, b, t)
    /\ Place(t, Len(fs) + 1) <= pos
    /\ Kept(T, n, Place(t, Len(fs) + 1), pos)
    /\ NoSum(t, pos) /\ Grammar!OperandAt(pos)
    /\ Grammar!ExprLast[b] = Grammar!ExprLast[pos]

(* Node n, the last expression of the statement, is handed to f. *)
BehindExpr(T, H, f, n, pos) ==
  \E b \in 1 .. Len(lexems) + 1 :
    /\ Begins(T, f, H, b)
    /\ b <= pos /\ pos <= Len(lexems)
    /\ Kept(T, n, b, pos)
    /\ Grammar!ExprLast[b] = pos

(* Node n is the tree of the statement. *)
BehindStatement(T, H, n, pos) ==
  /\ n # NULL
  /\ Grammar!StatementAt(H) # Grammar!Rejected
  /\ T[n] = Grammar!StatementTree(Grammar!StatementAt(H))
  /\ Grammar!StatementAt(H).next = pos + 1
  /\ pos >= H

Course(T, H, fs, c, pos) ==
  /\ c.go \in {"text", "stat", "end"} => pos + 1 = H
  /\ c.go = "end" => H \notin Grammar!Positions
  /\ c.go \notin {"text", "end"} => H \in Grammar!Positions
  /\ c.go = "plus" => /\ Begins(T, fs[1], H, pos + 1)
                      /\ pos + 1 \in 1 .. Len(lexems) + 1
  /\ c.go = "mult" => AtOperand(T, H, fs, pos)
  /\ c.go = "ret" => /\ Len(fs) = 0 => BehindStatement(T, H, c.arg, pos)
                     /\ Len(fs) = 1 => BehindExpr(T, H, fs[1], c.arg, pos)
                     /\ Len(fs) > 1 => BehindTerm(T, H, fs, c.arg, pos)

(* Older nodes keep their trees, so the course is the same in a heap that  *)
(* has grown.                                                              *)
LEMMA KeptKeeps ==
  ASSUME NEW m \in Nat, NEW T, NEW U, \A x \in 1 .. m : U[x] = T[x],
         NEW n \in 0 .. m, NEW i, NEW j, Kept(T, n, i, j)
  PROVE  Kept(U, n, i, j)
<1>1. n \in 1 .. m
  BY DEF Kept, NULL
<1> QED BY <1>1 DEF Kept

LEMMA BeginsKeeps ==
  ASSUME NEW m \in Nat, NEW T, NEW U, \A x \in 1 .. m : U[x] = T[x],
         NEW f, f.left \in 0 .. m, NEW H, NEW b, Begins(T, f, H, b)
  PROVE  Begins(U, f, H, b)
<1>1. ASSUME NEW i, NEW j, Kept(T, f.left, i, j) PROVE Kept(U, f.left, i, j)
  <2>1. PICK n \in 0 .. m : n = f.left
    OBVIOUS
  <2> QED BY <1>1, <2>1, KeptKeeps
<1> QED BY <1>1 DEF Begins

LEMMA InTermKeeps ==
  ASSUME NEW m \in Nat, NEW T, NEW U, \A x \in 1 .. m : U[x] = T[x],
         NEW fs, Len(fs) \in Nat, Len(fs) >= 2, \A k \in 1 .. Len(fs) : fs[k].left \in 0 .. m,
         NEW H, NEW b, NEW t, InTerm(T, H, fs, b, t)
  PROVE  InTerm(U, H, fs, b, t)
<1>1. ASSUME NEW k \in 1 .. Len(fs), NEW i, NEW j, Kept(T, fs[k].left, i, j)
      PROVE  Kept(U, fs[k].left, i, j)
  <2>1. PICK n \in 0 .. m : n = fs[k].left
    OBVIOUS
  <2> QED BY <1>1, <2>1, KeptKeeps
<1>2. 1 \in 1 .. Len(fs) /\ 2 \in 1 .. Len(fs) /\ \A k \in 3 .. Len(fs) : k \in 1 .. Len(fs)
  OBVIOUS
<1>3. Begins(U, fs[1], H, b)
  BY <1>2, BeginsKeeps DEF InTerm
<1>4. Term(U, fs[2], b, t)
  BY <1>1, <1>2 DEF InTerm, Term
<1>5. ASSUME NEW k \in 3 .. Len(fs) PROVE Factor(U, fs[k], Place(t, k))
  <2>1. Factor(T, fs[k], Place(t, k))
    BY DEF InTerm
  <2> QED BY <1>1, <1>2, <2>1 DEF Factor
<1> QED BY <1>3, <1>4, <1>5 DEF InTerm

(* The first calls of a stack are in the term when all of them are. *)
LEMMA InTermBase ==
  ASSUME NEW fs, NEW gs, Len(fs) \in Nat, Len(gs) \in Nat, Len(fs) >= Len(gs), Len(gs) >= 2,
         \A k \in 1 .. Len(gs) : gs[k] = fs[k],
         NEW T, NEW H, NEW b, NEW t, InTerm(T, H, fs, b, t)
  PROVE  InTerm(T, H, gs, b, t)
<1>1. gs[1] = fs[1] /\ gs[2] = fs[2]
  OBVIOUS
<1>2. ASSUME NEW k \in 3 .. Len(gs) PROVE Factor(T, gs[k], Place(t, k))
  <2>1. k \in 3 .. Len(fs) /\ gs[k] = fs[k]
    OBVIOUS
  <2>2. Factor(T, fs[k], Place(t, k))
    BY <2>1 DEF InTerm
  <2> QED BY <2>1, <2>2
<1> QED BY <1>1, <1>2 DEF InTerm

(* One more call that keeps an operand is in the term too. *)
LEMMA InTermPush ==
  ASSUME NEW fs, NEW gs, Len(fs) \in Nat, Len(gs) = Len(fs) + 1, Len(fs) >= 2,
         \A k \in 1 .. Len(fs) : gs[k] = fs[k],
         NEW T, NEW H, NEW b, NEW t, InTerm(T, H, fs, b, t),
         Factor(T, gs[Len(gs)], Place(t, Len(gs)))
  PROVE  InTerm(T, H, gs, b, t)
<1>1. gs[1] = fs[1] /\ gs[2] = fs[2]
  OBVIOUS
<1>2. ASSUME NEW k \in 3 .. Len(gs) PROVE Factor(T, gs[k], Place(t, k))
  <2>1. CASE k = Len(gs)
    BY <2>1
  <2>2. CASE k # Len(gs)
    <3>1. k \in 3 .. Len(fs) /\ gs[k] = fs[k]
      BY <2>2
    <3>2. Factor(T, fs[k], Place(t, k))
      BY <3>1 DEF InTerm
    <3> QED BY <3>1, <3>2
  <2> QED BY <2>1, <2>2
<1> QED BY <1>1, <1>2 DEF InTerm

(* An expression that comes to nothing rejects the statement. *)
LEMMA BeginsRejected ==
  ASSUME NEW T, NEW f, NEW H, NEW b, Begins(T, f, H, b), Grammar!ExprLast[b] = 0
  PROVE  Grammar!StatementAt(H) = Grammar!Rejected
<1>1. CASE Grammar!Symbol(H, {"kwwrite"}) /\ b = H + 1
  BY <1>1 DEF Grammar!StatementAt
<1>2. CASE ~Grammar!Symbol(H, {"kwwrite"}) /\ b = H
  BY <1>2 DEF Grammar!StatementAt
<1>3. CASE /\ ~Grammar!Symbol(H, {"kwwrite"})
           /\ Grammar!Symbol(Grammar!ExprLast[H] + 1, {"assign"})
           /\ b = Grammar!ExprLast[H] + 2
  <2>1. ~Grammar!Symbol(Grammar!ExprLast[H] + 1, {"EOL"})
    BY <1>3, OperatorKinds
  <2>2. PICK e : e = Grammar!ExprLast[H]
    OBVIOUS
  <2> QED BY <1>3, <2>1, <2>2 DEF Grammar!StatementAt
<1> QED BY <1>1, <1>2, <1>3 DEF Begins

(* What the grammar says of a statement whose expressions are read: of a   *)
(* write, and of a statement that starts with an expression.               *)
LEMMA WriteRead ==
  ASSUME NEW H, Grammar!Symbol(H, {"kwwrite"}), NEW e, e = Grammar!ExprLast[H + 1], e # 0
  PROVE  Grammar!StatementAt(H) = Grammar!Statement("write", <<>>, <<H + 1, e>>, e + 2)
BY DEF Grammar!StatementAt

LEMMA ExpressionRead ==
  ASSUME NEW H, ~Grammar!Symbol(H, {"kwwrite"}), NEW e, e = Grammar!ExprLast[H], e # 0
  PROVE  /\ Grammar!Symbol(e + 1, {"EOL"}) =>
              Grammar!StatementAt(H) = Grammar!Statement("bare", <<>>, <<H, e>>, e + 2)
         /\ ~Grammar!Symbol(e + 1, {"EOL"}) /\ ~Grammar!Symbol(e + 1, {"assign"}) =>
              Grammar!StatementAt(H) = Grammar!Rejected
<1>1. CASE Grammar!Symbol(e + 1, {"EOL"})
  <2>1. ~Grammar!Symbol(e + 1, {"assign"})
    BY <1>1, OperatorKinds
  <2> QED BY <1>1, <2>1 DEF Grammar!StatementAt
<1>2. CASE ~Grammar!Symbol(e + 1, {"EOL"}) /\ ~Grammar!Symbol(e + 1, {"assign"})
  BY <1>2 DEF Grammar!StatementAt
<1> QED BY <1>1, <1>2

LEMMA AssignmentRead ==
  ASSUME NEW H, ~Grammar!Symbol(H, {"kwwrite"}), NEW e, e = Grammar!ExprLast[H], e # 0,
         Grammar!Symbol(e + 1, {"assign"}), NEW r, r = Grammar!ExprLast[e + 2], r # 0
  PROVE  Grammar!StatementAt(H) = Grammar!Statement("assign", <<H, e>>, <<e + 2, r>>, r + 2)
<1>1. ~Grammar!Symbol(e + 1, {"EOL"})
  BY OperatorKinds
<1> QED BY <1>1 DEF Grammar!StatementAt

(* The statement, once its last expression is read. *)
LEMMA StatementTrees ==
  ASSUME NEW s, NEW t, NEW v, NEW n
  PROVE  /\ s = Grammar!Statement("write", t, v, n) =>
              Grammar!StatementTree(s) = <<<<"sp", "kwwrite">>, Grammar!Tree[v]>>
         /\ s = Grammar!Statement("bare", t, v, n) => Grammar!StatementTree(s) = Grammar!Tree[v]
         /\ s = Grammar!Statement("assign", t, v, n) =>
              Grammar!StatementTree(s) = <<<<"sp", "assign">>, Grammar!Tree[t], Grammar!Tree[v]>>
         /\ \A k \in {"write", "bare", "assign"} : s = Grammar!Statement(k, t, v, n) =>
              s # Grammar!Rejected /\ s.next = n
BY DEF Grammar!Statement, Grammar!StatementTree, Grammar!Rejected

(***************************************************************************)
(* The loop tests.                                                         *)
(***************************************************************************)
(* What a return has to establish. *)
LEMMA CourseReturn ==
  ASSUME NEW U, NEW H \in Grammar!Positions, NEW fs, NEW c, NEW pos, NEW arg, NEW n \in Nat,
         c.go = "ret", c.arg = arg, n = Len(fs),
         n = 0 => BehindStatement(U, H, arg, pos),
         n = 1 => BehindExpr(U, H, fs[1], arg, pos),
         n > 1 => BehindTerm(U, H, fs, arg, pos)
  PROVE  Course(U, H, fs, c, pos)
BY DEF Course

(* One more call on the stack. *)
LEMMA Pushed ==
  ASSUME NEW S, NEW fs \in Seq(S), NEW f
  PROVE  /\ Len(fs) \in Nat /\ Len(Append(fs, f)) = Len(fs) + 1
         /\ \A k \in 1 .. Len(fs) : Append(fs, f)[k] = fs[k]
         /\ Append(fs, f)[Len(fs) + 1] = f
<1>1. fs \in Seq(S \cup {f}) /\ f \in S \cup {f}
  OBVIOUS
<1> QED BY <1>1, AppendFacts

(* astparse_mult goes round with one more operand, or returns the term.    *)
LEMMA TimesLoop ==
  ASSUME Spelled, NEW U, NEW H \in Grammar!Positions, NEW S, NEW base \in Seq(S), Len(base) >= 2,
         NEW left, NEW pos \in Nat, LoopTest("mult", base, left, pos),
         NEW b \in Nat, NEW t \in Nat, InTerm(U, H, base, b, t),
         Place(t, Len(base) + 1) <= pos, Kept(U, left, Place(t, Len(base) + 1), pos),
         NoSum(t, pos), Grammar!OperandAt(pos), Grammar!ExprLast[b] = Grammar!ExprLast[pos],
         TimesAt(pos + 1) => Place(t, Len(base) + 1) = pos
  PROVE  Course(U, H, frames', ctl', currlexem')
<1>1. IsSpecial(LexemAt(pos), OpsOf("mult")) <=> TimesAt(pos + 1)
  BY Seen DEF OpsOf, TimesAt
<1>2. Len(base) \in Nat /\ Place(t, Len(base) + 1) = t + 2 * (Len(base) - 2)
  BY DEF Place
<1>3. CASE ~TimesAt(pos + 1)
  <2>1. frames' = base /\ currlexem' = pos /\ ctl' = Return(left)
    BY <1>1, <1>3 DEF LoopTest
  <2>2. ctl'.go = "ret" /\ ctl'.arg = left
    BY <2>1 DEF Return
  <2>3. BehindTerm(U, H, base, left, pos)
    BY DEF BehindTerm
  <2> QED BY <1>2, <2>1, <2>2, <2>3, CourseReturn
<1>4. CASE TimesAt(pos + 1)
  <2> DEFINE f == Frame("mult", left, NodeTypeOf(LexemAt(pos).val[2]))
  <2>1. frames' = Append(base, f) /\ currlexem' = pos + 1 /\ ctl' = Enter("mult")
    BY <1>1, <1>4 DEF LoopTest
  <2>2. ctl'.go = "mult"
    BY <2>1 DEF Enter
  <2>3. pos + 1 \in Grammar!Positions /\ pos + 1 \in 1 .. Len(lexems)
    BY <1>4 DEF TimesAt, Grammar!Symbol, Grammar!OfType, Grammar!Positions
  <2>4. f.left = left /\ f.type = NodeTypeOf(lexems[pos + 1].val[2])
    BY <2>3, Seen DEF Frame
  <2>5. Place(t, Len(base) + 1) = pos
    BY <1>4
  <2>6. Factor(U, f, pos)
    BY <1>4, <2>4, <2>5 DEF Factor
  <2> HIDE DEF f
  <2>7. PICK gs : gs = frames'
    OBVIOUS
  <2>8. /\ Len(gs) = Len(base) + 1 /\ gs[Len(gs)] = f
        /\ \A k \in 1 .. Len(base) : gs[k] = base[k]
    BY <2>1, <2>7, Pushed
  <2>9. InTerm(U, H, gs, b, t)
    BY <1>2, <2>5, <2>6, <2>8, InTermPush
  <2>10. pos + 1 + 1 = Place(t, Len(gs) + 1)
    BY <1>2, <2>5, <2>8 DEF Place
  <2>11. NoSum(t, pos + 1)
    BY <1>4, OperatorKinds DEF NoSum
  <2>12. Grammar!ExprLast[pos] = Grammar!ExprLast[pos + 2]
    <3>1. pos \in 1 .. Len(lexems) + 1
      BY DEF Grammar!OperandAt, Grammar!OfType, Grammar!Positions, Spelled
    <3>2. Grammar!OperatorAt(pos + 1)
      BY <1>4, OperatorKinds
    <3> QED BY <3>1, <3>2, ExprRules
  <2>13. pos + 1 + 1 = pos + 2 /\ pos + 2 \in 1 .. Len(lexems) + 1
    BY <2>3 DEF Spelled
  <2>14. AtOperand(U, H, gs, pos + 1)
    BY <2>9, <2>10, <2>11, <2>12, <2>13 DEF AtOperand
  <2> QED BY <2>1, <2>2, <2>7, <2>14 DEF Course
<1> QED BY <1>3, <1>4

LEMMA SecondCall ==
  ASSUME NEW S, NEW fs \in Seq(S), Len(fs) = 1, NEW f, NEW gs, gs = Append(fs, f)
  PROVE  Len(gs) = 2 /\ gs[1] = fs[1] /\ gs[2] = f
<1>1. PICK n \in Nat : n = Len(fs) /\ n = 1
  OBVIOUS
<1>2. /\ Len(gs) = n + 1 /\ gs[n + 1] = f
      /\ \A k \in 1 .. n : gs[k] = fs[k]
  <2>1. /\ Len(Append(fs, f)) = Len(fs) + 1 /\ Append(fs, f)[Len(fs) + 1] = f
        /\ \A k \in 1 .. Len(fs) : Append(fs, f)[k] = fs[k]
    BY Pushed, Zenon
  <2> QED BY <1>1, <2>1, Zenon
<1> QED BY <1>1, <1>2

(* astparse_plus goes round with the sum so far, or returns the expression. *)
LEMMA PlusLoop ==
  ASSUME Spelled, NEW U, NEW H \in Grammar!Positions, NEW S, NEW base \in Seq(S), Len(base) = 1,
         NEW left, NEW pos \in Nat, LoopTest("plus", base, left, pos),
         NEW b \in 1 .. Len(lexems) + 1, Begins(U, base[1], H, b), b <= pos,
         Kept(U, left, b, pos), Grammar!OperandAt(pos),
         Grammar!ExprLast[b] = Grammar!ExprLast[pos], ~TimesAt(pos + 1)
  PROVE  Course(U, H, frames', ctl', currlexem')
<1>1. IsSpecial(LexemAt(pos), OpsOf("plus")) <=> Grammar!AdditiveAt(pos + 1)
  BY Seen, OperatorKinds DEF OpsOf
<1>2. pos \in 1 .. Len(lexems) + 1 /\ pos <= Len(lexems) /\ Len(lexems) \in Nat
  BY DEF Grammar!OperandAt, Grammar!OfType, Grammar!Positions, Spelled
<1>3. CASE ~Grammar!AdditiveAt(pos + 1)
  <2>1. frames' = base /\ currlexem' = pos /\ ctl' = Return(left)
    BY <1>1, <1>3 DEF LoopTest
  <2>2. ctl'.go = "ret" /\ ctl'.arg = left
    BY <2>1 DEF Return
  <2>3. Grammar!ExprLast[b] = pos
    BY <1>2, <1>3, OperatorKinds, ExprRules
  <2>4. BehindExpr(U, H, base[1], left, pos)
    BY <1>2, <2>3 DEF BehindExpr
  <2>5. PICK n \in Nat : n = Len(base) /\ n = 1
    OBVIOUS
  <2>6. /\ n = 0 => BehindStatement(U, H, left, pos)
        /\ n = 1 => BehindExpr(U, H, base[1], left, pos)
        /\ n > 1 => BehindTerm(U, H, base, left, pos)
    BY <2>4, <2>5
  <2> QED BY <2>1, <2>2, <2>5, <2>6, CourseReturn
<1>4. CASE Grammar!AdditiveAt(pos + 1)
  <2> DEFINE f == Frame("plus", left, NodeTypeOf(LexemAt(pos).val[2]))
  <2>1. frames' = Append(base, f) /\ currlexem' = pos + 1 /\ ctl' = Enter("mult")
    BY <1>1, <1>4 DEF LoopTest
  <2>2. ctl'.go = "mult"
    BY <2>1 DEF Enter
  <2>3. pos + 1 \in Grammar!Positions /\ pos + 1 \in 1 .. Len(lexems)
    BY <1>4 DEF Grammar!AdditiveAt, Grammar!Symbol, Grammar!OfType, Grammar!Positions
  <2>4. f.at = "plus" /\ f.left = left /\ f.type = NodeTypeOf(lexems[pos + 1].val[2])
    BY <2>3, Seen DEF Frame
  <2> HIDE DEF f
  <2>5. PICK gs : gs = frames'
    OBVIOUS
  <2>6. Len(gs) = 2 /\ gs[1] = base[1] /\ gs[2] = f
    <3>1. gs = Append(base, f)
      BY <2>1, <2>5
    <3> QED BY <3>1, SecondCall
  <2>7. PICK t \in Nat : t = pos + 2
    OBVIOUS
  <2>8. Term(U, f, b, t)
    <3>1. t >= b + 2 /\ t - 1 = pos + 1 /\ t - 2 = pos
      BY <1>2, <2>7
    <3> QED BY <1>4, <2>4, <3>1 DEF Term
  <2>9. InTerm(U, H, gs, b, t)
    BY <1>2, <2>6, <2>7, <2>8 DEF InTerm
  <2>10. pos + 1 + 1 = Place(t, Len(gs) + 1) /\ pos + 1 + 1 = t
    BY <2>6, <2>7 DEF Place
  <2>11. NoSum(t, pos + 1)
    BY <2>7 DEF NoSum
  <2>12. Grammar!ExprLast[pos] = Grammar!ExprLast[pos + 2]
    BY <1>2, <1>4, OperatorKinds, ExprRules
  <2>13. pos + 1 + 1 \in 1 .. Len(lexems) + 1 /\ b \in Nat
    BY <1>2, <2>3
  <2>14. AtOperand(U, H, gs, pos + 1)
    BY <2>7, <2>9, <2>10, <2>11, <2>12, <2>13 DEF AtOperand
  <2> QED BY <2>1, <2>2, <2>5, <2>14 DEF Course
<1> QED BY <1>3, <1>4

(***************************************************************************)
(* A statement that has come to nothing.                                   *)
(***************************************************************************)
(* A call that is suspended leaves it as it is, and one that keeps no      *)
(* operand where it needs one brings it about.                             *)
LEMMA PushDoomed ==
  ASSUME NEW S, NEW fs \in Seq(S), NEW f, DoomedFrames(fs) \/ (f.at \in Keeps /\ f.left = NULL)
  PROVE  DoomedFrames(Append(fs, f))
<1>1. PICK gs : gs = Append(fs, f)
  OBVIOUS
<1>2. /\ Len(fs) \in Nat /\ Len(gs) = Len(fs) + 1 /\ gs[Len(fs) + 1] = f
      /\ \A k \in 1 .. Len(fs) : gs[k] = fs[k]
  BY <1>1, Pushed
<1>3. CASE DoomedFrames(fs)
  <2>1. PICK k \in 1 .. Len(fs) : fs[k].at \in Keeps /\ fs[k].left = NULL
    BY <1>3 DEF DoomedFrames
  <2>2. k \in 1 .. Len(gs) /\ gs[k] = fs[k]
    BY <1>2
  <2> QED BY <1>1, <2>1, <2>2 DEF DoomedFrames
<1>4. CASE f.at \in Keeps /\ f.left = NULL
  <2>1. PICK k : k = Len(fs) + 1
    OBVIOUS
  <2>2. k \in 1 .. Len(gs) /\ gs[k] = f
    BY <1>2, <2>1
  <2> QED BY <1>1, <1>4, <2>2 DEF DoomedFrames
<1> QED BY <1>3, <1>4

(* A loop test does not make up for a missing operand. *)
LEMMA LoopTestDoomed ==
  ASSUME NEW S, NEW level \in {"mult", "plus"}, NEW base \in Seq(S), NEW left, NEW pos,
         LoopTest(level, base, left, pos), DoomedFrames(base) \/ left = NULL
  PROVE  Doomed(frames', ctl')
<1>1. CASE frames' = base /\ ctl' = Return(left)
  BY <1>1 DEF Doomed, Return
<1>2. CASE \E f : f.at = level /\ f.left = left /\ frames' = Append(base, f)
  BY <1>2, PushDoomed DEF Doomed, Keeps
<1>3. \/ frames' = base /\ ctl' = Return(left)
      \/ \E f : f.at = level /\ f.left = left /\ frames' = Append(base, f)
  <2>1. ASSUME NEW y PROVE Frame(level, left, y).at = level /\ Frame(level, left, y).left = left
    BY DEF Frame
  <2> QED BY <2>1 DEF LoopTest
<1> QED BY <1>1, <1>2, <1>3

(* The next step finds the statement doomed too, or is the one that stops  *)
(* the program.                                                            *)
LEMMA DoomedStep ==
  ASSUME NEW V, ParserInv(V), OwnInv, Doomed(frames, ctl), ParserStep
  PROVE  Doomed(frames', ctl') \/ fault' = "null dereference"
<1>1. frames \in Seq(FrameRecord(heap))
  BY DEF ParserInv, ParserTypes
<1>2. ~(frames = <<>> /\ ctl.go # "ret")
  BY NothingWorking
<1>3. ctl.go \notin {"text", "stat"}
  BY <1>2 DEF ParserInv, CallStack
<1>4. ctl.go # "ret" => DoomedFrames(frames)
  BY DEF Doomed
<1>5. CASE NextStatement \/ EnterWrite \/ EnterExpression
  BY <1>3, <1>5 DEF NextStatement, EnterWrite, EnterExpression, Running
<1>6. CASE AddStatement
  <2>1. frames = <<>> /\ (ctl.arg = NULL => fault' = "null dereference")
    BY <1>6 DEF AddStatement
  <2>2. Len(frames) = 0
    BY <2>1
  <2>3. ~DoomedFrames(frames)
    BY <2>2 DEF DoomedFrames
  <2> QED BY <2>1, <2>3 DEF Doomed
<1>7. CASE EnterPlus
  <2>1. DoomedFrames(frames) /\ frames' = Append(frames, Frame("plus0", NULL, "PLUS"))
    BY <1>4, <1>7 DEF EnterPlus, Running
  <2>2. DoomedFrames(frames')
    BY <1>1, <2>1, PushDoomed
  <2> QED BY <2>2 DEF Doomed
<1>8. CASE EnterMult
  <2>1. DoomedFrames(frames)
    BY <1>4, <1>8 DEF EnterMult, Running
  <2>2. PICK left : LoopTest("mult", frames, left, currlexem + 1)
    BY <1>8 DEF EnterMult
  <2> QED BY <1>1, <2>1, <2>2, LoopTestDoomed
<1>9. ASSUME NEW S, Returning(S)
      PROVE  /\ Front(frames) \in Seq(FrameRecord(heap)) /\ Top.at \in S
             /\ \/ DoomedFrames(Front(frames)) /\ Top.at \notin StatFrames
                \/ Top.at \in Keeps /\ Top.left = NULL
                \/ ctl.arg = NULL
  BY <1>9, ReturnOwn
<1>10. CASE FinishWrite
  <2>1. Returning({"write"})
    BY <1>10 DEF FinishWrite
  <2>2. ctl.arg = NULL
    BY <1>9, <2>1 DEF StatFrames, Keeps
  <2> QED BY <1>10, <2>2 DEF FinishWrite
<1>11. CASE FinishExpression
  <2>1. Returning({"expr"})
    BY <1>11 DEF FinishExpression
  <2>2. ctl.arg = NULL /\ Front(frames) \in Seq(FrameRecord(heap))
    BY <1>9, <2>1 DEF StatFrames, Keeps
  <2>3. \/ frames' = Append(Front(frames), Frame("assign", NULL, "ASSIGN"))
        \/ ctl' = Return(NULL)
    BY <1>11, <2>2 DEF FinishExpression
  <2>4. Frame("assign", NULL, "ASSIGN").at = "assign" /\ Frame("assign", NULL, "ASSIGN").left = NULL
    BY DEF Frame
  <2>5. CASE frames' = Append(Front(frames), Frame("assign", NULL, "ASSIGN"))
    BY <2>2, <2>4, <2>5, PushDoomed DEF Keeps, Doomed
  <2>6. CASE ctl' = Return(NULL)
    BY <2>6 DEF Doomed, Return
  <2> QED BY <2>3, <2>5, <2>6
<1>12. CASE FinishAssign
  <2>1. Returning({"assign"})
    BY <1>12 DEF FinishAssign
  <2>2. Top.left = NULL \/ ctl.arg = NULL
    BY <1>9, <2>1 DEF StatFrames
  <2>3. ctl' = Return(NULL)
    BY <1>12, <2>2 DEF FinishAssign
  <2> QED BY <2>3 DEF Doomed, Return
<1>13. CASE FirstOperand
  <2>1. Returning({"plus0"}) /\ LoopTest("plus", Front(frames), ctl.arg, currlexem)
    BY <1>13 DEF FirstOperand
  <2>2. Front(frames) \in Seq(FrameRecord(heap)) /\ (DoomedFrames(Front(frames)) \/ ctl.arg = NULL)
    BY <1>9, <2>1 DEF Keeps
  <2> QED BY <2>1, <2>2, LoopTestDoomed
<1>14. ASSUME NEW level \in {"mult", "plus"}, RightOperand(level)
       PROVE  Doomed(frames', ctl')
  <2>1. Returning({level})
    BY <1>14 DEF RightOperand
  <2>2. CASE Top.left = NULL \/ ctl.arg = NULL
    <3>1. ctl' = Return(NULL)
      BY <1>14, <2>2 DEF RightOperand
    <3> QED BY <3>1 DEF Doomed, Return
  <2>3. CASE ~(Top.left = NULL \/ ctl.arg = NULL)
    <3>1. LoopTest(level, Front(frames), Fresh, currlexem)
      BY <1>14, <2>3 DEF RightOperand
    <3>2. Front(frames) \in Seq(FrameRecord(heap)) /\ DoomedFrames(Front(frames))
      BY <1>9, <2>1, <2>3
    <3> QED BY <3>1, <3>2, LoopTestDoomed
  <2> QED BY <2>2, <2>3
<1> QED BY <1>5, <1>6, <1>7, <1>8, <1>10, <1>11, <1>12, <1>13, <1>14 DEF ParserStep

(***************************************************************************)
(* The trees before and after a step.                                      *)
(***************************************************************************)
(* U gives the trees of the nodes after a step, T those before it.         *)
Grown(T, U) == Trees(heap', U) /\ \A n \in 1 .. Len(heap) : U[n] = T[n]

LEMMA TreesGrow ==
  ASSUME NEW V, ParserInv(V), ParserInv(V)', HeapGrows(V)
  PROVE  Grown(TreeOf, TreeOf')
<1>1. Len(heap) \in Nat /\ Len(heap') \in Nat /\ Len(heap') >= Len(heap)
  BY DEF HeapGrows
<1>2. \A n \in 1 .. Len(heap) : heap'[n] = heap[n]
  BY DEF HeapGrows
<1>3. Older(heap)
  BY DEF ParserInv, TreeShape, WellFormed, Nodes, Older
<1>4. Older(heap')
  BY DEF ParserInv, TreeShape, WellFormed, Nodes, Older
<1>5. Trees(heap, TreeOf)
  BY <1>1, <1>3, TreeOfIs
<1>6. Trees(heap', TreeOf')
  BY <1>1, <1>4, TreeOfIsNext
<1>7. PICK h, g, f, e : h = heap /\ g = heap' /\ f = TreeOf /\ e = TreeOf'
  OBVIOUS
<1>8. \A n \in 1 .. Len(h) : e[n] = f[n]
  BY <1>1, <1>2, <1>3, <1>5, <1>6, <1>7, TreesAgree
<1> QED BY <1>6, <1>7, <1>8 DEF Grown

(* The tree of a new node. *)
LEMMA NewTree ==
  ASSUME NEW V, ParserInv(V), NEW T, NEW U, Grown(T, U), NEW type, NEW val, NEW kids,
         Allocate(NewNode(type, val, kids))
  PROVE  /\ Fresh \in Nat /\ Fresh # NULL
         /\ kids = <<>> => U[Fresh] = <<val>>
         /\ \A a : kids = <<a>> => U[Fresh] = <<<<"sp", OperatorOf[type]>>, U[a]>>
         /\ \A a, b : kids = <<a, b>> => U[Fresh] = <<<<"sp", OperatorOf[type]>>, U[a], U[b]>>
<1>1. heap \in Seq(NodeRecord(V))
  BY DEF ParserInv, ParserTypes
<1>2. PICK n : n = Fresh
  OBVIOUS
<1>3. /\ Len(heap) \in Nat /\ Len(heap') = Len(heap) + 1
      /\ heap'[Len(heap) + 1] = NewNode(type, val, kids)
  BY <1>1, Pushed DEF Allocate
<1>4. n \in Nat /\ n # NULL /\ n \in 1 .. Len(heap')
  BY <1>2, <1>3 DEF Fresh, NULL
<1>5. PICK h : h = heap'
  OBVIOUS
<1>6. h[n].type = type /\ h[n].val = val /\ h[n].kids = kids
  BY <1>2, <1>3, <1>5 DEF Fresh, NewNode
<1>7. U[n] = NodeTree(h, U, n)
  BY <1>4, <1>5 DEF Grown, Trees
<1>8. /\ kids = <<>> => U[n] = <<val>>
      /\ \A a : kids = <<a>> => U[n] = <<<<"sp", OperatorOf[type]>>, U[a]>>
      /\ \A a, b : kids = <<a, b>> => U[n] = <<<<"sp", OperatorOf[type]>>, U[a], U[b]>>
  BY <1>6, <1>7, NodeTrees
<1> QED BY <1>2, <1>4, <1>8

(***************************************************************************)
(* The steps inside an expression.                                         *)
(***************************************************************************)
(* The statement at H is still on its course after a step, or it is known  *)
(* to come to nothing and the grammar rejects it.                          *)
Stays(U, H) ==
  \/ Course(U, H, frames', ctl', currlexem')
  \/ Doomed(frames', ctl') /\ Grammar!StatementAt(H) = Grammar!Rejected

(* What the calls keep exists. *)
LEMMA StackFacts ==
  ASSUME NEW V, ParserInv(V)
  PROVE  /\ frames \in Seq(FrameRecord(heap)) /\ Len(frames) \in Nat
         /\ \A k \in 1 .. Len(frames) : frames[k].left \in 0 .. Len(heap)
         /\ ctl.arg \in 0 .. Len(heap) /\ currlexem \in Nat /\ Len(heap) \in Nat
<1>1. frames \in Seq(FrameRecord(heap)) /\ currlexem \in Nat
  BY DEF ParserInv, ParserTypes
<1>2. \A k \in 1 .. Len(frames) : frames[k] \in FrameRecord(heap)
  BY <1>1
<1>3. \A k \in 1 .. Len(frames) : frames[k].left \in 0 .. Len(heap)
  BY <1>2 DEF FrameRecord
<1> QED BY <1>1, <1>3, ArgFacts

(* The calls, when one of them returns. *)
LEMMA ReturnFacts ==
  ASSUME NEW V, ParserInv(V), NEW S, Returning(S)
  PROVE  /\ ctl.go = "ret" /\ Top.at \in S /\ Top = frames[Len(frames)]
         /\ Len(frames) \in Nat /\ Len(frames) >= 1
         /\ FrameOK(heap, Len(frames), Top) /\ Top.left \in 0 .. Len(heap)
         /\ Front(frames) \in Seq(FrameRecord(heap)) /\ Len(Front(frames)) = Len(frames) - 1
         /\ \A k \in 1 .. Len(frames) - 1 : Front(frames)[k] = frames[k]
<1>1. frames \in Seq(FrameRecord(heap)) /\ frames # <<>> /\ ctl.go = "ret" /\ Top.at \in S
  BY StackFacts DEF Returning, Running
<1>2. /\ Len(frames) \in Nat \ {0} /\ Top = frames[Len(frames)]
      /\ Front(frames) \in Seq(FrameRecord(heap)) /\ Len(Front(frames)) = Len(frames) - 1
      /\ \A k \in 1 .. Len(frames) - 1 : Front(frames)[k] = frames[k]
  BY <1>1, FrontFacts DEF Top
<1>3. FrameOK(heap, Len(frames), Top) /\ Top.left \in 0 .. Len(heap)
  BY TopFrameNow
<1> QED BY <1>1, <1>2, <1>3

(* What a node or the calls span stays what it is. *)
LEMMA KeptGrown ==
  ASSUME NEW V, ParserInv(V), NEW T, NEW U, Grown(T, U),
         NEW n \in 0 .. Len(heap), NEW i, NEW j, Kept(T, n, i, j)
  PROVE  Kept(U, n, i, j)
BY StackFacts, KeptKeeps DEF Grown

LEMMA BeginsGrown ==
  ASSUME NEW V, ParserInv(V), NEW T, NEW U, Grown(T, U),
         NEW k \in 1 .. Len(frames), NEW H, NEW b, Begins(T, frames[k], H, b)
  PROVE  Begins(U, frames[k], H, b)
BY StackFacts, BeginsKeeps DEF Grown

LEMMA InTermGrown ==
  ASSUME NEW V, ParserInv(V), NEW T, NEW U, Grown(T, U), Len(frames) >= 2,
         NEW H, NEW b, NEW t, InTerm(T, H, frames, b, t)
  PROVE  InTerm(U, H, frames, b, t)
BY StackFacts, InTermKeeps DEF Grown

(* The step EnterPlus keeps the course. *)
LEMMA EnterPlusCourse ==
  ASSUME NEW V, ParserInv(V), Spelled, NEW T, NEW U, Grown(T, U), NEW H \in Grammar!Positions,
         Course(T, H, frames, ctl, currlexem), EnterPlus
  PROVE  Stays(U, H)
<1> DEFINE f == Frame("plus0", NULL, "PLUS")
<1>1. /\ ctl.go = "plus" /\ frames' = Append(frames, f) /\ ctl' = Enter("mult")
      /\ currlexem' = currlexem
  BY DEF EnterPlus, Running
<1>2. ctl'.go = "mult" /\ f.at = "plus0"
  BY <1>1 DEF Enter, Frame
<1>3. Len(frames) = 1
  BY <1>1 DEF ParserInv, CallStack
<1>4. PICK pos \in Nat, b \in Nat : pos = currlexem /\ b = pos + 1
  BY StackFacts
<1>5. Begins(T, frames[1], H, b) /\ b \in 1 .. Len(lexems) + 1 /\ b \in Nat
  BY <1>1, <1>4 DEF Course
<1> HIDE DEF f
<1>6. PICK gs : gs = frames'
  OBVIOUS
<1>7. Len(gs) = 2 /\ gs[1] = frames[1] /\ gs[2] = f
  <2>1. /\ Len(gs) = Len(frames) + 1 /\ gs[Len(frames) + 1] = f
        /\ \A k \in 1 .. Len(frames) : gs[k] = frames[k]
    BY <1>1, <1>6, StackFacts, Pushed
  <2> QED BY <1>3, <2>1
<1>8. Begins(U, gs[1], H, b)
  <2>1. 1 \in 1 .. Len(frames)
    BY <1>3
  <2> QED BY <1>5, <1>7, <2>1, BeginsGrown
<1>9. InTerm(U, H, gs, b, b)
  BY <1>2, <1>5, <1>7, <1>8 DEF InTerm, Term
<1>10. pos + 1 = Place(b, Len(gs) + 1)
  BY <1>4, <1>7 DEF Place
<1>11. NoSum(b, pos)
  BY <1>4 DEF NoSum
<1>12. AtOperand(U, H, gs, pos)
  BY <1>4, <1>5, <1>9, <1>10, <1>11 DEF AtOperand
<1> QED BY <1>1, <1>2, <1>4, <1>6, <1>12 DEF Course, Stays

(* The step EnterMult keeps the course: an operand is a tree of its own,   *)
(* and what is none leaves no expression.                                  *)
LEMMA EnterMultCourse ==
  ASSUME NEW V, ParserInv(V), Spelled, NEW T, NEW U, Grown(T, U), NEW H \in Grammar!Positions,
         Course(T, H, frames, ctl, currlexem), EnterMult
  PROVE  Stays(U, H)
<1>1. ctl.go = "mult"
  BY DEF EnterMult, Running
<1>2. PICK n \in Nat, p \in Nat, cur \in Nat : n = Len(frames) /\ cur = currlexem /\ p = cur + 1
  BY StackFacts
<1>3. n >= 2
  BY <1>1, <1>2 DEF ParserInv, CallStack
<1>4. PICK b \in Nat, t \in Nat :
        /\ InTerm(T, H, frames, b, t)
        /\ p = Place(t, n + 1) /\ p \in 1 .. Len(lexems) + 1
        /\ NoSum(t, cur)
        /\ Grammar!ExprLast[b] = Grammar!ExprLast[p]
  BY <1>1, <1>2 DEF Course, AtOperand
<1>5. LeafType(Current) = "none" <=> ~Grammar!OperandAt(p)
  BY <1>2, Seen DEF Current
<1>6. CASE ~Grammar!OperandAt(p)
  <2>1. LoopTest("mult", frames, NULL, currlexem + 1)
    BY <1>5, <1>6 DEF EnterMult
  <2>2. Doomed(frames', ctl')
    BY <2>1, StackFacts, LoopTestDoomed
  <2>3. Grammar!ExprLast[b] = 0
    BY <1>4, <1>6, ExprRules
  <2>4. Begins(T, frames[1], H, b)
    BY <1>4 DEF InTerm
  <2> QED BY <2>2, <2>3, <2>4, BeginsRejected DEF Stays
<1>7. CASE Grammar!OperandAt(p)
  <2>1. /\ LoopTest("mult", frames, Fresh, p)
        /\ Allocate(NewNode(LeafType(Current), Current.val, <<>>))
    BY <1>2, <1>5, <1>7 DEF EnterMult
  <2>2. p \in 1 .. Len(lexems) /\ Len(lexems) \in Nat
    BY <1>7 DEF Grammar!OperandAt, Grammar!OfType, Grammar!Positions, Spelled
  <2>3. Current = lexems[p]
    BY <1>2, <2>2, Seen DEF Current, Grammar!Positions
  <2>4. Fresh # NULL /\ U[Fresh] = <<lexems[p].val>>
    BY <2>1, <2>3, NewTree
  <2>5. Kept(U, Fresh, p, p)
    BY <2>2, <2>4, LeafTree DEF Kept
  <2>6. NoSum(t, p)
    BY <1>2, <1>4, <1>7, OperatorKinds DEF NoSum
  <2>7. InTerm(U, H, frames, b, t)
    <3>1. Len(frames) >= 2
      BY <1>2, <1>3
    <3> QED BY <1>4, <3>1, InTermGrown
  <2>8. PICK fs, leaf : fs = frames /\ leaf = Fresh
    OBVIOUS
  <2>9. fs \in Seq(FrameRecord(heap)) /\ Len(fs) >= 2 /\ Place(t, Len(fs) + 1) = p
    BY <1>2, <1>3, <1>4, <2>8, StackFacts
  <2>10. Course(U, H, frames', ctl', currlexem')
    BY <1>4, <1>7, <2>1, <2>5, <2>6, <2>7, <2>8, <2>9, TimesLoop
  <2> QED BY <2>10 DEF Stays
<1> QED BY <1>6, <1>7

(* The step FirstOperand keeps the course: the term is the first of its    *)
(* expression.                                                             *)
LEMMA FirstOperandCourse ==
  ASSUME NEW V, ParserInv(V), Spelled, NEW T, NEW U, Grown(T, U), NEW H \in Grammar!Positions,
         Course(T, H, frames, ctl, currlexem), FirstOperand
  PROVE  Stays(U, H)
<1>1. Returning({"plus0"}) /\ LoopTest("plus", Front(frames), ctl.arg, currlexem)
  BY DEF FirstOperand
<1>2. PICK base, arg : base = Front(frames) /\ arg = ctl.arg
  OBVIOUS
<1>3. PICK pos \in Nat : pos = currlexem
  BY StackFacts
<1>4. /\ ctl.go = "ret" /\ Top.at = "plus0" /\ Top = frames[Len(frames)]
      /\ FrameOK(heap, Len(frames), Top)
      /\ base \in Seq(FrameRecord(heap)) /\ Len(base) = Len(frames) - 1
      /\ \A k \in 1 .. Len(frames) - 1 : base[k] = frames[k]
  BY <1>1, <1>2, <1>3, ReturnFacts
<1>5. Len(frames) = 2
  BY <1>4 DEF FrameOK, PlusFrames
<1>6. Len(base) = 1 /\ base[1] = frames[1] /\ frames[2].at = "plus0"
  BY <1>4, <1>5
<1>7. BehindTerm(T, H, frames, arg, pos)
  BY <1>2, <1>3, <1>4, <1>5 DEF Course
<1>8. PICK b \in Nat, t \in Nat :
        /\ InTerm(T, H, frames, b, t)
        /\ Place(t, 3) <= pos
        /\ Kept(T, arg, Place(t, 3), pos)
        /\ NoSum(t, pos) /\ Grammar!OperandAt(pos)
        /\ Grammar!ExprLast[b] = Grammar!ExprLast[pos]
  BY <1>5, <1>7 DEF BehindTerm
<1>9. t = b /\ b \in 1 .. Len(lexems) + 1 /\ Begins(T, frames[1], H, b) /\ Place(t, 3) = b
  BY <1>6, <1>8 DEF InTerm, Term, Place
<1>10. arg \in 0 .. Len(heap) /\ 1 \in 1 .. Len(frames)
  BY <1>2, <1>5, StackFacts
<1>11. Kept(U, arg, b, pos)
  BY <1>8, <1>9, <1>10, KeptGrown
<1>12. Begins(U, base[1], H, b)
  BY <1>6, <1>9, <1>10, BeginsGrown
<1>13. ~TimesAt(pos + 1)
  <2>1. arg # NULL
    BY <1>8 DEF Kept
  <2>2. ~IsSpecial(LexemAt(pos), MultiplicativeOps)
    BY <1>2, <1>3, <1>4, <1>5, <2>1 DEF ParserInv, CallStack, Current
  <2> QED BY <2>2, Seen DEF TimesAt
<1>14. LoopTest("plus", base, arg, pos) /\ b <= pos
  BY <1>1, <1>2, <1>3, <1>8, <1>9
<1>15. Course(U, H, frames', ctl', currlexem')
  BY <1>4, <1>6, <1>8, <1>9, <1>11, <1>12, <1>13, <1>14, PlusLoop
<1> QED BY <1>15 DEF Stays

(* The step RightOperand("plus") keeps the course: the sum so far and the  *)
(* term behind its operator have the tree of a longer sum.                 *)
LEMMA RightTermCourse ==
  ASSUME NEW V, ParserInv(V), Spelled, NEW T, NEW U, Grown(T, U), NEW H \in Grammar!Positions,
         Course(T, H, frames, ctl, currlexem), RightOperand("plus")
  PROVE  Stays(U, H)
<1>1. Returning({"plus"})
  BY DEF RightOperand
<1>2. PICK base, arg, left : base = Front(frames) /\ arg = ctl.arg /\ left = Top.left
  OBVIOUS
<1>3. PICK pos \in Nat : pos = currlexem
  BY StackFacts
<1>4. /\ ctl.go = "ret" /\ Top.at = "plus" /\ Top = frames[Len(frames)]
      /\ FrameOK(heap, Len(frames), Top)
      /\ base \in Seq(FrameRecord(heap)) /\ Len(base) = Len(frames) - 1
      /\ \A k \in 1 .. Len(frames) - 1 : base[k] = frames[k]
  BY <1>1, <1>2, <1>3, ReturnFacts, SMTT(30)
<1>5. Len(frames) = 2
  BY <1>4 DEF FrameOK, PlusFrames
<1>6. /\ Len(base) = 1 /\ base[1] = frames[1] /\ frames[2].at = "plus"
      /\ frames[2].left = left /\ frames[2].type = Top.type
  BY <1>2, <1>3, <1>4, <1>5
<1>7. BehindTerm(T, H, frames, arg, pos)
  BY <1>2, <1>3, <1>4, <1>5 DEF Course
<1>8. PICK b \in Nat, t \in Nat :
        /\ InTerm(T, H, frames, b, t)
        /\ Place(t, 3) <= pos
        /\ Kept(T, arg, Place(t, 3), pos)
        /\ NoSum(t, pos) /\ Grammar!OperandAt(pos)
        /\ Grammar!ExprLast[b] = Grammar!ExprLast[pos]
  BY <1>5, <1>7 DEF BehindTerm
<1>9. /\ b \in 1 .. Len(lexems) + 1 /\ Begins(T, frames[1], H, b) /\ Place(t, 3) = t
      /\ t >= b + 2 /\ Grammar!AdditiveAt(t - 1)
      /\ Top.type = NodeTypeOf(lexems[t - 1].val[2])
      /\ Kept(T, left, b, t - 2)
  BY <1>6, <1>8 DEF InTerm, Term, Place
<1>10. arg \in 0 .. Len(heap) /\ left \in 0 .. Len(heap) /\ 1 \in 1 .. Len(frames)
  BY <1>1, <1>2, <1>5, StackFacts, ReturnFacts
<1>11. Kept(U, arg, t, pos) /\ Kept(U, left, b, t - 2)
  <2>1. Kept(T, arg, t, pos) /\ Kept(T, left, b, t - 2)
    BY <1>8, <1>9
  <2>2. Kept(U, arg, t, pos)
    BY <1>10, <2>1, KeptGrown
  <2>3. Kept(U, left, b, t - 2)
    BY <1>10, <2>1, KeptGrown
  <2> QED BY <2>2, <2>3
<1>12. Begins(U, base[1], H, b)
  BY <1>6, <1>9, <1>10, BeginsGrown
<1>13. arg # NULL /\ left # NULL
  BY <1>11 DEF Kept
<1>14. ~TimesAt(pos + 1)
  <2>1. ~IsSpecial(LexemAt(pos), MultiplicativeOps)
    BY <1>2, <1>3, <1>4, <1>5, <1>13 DEF ParserInv, CallStack, Current
  <2> QED BY <2>1, Seen DEF TimesAt
<1>15. /\ Allocate(NewNode(Top.type, NoVal, <<left, arg>>))
       /\ LoopTest("plus", base, Fresh, pos)
  BY <1>2, <1>3, <1>13 DEF RightOperand
<1>16. Fresh # NULL /\ U[Fresh] = <<<<"sp", OperatorOf[Top.type]>>, U[left], U[arg]>>
  BY <1>15, NewTree
<1>17. PICK at \in Nat : at = t - 1 /\ at - 1 = t - 2 /\ at + 1 = t
  BY <1>9
<1>18. lexems[at].val = <<"sp", OperatorOf[Top.type]>>
  BY <1>9, <1>17, OperatorNames
<1>19. /\ Len(lexems) \in Nat /\ pos \in 1 .. Len(lexems) /\ b \in 1 .. Len(lexems)
       /\ at \in b + 1 .. pos - 1 /\ b <= pos
  BY <1>8, <1>9, <1>17, SMTT(30) DEF Spelled, Grammar!OperandAt, Grammar!OfType, Grammar!Positions
<1>20. Grammar!Tree[<<b, pos>>] =
         <<lexems[at].val, Grammar!Tree[<<b, at - 1>>], Grammar!Tree[<<at + 1, pos>>]>>
  BY <1>8, <1>9, <1>17, <1>19, SumTree
<1>21. Kept(U, Fresh, b, pos)
  BY <1>11, <1>16, <1>17, <1>18, <1>20 DEF Kept
<1>22. PICK new : new = Fresh
  OBVIOUS
<1>23. Course(U, H, frames', ctl', currlexem')
  BY <1>4, <1>6, <1>8, <1>9, <1>12, <1>14, <1>15, <1>19, <1>21, <1>22, PlusLoop
<1> QED BY <1>23 DEF Stays

(* The step RightOperand("mult") keeps the course: an operand and the rest *)
(* of the term behind its operator have the tree of a longer product.      *)
LEMMA RightFactorCourse ==
  ASSUME NEW V, ParserInv(V), Spelled, NEW T, NEW U, Grown(T, U), NEW H \in Grammar!Positions,
         Course(T, H, frames, ctl, currlexem), RightOperand("mult")
  PROVE  Stays(U, H)
<1>1. Returning({"mult"})
  BY DEF RightOperand
<1>2. PICK base, arg, left : base = Front(frames) /\ arg = ctl.arg /\ left = Top.left
  OBVIOUS
<1>3. PICK pos \in Nat, n \in Nat : pos = currlexem /\ n = Len(frames)
  BY StackFacts
<1>4. /\ ctl.go = "ret" /\ Top.at = "mult" /\ Top = frames[n] /\ n >= 1
      /\ FrameOK(heap, n, Top)
      /\ base \in Seq(FrameRecord(heap)) /\ Len(base) = n - 1
      /\ \A k \in 1 .. n - 1 : base[k] = frames[k]
  BY <1>1, <1>2, <1>3, ReturnFacts, SMTT(30)
<1>5. n >= 3
  BY <1>4 DEF FrameOK, PlusFrames, StatFrames
<1>6. BehindTerm(T, H, frames, arg, pos)
  BY <1>2, <1>3, <1>4, <1>5 DEF Course
<1>7. PICK b \in Nat, t \in Nat :
        /\ InTerm(T, H, frames, b, t)
        /\ Place(t, n + 1) <= pos
        /\ Kept(T, arg, Place(t, n + 1), pos)
        /\ NoSum(t, pos) /\ Grammar!OperandAt(pos)
        /\ Grammar!ExprLast[b] = Grammar!ExprLast[pos]
  BY <1>2, <1>3, <1>6 DEF BehindTerm
<1>8. PICK o \in Nat : o = Place(t, n) /\ Place(t, n + 1) = o + 2 /\ o >= t
  BY <1>5 DEF Place
<1>9. /\ TimesAt(o + 1) /\ Top.type = NodeTypeOf(lexems[o + 1].val[2])
      /\ Kept(T, left, o, o) /\ t >= b /\ b \in 1 .. Len(lexems) + 1
  <2>1. n \in 3 .. n /\ n \in 3 .. Len(frames)
    BY <1>2, <1>3, <1>5
  <2>2. Factor(T, frames[n], Place(t, n)) /\ t >= b /\ b \in 1 .. Len(lexems) + 1
    BY <1>7, <2>1 DEF InTerm
  <2> QED BY <1>2, <1>3, <1>4, <1>8, <2>2 DEF Factor
<1>10. arg \in 0 .. Len(heap) /\ left \in 0 .. Len(heap)
  BY <1>1, <1>2, StackFacts, ReturnFacts
<1>11. Kept(U, arg, o + 2, pos) /\ Kept(U, left, o, o)
  <2>1. Kept(T, arg, o + 2, pos) /\ Kept(T, left, o, o)
    BY <1>7, <1>8, <1>9
  <2>2. Kept(U, arg, o + 2, pos)
    BY <1>10, <2>1, KeptGrown
  <2>3. Kept(U, left, o, o)
    BY <1>10, <2>1, KeptGrown
  <2> QED BY <2>2, <2>3
<1>12. InTerm(U, H, base, b, t)
  <2>1. InTerm(U, H, frames, b, t)
    <3>1. Len(frames) >= 2
      BY <1>3, <1>5
    <3> QED BY <1>7, <3>1, InTermGrown
  <2>2. PICK fs : fs = frames
    OBVIOUS
  <2>3. /\ Len(fs) \in Nat /\ Len(base) \in Nat /\ Len(fs) >= Len(base) /\ Len(base) >= 2
        /\ \A k \in 1 .. Len(base) : base[k] = fs[k]
    BY <1>3, <1>4, <1>5, <2>2
  <2> QED BY <2>1, <2>2, <2>3, InTermBase
<1>13. arg # NULL /\ left # NULL
  BY <1>11 DEF Kept
<1>14. ~TimesAt(pos + 1)
  <2>1. ~IsSpecial(LexemAt(pos), MultiplicativeOps)
    BY <1>2, <1>3, <1>4, <1>5, <1>13 DEF ParserInv, CallStack, Current
  <2> QED BY <2>1, Seen DEF TimesAt
<1>15. /\ Allocate(NewNode(Top.type, NoVal, <<left, arg>>))
       /\ LoopTest("mult", base, Fresh, pos)
  BY <1>2, <1>3, <1>13 DEF RightOperand
<1>16. Fresh # NULL /\ U[Fresh] = <<<<"sp", OperatorOf[Top.type]>>, U[left], U[arg]>>
  BY <1>15, NewTree
<1>17. lexems[o + 1].val = <<"sp", OperatorOf[Top.type]>>
  BY <1>9, OperatorNames
<1>18. /\ Len(lexems) \in Nat /\ pos \in 1 .. Len(lexems) /\ o \in 1 .. Len(lexems)
       /\ o + 2 <= pos /\ o <= pos
  BY <1>7, <1>8, <1>9 DEF Spelled, Grammar!OperandAt, Grammar!OfType, Grammar!Positions
<1>19. NoSum(o, pos)
  BY <1>7, <1>8 DEF NoSum
<1>20. Grammar!Tree[<<o, pos>>] =
         <<lexems[o + 1].val, Grammar!Tree[<<o, o>>], Grammar!Tree[<<o + 2, pos>>]>>
  BY <1>18, <1>19, ProductTree
<1>21. Kept(U, Fresh, o, pos)
  BY <1>11, <1>16, <1>17, <1>20 DEF Kept
<1>22. PICK new : new = Fresh
  OBVIOUS
<1>23. Len(base) >= 2 /\ Place(t, Len(base) + 1) = o
  <2>1. Len(base) + 1 = n
    BY <1>4
  <2> QED BY <1>5, <1>8, <2>1
<1>24. Course(U, H, frames', ctl', currlexem')
  BY <1>4, <1>7, <1>12, <1>14, <1>15, <1>18, <1>21, <1>22, <1>23, TimesLoop
<1> QED BY <1>24 DEF Stays

(***************************************************************************)
(* The steps of a statement.                                               *)
(***************************************************************************)
(* The first call of a statement. *)
LEMMA FirstCall ==
  ASSUME NEW U, NEW H \in Grammar!Positions, NEW f, frames' = <<f>>, ctl' = Enter("plus"),
         NEW b \in 1 .. Len(lexems) + 1, currlexem' + 1 = b, Begins(U, f, H, b)
  PROVE  Course(U, H, frames', ctl', currlexem')
<1>1. ctl'.go = "plus"
  BY DEF Enter
<1>2. PICK gs, pos : gs = frames' /\ pos = currlexem'
  OBVIOUS
<1>3. gs[1] = f
  BY <1>2
<1> QED BY <1>1, <1>2, <1>3 DEF Course

(* The step EnterWrite keeps the course. *)
LEMMA EnterWriteCourse ==
  ASSUME NEW V, ParserInv(V), Spelled, NEW T, NEW U, Grown(T, U), NEW H \in Grammar!Positions,
         Course(T, H, frames, ctl, currlexem), EnterWrite
  PROVE  Stays(U, H)
<1> DEFINE f == Frame("write", NULL, "WRITE")
<1>1. /\ ctl.go = "stat" /\ IsSpecial(Current, {"kwwrite"}) /\ currlexem' = currlexem + 1
      /\ frames' = Append(frames, f) /\ ctl' = Enter("plus")
  BY DEF EnterWrite, Running
<1>2. f.at = "write"
  BY DEF Frame
<1> HIDE DEF f
<1>3. frames = <<>> /\ frames' = <<f>>
  BY <1>1 DEF ParserInv, CallStack
<1>4. PICK pos \in Nat : pos = currlexem
  BY StackFacts
<1>5. pos + 1 = H /\ H \in 1 .. Len(lexems) /\ Len(lexems) \in Nat
  BY <1>1, <1>4 DEF Course, Grammar!Positions, Spelled
<1>6. Grammar!Symbol(H, {"kwwrite"})
  BY <1>1, <1>4, <1>5, Seen DEF Current
<1>7. PICK b \in 1 .. Len(lexems) + 1 : b = H + 1 /\ currlexem' + 1 = b
  BY <1>1, <1>4, <1>5
<1>8. Begins(U, f, H, b)
  BY <1>2, <1>6, <1>7 DEF Begins
<1>9. Course(U, H, frames', ctl', currlexem')
  BY <1>1, <1>3, <1>7, <1>8, FirstCall
<1> QED BY <1>9 DEF Stays

(* The step EnterExpression keeps the course. *)
LEMMA EnterExpressionCourse ==
  ASSUME NEW V, ParserInv(V), Spelled, NEW T, NEW U, Grown(T, U), NEW H \in Grammar!Positions,
         Course(T, H, frames, ctl, currlexem), EnterExpression
  PROVE  Stays(U, H)
<1> DEFINE f == Frame("expr", NULL, "ASSIGN")
<1>1. /\ ctl.go = "stat" /\ ~IsSpecial(Current, {"kwwrite"}) /\ currlexem' = currlexem
      /\ frames' = Append(frames, f) /\ ctl' = Enter("plus")
  BY DEF EnterExpression, Running
<1>2. f.at = "expr"
  BY DEF Frame
<1> HIDE DEF f
<1>3. frames = <<>> /\ frames' = <<f>>
  BY <1>1 DEF ParserInv, CallStack
<1>4. PICK pos \in Nat : pos = currlexem
  BY StackFacts
<1>5. pos + 1 = H /\ H \in 1 .. Len(lexems) /\ Len(lexems) \in Nat
  BY <1>1, <1>4 DEF Course, Grammar!Positions, Spelled
<1>6. ~Grammar!Symbol(H, {"kwwrite"})
  BY <1>1, <1>4, <1>5, Seen DEF Current
<1>7. PICK b \in 1 .. Len(lexems) + 1 : b = H /\ currlexem' + 1 = b
  BY <1>1, <1>4, <1>5
<1>8. Begins(U, f, H, b)
  BY <1>2, <1>6, <1>7 DEF Begins
<1>9. Course(U, H, frames', ctl', currlexem')
  BY <1>1, <1>3, <1>7, <1>8, FirstCall
<1> QED BY <1>9 DEF Stays

(* The state in which the last expression of a statement comes back.       *)
LEMMA StatementReturns ==
  ASSUME NEW V, ParserInv(V), NEW T, NEW H, NEW S, S \subseteq StatFrames, Returning(S),
         Course(T, H, frames, ctl, currlexem)
  PROVE  /\ frames[1] = Top /\ Top.at \in S /\ ctl.go = "ret"
         /\ 1 \in 1 .. Len(frames) /\ Front(frames) = <<>>
         /\ Top.left \in 0 .. Len(heap) /\ ctl.arg \in 0 .. Len(heap)
         /\ BehindExpr(T, H, Top, ctl.arg, currlexem)
<1>1. /\ ctl.go = "ret" /\ Top.at \in S /\ Top = frames[Len(frames)]
      /\ FrameOK(heap, Len(frames), Top) /\ Top.left \in 0 .. Len(heap)
      /\ Front(frames) \in Seq(FrameRecord(heap)) /\ Len(Front(frames)) = Len(frames) - 1
  BY ReturnFacts
<1>2. Len(frames) = 1
  BY <1>1 DEF FrameOK
<1>3. Front(frames) = <<>>
  BY <1>1, <1>2
<1>4. BehindExpr(T, H, frames[1], ctl.arg, currlexem)
  BY <1>1, <1>2 DEF Course
<1> QED BY <1>1, <1>2, <1>3, <1>4, StackFacts

(* A statement is complete. *)
LEMMA StatementDone ==
  ASSUME NEW U, NEW H \in Grammar!Positions, frames' = <<>>, NEW n, ctl' = Return(n), n # NULL,
         NEW k \in {"write", "bare", "assign"}, NEW t, NEW v, NEW next,
         Grammar!StatementAt(H) = Grammar!Statement(k, t, v, next),
         U[n] = Grammar!StatementTree(Grammar!StatementAt(H)),
         next = currlexem' + 1, currlexem' >= H
  PROVE  Course(U, H, frames', ctl', currlexem')
<1>1. ctl'.go = "ret" /\ ctl'.arg = n
  BY DEF Return
<1>2. PICK s : s = Grammar!StatementAt(H)
  OBVIOUS
<1>3. s # Grammar!Rejected /\ s.next = next
  BY <1>2, StatementTrees
<1>4. BehindStatement(U, H, n, currlexem')
  BY <1>2, <1>3 DEF BehindStatement
<1>5. PICK l \in Nat : l = Len(frames') /\ l = 0
  OBVIOUS
<1>6. /\ l = 0 => BehindStatement(U, H, n, currlexem')
      /\ l = 1 => BehindExpr(U, H, frames'[1], n, currlexem')
      /\ l > 1 => BehindTerm(U, H, frames', n, currlexem')
  BY <1>4, <1>5
<1> QED BY <1>1, <1>5, <1>6, CourseReturn

(* The step FinishWrite, when there is an expression, completes a write. *)
LEMMA FinishWriteCourse ==
  ASSUME NEW V, ParserInv(V), Spelled, NEW T, NEW U, Grown(T, U), NEW H \in Grammar!Positions,
         Course(T, H, frames, ctl, currlexem), FinishWrite
  PROVE  Stays(U, H) /\ fault' = "none"
<1>1. Returning({"write"}) /\ {"write"} \subseteq StatFrames /\ fault = "none"
  BY DEF FinishWrite, StatFrames, Returning, Running
<1>2. /\ Top = frames[1] /\ Top.at \in {"write"} /\ Front(frames) = <<>>
      /\ ctl.arg \in 0 .. Len(heap) /\ BehindExpr(T, H, Top, ctl.arg, currlexem)
  BY <1>1, StatementReturns
<1>3. PICK arg \in 0 .. Len(heap) : arg = ctl.arg
  BY <1>2
<1>4. PICK pos \in Nat : pos = currlexem
  BY StackFacts
<1>5. PICK b \in 1 .. Len(lexems) + 1 :
        Begins(T, Top, H, b) /\ b <= pos /\ Kept(T, arg, b, pos) /\ Grammar!ExprLast[b] = pos
  BY <1>2, <1>3, <1>4 DEF BehindExpr
<1>6. b = H + 1 /\ Grammar!Symbol(H, {"kwwrite"}) /\ H \in Nat
  BY <1>2, <1>5 DEF Begins, Grammar!Positions
<1>7. Kept(U, arg, b, pos) /\ arg # NULL
  <2>1. Kept(U, arg, b, pos)
    BY <1>5, KeptGrown
  <2> QED BY <2>1 DEF Kept
<1>8. /\ Allocate(NewNode("WRITE", NoVal, <<arg>>)) /\ frames' = <<>> /\ ctl' = Return(Fresh)
      /\ currlexem' = pos + 1 /\ fault' = "none"
  BY <1>1, <1>2, <1>3, <1>4, <1>7 DEF FinishWrite
<1>9. Fresh # NULL /\ U[Fresh] = <<<<"sp", "kwwrite">>, U[arg]>>
  BY <1>8, NewTree DEF OperatorOf
<1>10. Grammar!StatementAt(H) = Grammar!Statement("write", <<>>, <<H + 1, pos>>, pos + 2)
  <2>1. pos = Grammar!ExprLast[H + 1] /\ pos # 0
    BY <1>5, <1>6
  <2> QED BY <1>6, <2>1, WriteRead
<1>11. U[Fresh] = Grammar!StatementTree(Grammar!StatementAt(H))
  BY <1>6, <1>7, <1>9, <1>10, StatementTrees DEF Kept
<1>12. PICK n, next : n = Fresh /\ next = pos + 2 /\ next = currlexem' + 1 /\ currlexem' >= H
  BY <1>5, <1>6, <1>8
<1>13. Course(U, H, frames', ctl', currlexem')
  BY <1>8, <1>9, <1>10, <1>11, <1>12, StatementDone
<1> QED BY <1>8, <1>13 DEF Stays

(* The step FinishAssign completes an assignment. *)
LEMMA FinishAssignCourse ==
  ASSUME NEW V, ParserInv(V), Spelled, NEW T, NEW U, Grown(T, U), NEW H \in Grammar!Positions,
         Course(T, H, frames, ctl, currlexem), FinishAssign
  PROVE  Stays(U, H)
<1>1. Returning({"assign"}) /\ {"assign"} \subseteq StatFrames
  BY DEF FinishAssign, StatFrames
<1>2. /\ Top = frames[1] /\ Top.at \in {"assign"} /\ Front(frames) = <<>>
      /\ Top.left \in 0 .. Len(heap)
      /\ ctl.arg \in 0 .. Len(heap) /\ BehindExpr(T, H, Top, ctl.arg, currlexem)
  BY <1>1, StatementReturns
<1>3. PICK arg \in 0 .. Len(heap), left \in 0 .. Len(heap) : arg = ctl.arg /\ left = Top.left
  BY <1>2
<1>4. PICK pos \in Nat : pos = currlexem
  BY StackFacts
<1>5. PICK b \in 1 .. Len(lexems) + 1 :
        Begins(T, Top, H, b) /\ b <= pos /\ Kept(T, arg, b, pos) /\ Grammar!ExprLast[b] = pos
  BY <1>2, <1>3, <1>4 DEF BehindExpr
<1>6. H \in Nat /\ H # 0 /\ Len(lexems) \in Nat
  BY DEF Grammar!Positions, Spelled
<1>7. PICK e \in Nat :
        /\ e = Grammar!ExprLast[H] /\ e >= H /\ b = e + 2
        /\ ~Grammar!Symbol(H, {"kwwrite"}) /\ Grammar!Symbol(e + 1, {"assign"})
        /\ Kept(T, left, H, e)
  BY <1>2, <1>3, <1>5, <1>6 DEF Begins
<1>8. Kept(U, arg, b, pos)
  BY <1>5, KeptGrown
<1>9. Kept(U, left, H, e)
  BY <1>7, KeptGrown
<1>10. arg # NULL /\ left # NULL
  BY <1>8, <1>9 DEF Kept
<1>11. /\ Allocate(NewNode("ASSIGN", NoVal, <<left, arg>>)) /\ frames' = <<>>
       /\ ctl' = Return(Fresh) /\ currlexem' = pos + 1
  BY <1>2, <1>3, <1>4, <1>10 DEF FinishAssign
<1>12. Fresh # NULL /\ U[Fresh] = <<<<"sp", "assign">>, U[left], U[arg]>>
  BY <1>11, NewTree DEF OperatorOf
<1>13. Grammar!StatementAt(H) = Grammar!Statement("assign", <<H, e>>, <<e + 2, pos>>, pos + 2)
  <2>1. e # 0 /\ pos # 0 /\ pos = Grammar!ExprLast[e + 2]
    BY <1>5, <1>6, <1>7, SMTT(30)
  <2> QED BY <1>7, <2>1, AssignmentRead
<1>14. U[Fresh] = Grammar!StatementTree(Grammar!StatementAt(H))
  BY <1>7, <1>8, <1>9, <1>12, <1>13, StatementTrees, SMTT(30) DEF Kept
<1>15. PICK n, next : n = Fresh /\ next = pos + 2 /\ next = currlexem' + 1 /\ currlexem' >= H
  BY <1>5, <1>6, <1>7, <1>11
<1>16. Course(U, H, frames', ctl', currlexem')
  BY <1>11, <1>12, <1>13, <1>14, <1>15, StatementDone
<1> QED BY <1>16 DEF Stays

(* The step FinishExpression keeps the course: what stands behind the      *)
(* expression decides what the statement is, or that it is none.           *)
LEMMA FinishExpressionCourse ==
  ASSUME NEW V, ParserInv(V), Spelled, NEW T, NEW U, Grown(T, U), NEW H \in Grammar!Positions,
         Course(T, H, frames, ctl, currlexem), FinishExpression
  PROVE  Stays(U, H)
<1>1. Returning({"expr"}) /\ {"expr"} \subseteq StatFrames
  BY DEF FinishExpression, StatFrames
<1>2. /\ Top = frames[1] /\ Top.at \in {"expr"} /\ Front(frames) = <<>>
      /\ ctl.arg \in 0 .. Len(heap) /\ BehindExpr(T, H, Top, ctl.arg, currlexem)
  BY <1>1, StatementReturns
<1>3. PICK arg \in 0 .. Len(heap) : arg = ctl.arg
  BY <1>2
<1>4. PICK pos \in Nat : pos = currlexem
  BY StackFacts
<1>5. PICK b \in 1 .. Len(lexems) + 1 :
        /\ Begins(T, Top, H, b) /\ b <= pos /\ pos <= Len(lexems)
        /\ Kept(T, arg, b, pos) /\ Grammar!ExprLast[b] = pos
  BY <1>2, <1>3, <1>4 DEF BehindExpr
<1>6. /\ b = H /\ ~Grammar!Symbol(H, {"kwwrite"}) /\ H \in Nat /\ H # 0 /\ Len(lexems) \in Nat
      /\ pos = Grammar!ExprLast[H] /\ pos # 0 /\ pos >= H
  BY <1>2, <1>5 DEF Begins, Grammar!Positions, Spelled
<1>7. Kept(U, arg, H, pos)
  BY <1>5, <1>6, KeptGrown
<1>8. \A S : IsSpecial(Current, S) <=> Grammar!Symbol(pos + 1, S)
  BY <1>4, Seen DEF Current
<1>9. CASE Grammar!Symbol(pos + 1, {"assign"})
  <2> DEFINE f == Frame("assign", arg, "ASSIGN")
  <2>1. /\ currlexem' = pos + 1 /\ ctl' = Enter("plus")
        /\ frames' = Append(Front(frames), f)
    BY <1>3, <1>4, <1>8, <1>9, OperatorKinds DEF FinishExpression
  <2>2. f.at = "assign" /\ f.left = arg
    BY DEF Frame
  <2> HIDE DEF f
  <2>3. frames' = <<f>>
    BY <1>2, <2>1
  <2>4. PICK b2 \in 1 .. Len(lexems) + 1 : b2 = pos + 2 /\ currlexem' + 1 = b2
    <3>1. pos + 1 \in 1 .. Len(lexems)
      BY <1>9 DEF Grammar!Symbol, Grammar!OfType, Grammar!Positions
    <3>2. currlexem' = pos + 1
      BY <2>1
    <3>3. pos + 2 \in 1 .. Len(lexems) + 1
      BY <1>6, <3>1, SMTT(30)
    <3>4. currlexem' + 1 = pos + 2
      BY <3>2
    <3> QED BY <3>3, <3>4
  <2>5. Begins(U, f, H, b2)
    <3>1. pos \in H .. Len(lexems)
      BY <1>5, <1>6
    <3> QED BY <1>6, <1>7, <1>9, <2>2, <2>4, <3>1 DEF Begins
  <2>6. Course(U, H, frames', ctl', currlexem')
    BY <2>1, <2>3, <2>4, <2>5, FirstCall
  <2> QED BY <2>6 DEF Stays
<1>10. CASE Grammar!Symbol(pos + 1, {"EOL"})
  <2>1. currlexem' = pos + 1 /\ frames' = <<>> /\ ctl' = Return(arg)
    BY <1>2, <1>3, <1>4, <1>8, <1>10, OperatorKinds DEF FinishExpression
  <2>2. Grammar!StatementAt(H) = Grammar!Statement("bare", <<>>, <<H, pos>>, pos + 2)
    BY <1>6, <1>10, ExpressionRead
  <2>3. arg # NULL /\ U[arg] = Grammar!StatementTree(Grammar!StatementAt(H))
    BY <1>7, <2>2, StatementTrees DEF Kept
  <2>4. PICK next : next = pos + 2 /\ next = currlexem' + 1 /\ currlexem' >= H
    <3>1. currlexem' = pos + 1
      BY <2>1
    <3>2. pos + 2 = currlexem' + 1
      BY <3>1
    <3>3. currlexem' >= H
      BY <1>6, <3>1
    <3> QED BY <3>2, <3>3
  <2>5. Course(U, H, frames', ctl', currlexem')
    BY <2>1, <2>2, <2>3, <2>4, StatementDone
  <2> QED BY <2>5 DEF Stays
<1>11. CASE ~Grammar!Symbol(pos + 1, {"assign"}) /\ ~Grammar!Symbol(pos + 1, {"EOL"})
  <2>1. ctl' = Return(NULL)
    BY <1>8, <1>11 DEF FinishExpression
  <2>2. Doomed(frames', ctl')
    BY <2>1 DEF Doomed, Return
  <2>3. Grammar!StatementAt(H) = Grammar!Rejected
    BY <1>6, <1>11, ExpressionRead
  <2> QED BY <2>2, <2>3 DEF Stays
<1> QED BY <1>9, <1>10, <1>11

(***************************************************************************)
(* The program that is read does not change.                               *)
(***************************************************************************)
(* What the grammar says of a program stays what it is while the parser    *)
(* works on it.                                                            *)
LEMMA SameExprLast ==
  ASSUME lexems' = lexems
  PROVE  Grammar!ExprLast' = Grammar!ExprLast
BY DEF Grammar!ExprLast, Grammar!OperandAt, Grammar!OfType, Grammar!Positions,
       Grammar!OperatorAt, Grammar!Symbol

LEMMA SameTree ==
  ASSUME lexems' = lexems
  PROVE  Grammar!Tree' = Grammar!Tree
BY DEF Grammar!Tree, Grammar!Positions, Grammar!Branches, Grammar!RootOf,
       Grammar!AdditiveAt, Grammar!Symbol, Grammar!OfType

LEMMA SameStatement ==
  ASSUME lexems' = lexems, NEW p
  PROVE  Grammar!StatementAt(p)' = Grammar!StatementAt(p)
BY SameExprLast DEF Grammar!StatementAt, Grammar!Rejected, Grammar!Statement,
                    Grammar!OfType, Grammar!Positions, Grammar!Symbol

LEMMA SameStart ==
  ASSUME lexems' = lexems
  PROVE  Grammar!Start' = Grammar!Start
BY DEF Grammar!Start, Grammar!StatementAt, Grammar!Rejected, Grammar!Statement,
       Grammar!ExprLast, Grammar!OperandAt, Grammar!OfType, Grammar!Positions,
       Grammar!OperatorAt, Grammar!Symbol

LEMMA SameStatementTree ==
  ASSUME lexems' = lexems, NEW s
  PROVE  Grammar!StatementTree(s)' = Grammar!StatementTree(s)
BY SameTree DEF Grammar!StatementTree

LEMMA SameLexems ==
  ASSUME lexems' = lexems
  PROVE  /\ Grammar!Positions' = Grammar!Positions
         /\ \A p, S : Grammar!Symbol(p, S)' <=> Grammar!Symbol(p, S)
         /\ \A p : /\ Grammar!OperandAt(p)' <=> Grammar!OperandAt(p)
                   /\ Grammar!AdditiveAt(p)' <=> Grammar!AdditiveAt(p)
                   /\ TimesAt(p)' <=> TimesAt(p)
BY DEF TimesAt, Grammar!AdditiveAt, Grammar!OperandAt, Grammar!OfType, Grammar!Positions,
       Grammar!Symbol

(* So does what the course says of the calls. *)
LEMMA SameKept ==
  ASSUME lexems' = lexems, NEW T
  PROVE  /\ \A n, i, j : Kept(T, n, i, j)' <=> Kept(T, n, i, j)
         /\ \A i, j : NoSum(i, j)' <=> NoSum(i, j)
BY SameLexems, SameTree DEF Kept, NoSum

LEMMA SameCalls ==
  ASSUME lexems' = lexems, NEW T, NEW H
  PROVE  /\ \A f, o : Factor(T, f, o)' <=> Factor(T, f, o)
         /\ \A f, b, t : Term(T, f, b, t)' <=> Term(T, f, b, t)
         /\ \A f, b : Begins(T, f, H, b)' <=> Begins(T, f, H, b)
BY SameLexems, SameKept, SameExprLast DEF Factor, Term, Begins

LEMMA SameInTerm ==
  ASSUME lexems' = lexems, NEW T, NEW H, NEW fs, NEW b, NEW t
  PROVE  InTerm(T, H, fs, b, t)' <=> InTerm(T, H, fs, b, t)
<1>1. Begins(T, fs[1], H, b)' <=> Begins(T, fs[1], H, b)
  BY SameCalls
<1>2. Term(T, fs[2], b, t)' <=> Term(T, fs[2], b, t)
  BY SameCalls
<1>3. \A k, o : Factor(T, fs[k], o)' <=> Factor(T, fs[k], o)
  BY SameCalls
<1> QED BY <1>1, <1>2, <1>3 DEF InTerm, Place

(* The course of a statement is the same one before and after a step.      *)
LEMMA SameCourse ==
  ASSUME lexems' = lexems, NEW T, NEW H, NEW fs, NEW c, NEW pos
  PROVE  Course(T, H, fs, c, pos)' <=> Course(T, H, fs, c, pos)
<1>1. AtOperand(T, H, fs, pos)' <=> AtOperand(T, H, fs, pos)
  BY SameInTerm, SameKept, SameExprLast DEF AtOperand, Place
<1>2. BehindTerm(T, H, fs, c.arg, pos)' <=> BehindTerm(T, H, fs, c.arg, pos)
  BY SameLexems, SameInTerm, SameKept, SameExprLast DEF BehindTerm, Place
<1>3. BehindExpr(T, H, fs[1], c.arg, pos)' <=> BehindExpr(T, H, fs[1], c.arg, pos)
  <2>1. \A b : Begins(T, fs[1], H, b)' <=> Begins(T, fs[1], H, b)
    BY SameCalls
  <2>2. \A b : Kept(T, c.arg, b, pos)' <=> Kept(T, c.arg, b, pos)
    BY SameKept
  <2> QED BY <2>1, <2>2, SameExprLast DEF BehindExpr
<1>4. BehindStatement(T, H, c.arg, pos)' <=> BehindStatement(T, H, c.arg, pos)
  BY SameStatement, SameStatementTree DEF BehindStatement, Grammar!Rejected, Grammar!Statement
<1>5. \A b : Begins(T, fs[1], H, b)' <=> Begins(T, fs[1], H, b)
  BY SameCalls
<1> QED BY <1>1, <1>2, <1>3, <1>4, <1>5, SameLexems DEF Course

(***************************************************************************)
(* A step and the statement it works on.                                   *)
(***************************************************************************)
(* The next statement starts at H: it is on its course, or is known to     *)
(* come to nothing and rejected by the grammar.                            *)
OnCourse(T, H, fs, c, pos) ==
  \/ Course(T, H, fs, c, pos)
  \/ /\ Doomed(fs, c)
     /\ H \in Grammar!Positions /\ Grammar!StatementAt(H) = Grammar!Rejected

LEMMA SameOnCourse ==
  ASSUME lexems' = lexems, NEW T, NEW H, NEW fs, NEW c, NEW pos
  PROVE  OnCourse(T, H, fs, c, pos)' <=> OnCourse(T, H, fs, c, pos)
<1>1. Course(T, H, fs, c, pos)' <=> Course(T, H, fs, c, pos)
  BY SameCourse
<1>2. Grammar!StatementAt(H)' = Grammar!StatementAt(H) /\ Grammar!Positions' = Grammar!Positions
  BY SameStatement, SameLexems
<1> QED BY <1>1, <1>2 DEF OnCourse, Doomed, DoomedFrames, Grammar!Rejected, Grammar!Statement

(* Every step leaves the nodes alone that exist. *)
LEMMA StepGrows ==
  ASSUME NEW V, ParserInv(V), ParserStep
  PROVE  HeapGrows(V)
<1>1. ASSUME UNCHANGED heap PROVE HeapGrows(V)
  BY <1>1, HeapSame
<1>2. ASSUME NEW type \in BuiltTypes, NEW val \in V \cup {NoVal}, NEW kids \in Seq(Nat),
             Allocate(NewNode(type, val, kids))
      PROVE  HeapGrows(V)
  BY <1>2, NewNodeFacts DEF ParserInv
<1>3. /\ {"IFSTAT", "WRITE", "ASSIGN"} \cup Tops \cup Arithmetic \subseteq BuiltTypes
      /\ NoVal \in V \cup {NoVal} /\ <<>> \in Seq(Nat)
  BY DEF NodeTypes, BuiltTypes, Tops, Literals, Arithmetic, Additive, Multiplicative
<1>4. ctl.arg \in 0 .. Len(heap) /\ Len(heap) \in Nat
  BY StackFacts
<1>5. <<ctl.arg>> \in Seq(Nat)
  BY <1>4
<1>6. ASSUME NEW S, Returning(S) PROVE Top.left \in 0 .. Len(heap)
  BY <1>6, ReturnFacts
<1>7. ASSUME NEW S, Returning(S) PROVE <<Top.left, ctl.arg>> \in Seq(Nat)
  <2>1. Top.left \in Nat /\ ctl.arg \in Nat
    BY <1>4, <1>6, <1>7
  <2> QED BY <2>1
<1>8. CASE NextStatement \/ AddStatement \/ EnterWrite \/ FinishExpression \/ EnterPlus
           \/ FirstOperand
  <2>1. UNCHANGED heap
    BY <1>8 DEF NextStatement, AddStatement, EnterWrite, FinishExpression, EnterPlus,
                FirstOperand
  <2> QED BY <1>1, <2>1
<1>9. CASE EnterExpression
  <2>1. UNCHANGED heap \/ Allocate(NewNode("IFSTAT", NoVal, <<>>))
    BY <1>9 DEF EnterExpression
  <2>2. "IFSTAT" \in BuiltTypes
    BY <1>3
  <2> QED BY <1>1, <1>2, <1>3, <2>1, <2>2
<1>10. CASE FinishWrite
  <2>1. UNCHANGED heap \/ Allocate(NewNode("WRITE", NoVal, <<ctl.arg>>))
    BY <1>10 DEF FinishWrite
  <2>2. "WRITE" \in BuiltTypes
    BY <1>3
  <2> QED BY <1>1, <1>2, <1>3, <1>5, <2>1, <2>2
<1>11. CASE FinishAssign
  <2>1. UNCHANGED heap \/ Allocate(NewNode("ASSIGN", NoVal, <<Top.left, ctl.arg>>))
    BY <1>11 DEF FinishAssign
  <2>2. Returning({"assign"})
    BY <1>11 DEF FinishAssign
  <2>3. "ASSIGN" \in BuiltTypes /\ <<Top.left, ctl.arg>> \in Seq(Nat)
    BY <1>3, <1>7, <2>2
  <2> QED BY <1>1, <1>2, <1>3, <2>1, <2>3
<1>12. CASE EnterMult
  <2>1. PICK type : type = LeafType(Current)
    OBVIOUS
  <2>2. UNCHANGED heap \/ (type # "none" /\ Allocate(NewNode(type, Current.val, <<>>)))
    BY <1>12, <2>1 DEF EnterMult
  <2>3. type # "none" => type \in BuiltTypes
    BY <1>3, <2>1 DEF LeafType, Tops, Literals
  <2>4. Current.val \in V \cup {NoVal}
    BY DEF ParserInv, ParserTypes, Current
  <2> QED BY <1>1, <1>2, <1>3, <2>2, <2>3, <2>4
<1>13. ASSUME NEW level \in {"mult", "plus"}, RightOperand(level)
       PROVE  HeapGrows(V)
  <2>1. UNCHANGED heap \/ Allocate(NewNode(Top.type, NoVal, <<Top.left, ctl.arg>>))
    BY <1>13 DEF RightOperand
  <2>2. Returning({level})
    BY <1>13 DEF RightOperand
  <2>3. FrameOK(heap, Len(frames), Top) /\ Top.at = level /\ Len(frames) \in Nat
    BY <2>2, ReturnFacts
  <2>4. Top.type \in Multiplicative \/ Top.type \in Additive
    BY <2>3 DEF FrameOK, FrameTypes, PlusFrames
  <2>5. Top.type \in BuiltTypes /\ <<Top.left, ctl.arg>> \in Seq(Nat)
    BY <1>3, <1>7, <2>2, <2>4 DEF Arithmetic, Additive, Multiplicative
  <2> QED BY <1>1, <1>2, <1>3, <2>1, <2>5
<1> QED BY <1>8, <1>9, <1>10, <1>11, <1>12, <1>13 DEF ParserStep

(* A step inside a statement leaves what has been read alone; it keeps the *)
(* statement on its course, or stops the program at a statement that the   *)
(* grammar rejects.                                                        *)
LEMMA InsideStatement ==
  ASSUME NEW V, ParserInv(V), OwnInv, Spelled, NEW T, NEW U, Grown(T, U), NEW H,
         OnCourse(T, H, frames, ctl, currlexem), ParserStep, ~NextStatement, ~AddStatement
  PROVE  /\ H \in Grammar!Positions /\ fault = "none" /\ UNCHANGED <<root, lexems>>
         /\ ctl.go # "end"
         /\ \/ fault' = "none" /\ ctl'.go # "end" /\ OnCourse(U, H, frames', ctl', currlexem')
            \/ fault' # "none" /\ Grammar!StatementAt(H) = Grammar!Rejected
<1>1. \/ EnterWrite \/ EnterExpression \/ FinishWrite \/ FinishExpression \/ FinishAssign
      \/ EnterPlus \/ EnterMult \/ FirstOperand \/ RightOperand("mult") \/ RightOperand("plus")
  BY DEF ParserStep
<1>2. fault = "none" /\ UNCHANGED <<root, lexems>> /\ ctl.go \notin {"text", "end"}
  BY <1>1 DEF EnterWrite, EnterExpression, FinishWrite, FinishExpression, FinishAssign,
     EnterPlus, EnterMult, FirstOperand, RightOperand, Returning, Running
<1>3. H \in Grammar!Positions
  BY <1>2 DEF OnCourse, Course
<1>4. ctl'.go # "end"
  <2>1. ASSUME NEW level, NEW base, NEW left, NEW pos, LoopTest(level, base, left, pos)
        PROVE  ctl'.go # "end"
    BY <2>1 DEF LoopTest, Enter, Return
  <2>2. CASE EnterMult \/ FirstOperand \/ RightOperand("mult") \/ RightOperand("plus")
    BY <2>1, <2>2 DEF EnterMult, FirstOperand, RightOperand, Return
  <2>3. CASE EnterWrite \/ EnterExpression \/ FinishAssign \/ EnterPlus
    BY <2>3 DEF EnterWrite, EnterExpression, FinishAssign, EnterPlus, Enter, Return
  <2>4. CASE FinishWrite
    <3>1. ctl' = ctl \/ ctl' = Return(Fresh)
      BY <2>4 DEF FinishWrite
    <3> QED BY <1>2, <3>1 DEF Return
  <2>5. CASE FinishExpression
    <3>1. ctl' = Enter("plus") \/ ctl' = Return(ctl.arg) \/ ctl' = Return(NULL)
      BY <2>5 DEF FinishExpression
    <3> QED BY <3>1 DEF Enter, Return
  <2> QED BY <1>1, <2>2, <2>3, <2>4, <2>5
<1>5. FinishWrite \/ fault' = "none"
  BY <1>1, <1>2 DEF EnterWrite, EnterExpression, FinishExpression, FinishAssign,
     EnterPlus, EnterMult, FirstOperand, RightOperand
<1>6. CASE Course(T, H, frames, ctl, currlexem)
  <2>1. Stays(U, H) /\ fault' = "none"
    BY <1>1, <1>3, <1>5, <1>6, EnterWriteCourse, EnterExpressionCourse, FinishWriteCourse,
       FinishExpressionCourse, FinishAssignCourse, EnterPlusCourse, EnterMultCourse,
       FirstOperandCourse, RightFactorCourse, RightTermCourse
  <2> QED BY <1>2, <1>3, <1>4, <2>1 DEF Stays, OnCourse
<1>7. CASE Doomed(frames, ctl) /\ Grammar!StatementAt(H) = Grammar!Rejected
  <2>1. Doomed(frames', ctl') \/ fault' = "null dereference"
    BY <1>7, DoomedStep
  <2>2. fault' \in {"none", "null dereference"}
    BY <1>2, <1>5 DEF FinishWrite
  <2> QED BY <1>2, <1>3, <1>4, <1>7, <2>1, <2>2 DEF OnCourse
<1> QED BY <1>6, <1>7 DEF OnCourse

(* The step NextStatement starts on a statement where one stands, and ends *)
(* the parse where the program has been read.                              *)
LEMMA NextStatementCourse ==
  ASSUME NEW V, ParserInv(V), Spelled, NEW T, NEW U, Grown(T, U), NEW H \in Nat,
         OnCourse(T, H, frames, ctl, currlexem), NextStatement
  PROVE  /\ fault = "none" /\ fault' = "none" /\ UNCHANGED <<root, lexems>>
         /\ ctl.go # "end"
         /\ ctl'.go = "end" <=> H \notin Grammar!Positions
         /\ OnCourse(U, H, frames', ctl', currlexem')
<1>1. /\ ctl.go = "text" /\ fault = "none"
      /\ ctl' = Enter(IF Current.type = "NONE" THEN "end" ELSE "stat")
      /\ UNCHANGED <<root, lexems, fault, frames, currlexem>>
  BY DEF NextStatement, Running
<1>2. frames = <<>>
  BY <1>1 DEF ParserInv, CallStack
<1>3. ~Doomed(frames, ctl)
  BY <1>1, <1>2, NothingWorking
<1>4. currlexem + 1 = H /\ currlexem \in Nat
  BY <1>1, <1>3, StackFacts DEF OnCourse, Course
<1>5. Current.type = "NONE" <=> H \notin Grammar!Positions
  BY <1>4, Seen DEF Current
<1>6. /\ ctl'.go \in {"end", "stat"}
      /\ ctl'.go = "end" <=> H \notin Grammar!Positions
  BY <1>1, <1>5 DEF Enter
<1>7. currlexem' + 1 = H
  BY <1>1, <1>4
<1>8. Course(U, H, frames', ctl', currlexem')
  BY <1>6, <1>7 DEF Course
<1> QED BY <1>1, <1>6, <1>8 DEF OnCourse

(* The step AddStatement adds the statement that the grammar reads, and    *)
(* the next one starts where the iterator stands, or stops the program at  *)
(* one that the grammar rejects.                                           *)
LEMMA AddStatementCourse ==
  ASSUME NEW V, ParserInv(V), Spelled, NEW T, NEW U, Grown(T, U), NEW H,
         OnCourse(T, H, frames, ctl, currlexem), AddStatement
  PROVE  /\ H \in Grammar!Positions /\ fault = "none" /\ lexems' = lexems /\ ctl.go # "end"
         /\ \/ /\ fault' # "none" /\ root' = root
               /\ Grammar!StatementAt(H) = Grammar!Rejected
            \/ /\ fault' = "none" /\ ctl'.go = "text"
               /\ ctl.arg \in 1 .. Len(heap) /\ root' = Append(root, ctl.arg)
               /\ Grammar!StatementAt(H) # Grammar!Rejected
               /\ T[ctl.arg] = Grammar!StatementTree(Grammar!StatementAt(H))
               /\ Grammar!StatementAt(H).next \in Nat
               /\ Grammar!StatementAt(H).next >= H + 1
               /\ OnCourse(U, Grammar!StatementAt(H).next, frames', ctl', currlexem')
<1>1. ctl.go = "ret" /\ frames = <<>> /\ fault = "none" /\ lexems' = lexems
  BY DEF AddStatement, Running
<1>2. H \in Grammar!Positions
  BY <1>1 DEF OnCourse, Course
<1>3. CASE Course(T, H, frames, ctl, currlexem)
  <2>1. Len(frames) = 0
    BY <1>1
  <2>2. BehindStatement(T, H, ctl.arg, currlexem)
    BY <1>1, <1>3, <2>1 DEF Course
  <2>3. ctl.arg # NULL /\ ctl.arg \in 1 .. Len(heap)
    BY <2>2, ArgFacts DEF BehindStatement
  <2>4. /\ fault' = "none" /\ ctl' = Enter("text") /\ root' = Append(root, ctl.arg)
        /\ currlexem' = currlexem
    BY <1>1, <2>3 DEF AddStatement
  <2>5. PICK pos \in Nat : pos = currlexem
    BY StackFacts
  <2>6. PICK next : next = Grammar!StatementAt(H).next
    OBVIOUS
  <2>7. next = pos + 1 /\ pos >= H
    BY <2>2, <2>5, <2>6 DEF BehindStatement
  <2>8. next \in Nat /\ next >= H + 1
    BY <1>2, <2>7 DEF Grammar!Positions
  <2>9. ctl'.go = "text"
    BY <2>4 DEF Enter
  <2>10. currlexem' + 1 = next
    BY <2>4, <2>5, <2>7
  <2>11. Course(U, next, frames', ctl', currlexem')
    BY <2>9, <2>10 DEF Course
  <2> QED BY <1>1, <1>2, <2>2, <2>3, <2>4, <2>6, <2>8, <2>9, <2>11
          DEF BehindStatement, OnCourse
<1>4. CASE Doomed(frames, ctl) /\ Grammar!StatementAt(H) = Grammar!Rejected
  <2>1. Len(frames) = 0
    BY <1>1
  <2>2. ctl.arg = NULL
    BY <1>4, <2>1 DEF Doomed, DoomedFrames
  <2>3. fault' = "null dereference" /\ root' = root
    BY <2>2 DEF AddStatement
  <2> QED BY <1>1, <1>2, <1>4, <2>3
<1> QED BY <1>3, <1>4 DEF OnCourse

(***************************************************************************)
(* The steps of the grammar.                                               *)
(***************************************************************************)
(* What the parser has read, and what has become of it.                    *)
Program == [i \in DOMAIN root |-> TreeOf[root[i]]]
Outcome == CASE fault # "none" -> "rejected"
             [] ctl.go = "end" -> "accepted"
             [] OTHER          -> "reading"
Next    == Grammar!Start[Len(root) + 1]

(* What has become of the program, before a step and after it. *)
LEMMA OutcomeIs ==
  /\ fault = "none" /\ ctl.go # "end" => Outcome = "reading"
  /\ fault = "none" /\ ctl.go = "end" => Outcome = "accepted"
  /\ fault # "none" /\ ctl.go # "end" => Outcome = "rejected"
BY DEF Outcome

LEMMA OutcomeIsNext ==
  /\ fault' = "none" /\ ctl'.go # "end" => Outcome' = "reading"
  /\ fault' = "none" /\ ctl'.go = "end" => Outcome' = "accepted"
  /\ fault' # "none" /\ ctl'.go # "end" => Outcome' = "rejected"
BY DEF Outcome

(* The next statement starts where the grammar reads. *)
LEMMA NextIsHere ==
  ASSUME root \in Seq(Nat)
  PROVE  Grammar!Here = Next
<1>1. PICK k : k = Len(root)
  OBVIOUS
<1>2. PICK S : S = Grammar!Start
  OBVIOUS
<1>3. Grammar!Here = S[k + 1]
  BY <1>1, <1>2 DEF Grammar!Here
<1> QED BY <1>1, <1>2, <1>3 DEF Next

(* A step of the parser that changes them so is a step of the grammar, or  *)
(* none.                                                                   *)
LEMMA AcceptStep ==
  ASSUME root \in Seq(Nat), lexems' = lexems, Program' = Program, Next \notin Grammar!Positions,
         Outcome = "reading", Outcome' = "accepted"
  PROVE  Grammar!Accept
BY NextIsHere, Zenon DEF Grammar!Accept, Program, Outcome

LEMMA RejectStep ==
  ASSUME root \in Seq(Nat), lexems' = lexems, Program' = Program, Next \in Grammar!Positions,
         Grammar!StatementAt(Next) = Grammar!Rejected,
         Outcome = "reading", Outcome' = "rejected"
  PROVE  Grammar!Reject
BY NextIsHere, Zenon DEF Grammar!Reject, Program, Outcome

LEMMA ReadStep ==
  ASSUME root \in Seq(Nat), lexems' = lexems, Next \in Grammar!Positions,
         Grammar!StatementAt(Next) # Grammar!Rejected,
         Program' = Append(Program, Grammar!StatementTree(Grammar!StatementAt(Next))),
         Outcome = "reading", Outcome' = "reading"
  PROVE  Grammar!ReadStatement
BY NextIsHere, Zenon DEF Grammar!ReadStatement, Program, Outcome

LEMMA NoStep ==
  ASSUME lexems' = lexems, Program' = Program, Outcome' = Outcome
  PROVE  UNCHANGED Grammar!grammarVars
BY Zenon DEF Grammar!grammarVars, Program, Outcome

(* The trees of the statements when one more is added. *)
LEMMA OneMoreTree ==
  ASSUME NEW r \in Seq(Nat), NEW n \in Nat, NEW T, NEW U, \A i \in 1 .. Len(r) : U[r[i]] = T[r[i]]
  PROVE  [i \in DOMAIN Append(r, n) |-> U[Append(r, n)[i]]]
           = Append([i \in DOMAIN r |-> T[r[i]]], U[n])
<1>1. PICK l \in Nat : l = Len(r)
  OBVIOUS
<1>2. PICK s : s = Append(r, n)
  OBVIOUS
<1>3. /\ DOMAIN r = 1 .. l /\ DOMAIN s = 1 .. l + 1 /\ s[l + 1] = n
      /\ \A i \in 1 .. l : s[i] = r[i]
  BY <1>1, <1>2, Pushed
<1> DEFINE S == {T[r[i]] : i \in 1 .. l} \cup {U[n]}
           p == [i \in 1 .. l |-> T[r[i]]]
           q == [i \in 1 .. l + 1 |-> U[s[i]]]
<1>4. p \in Seq(S) /\ Len(p) = l /\ (\A i \in 1 .. l : p[i] = T[r[i]])
  OBVIOUS
<1>5. \A i \in 1 .. l + 1 : q[i] = U[s[i]]
  OBVIOUS
<1>6. \A i \in 1 .. l : q[i] = T[r[i]]
  <2> SUFFICES ASSUME NEW i \in 1 .. l PROVE q[i] = T[r[i]]
    OBVIOUS
  <2>1. i \in 1 .. l + 1
    OBVIOUS
  <2> HIDE DEF q
  <2> QED BY <1>1, <1>3, <1>5, <2>1
<1>7. q[l + 1] = U[n]
  BY <1>3
<1>8. q \in Seq(S) /\ Len(q) = l + 1
  <2>1. ASSUME NEW i \in 1 .. l + 1 PROVE U[s[i]] \in S
    <3>1. CASE i = l + 1
      BY <1>3, <3>1
    <3>2. CASE i # l + 1
      <4>1. i \in 1 .. l
        BY <3>2
      <4>2. U[s[i]] = T[r[i]]
        BY <1>1, <1>3, <4>1
      <4> QED BY <4>1, <4>2
    <3> QED BY <3>1, <3>2
  <2> HIDE DEF S
  <2> QED BY <2>1
<1>9. U[n] \in S
  OBVIOUS
<1> HIDE DEF S, p, q
<1>10. /\ Append(p, U[n]) \in Seq(S) /\ Len(Append(p, U[n])) = l + 1
       /\ \A i \in 1 .. l : Append(p, U[n])[i] = p[i]
       /\ Append(p, U[n])[l + 1] = U[n]
  BY <1>4, <1>9, Pushed
<1>11. \A i \in 1 .. l + 1 : q[i] = Append(p, U[n])[i]
  BY <1>4, <1>6, <1>7, <1>10
<1>12. q = Append(p, U[n])
  BY <1>8, <1>10, <1>11, SeqEqual
<1> QED BY <1>2, <1>3, <1>12, Zenon DEF p, q

(***************************************************************************)
(* The invariant.                                                          *)
(***************************************************************************)
(* As many statements have been read as start before the next one, and the *)
(* calls that run have come some way of the next one.                      *)
GrammarInv ==
  /\ Len(root) <= Len(lexems) /\ Next \in Nat /\ Len(root) + 1 <= Next
  /\ fault = "none" => OnCourse(TreeOf, Next, frames, ctl, currlexem)

(* It holds of the state after a step, by what the step does. *)
LEMMA InvAfter ==
  ASSUME UNCHANGED lexems, NEW U, U = TreeOf', NEW H \in Nat, H = Next',
         Len(root') <= Len(lexems), Len(root') + 1 <= H,
         fault' = "none" => OnCourse(U, H, frames', ctl', currlexem')
  PROVE  GrammarInv'
<1>1. PICK fs, c, pos : fs = frames' /\ c = ctl' /\ pos = currlexem'
  OBVIOUS
<1>2. fault' = "none" => OnCourse(U, H, fs, c, pos)'
  BY <1>1, SameOnCourse
<1> QED BY <1>1, <1>2 DEF GrammarInv

(* Where the next statement starts, when none is added and when one is.    *)
LEMMA SameNext ==
  ASSUME UNCHANGED <<root, lexems>>
  PROVE  Next' = Next
BY SameStart DEF Next

LEMMA NextStart ==
  ASSUME Len(lexems) \in Nat, UNCHANGED lexems, NEW k \in 1 .. Len(lexems),
         Len(root) + 1 = k, Len(root') = k
  PROVE  Next' = Grammar!StatementAt(Next).next
<1>1. k + 1 \in 1 .. Len(lexems) + 1 /\ k + 1 # 1 /\ k + 1 - 1 = k
  OBVIOUS
<1>2. Grammar!Start[k + 1] = StartAt(Grammar!Start, k + 1)
  BY <1>1, StartIs
<1>3. Grammar!Start[k + 1] = Grammar!StatementAt(Grammar!Start[k]).next
  BY <1>1, <1>2 DEF StartAt
<1>4. Grammar!Start' = Grammar!Start
  BY SameStart
<1> QED BY <1>3, <1>4 DEF Next

(* The trees of the statements are those before the step, if none is added. *)
LEMMA SameProgram ==
  ASSUME NEW V, ParserInv(V), NEW T, T = TreeOf, NEW U, U = TreeOf', Grown(T, U), UNCHANGED root
  PROVE  Program' = Program
<1>1. root \in Seq(1 .. Len(heap))
  BY DEF ParserInv, ParserTypes, Nodes
<1>2. \A i \in DOMAIN root : U[root[i]] = T[root[i]]
  BY <1>1 DEF Grown
<1> QED BY <1>2 DEF Program

(* Every step of the parser keeps the invariant, and is a step of the      *)
(* grammar or none.                                                        *)
LEMMA GrammarStep ==
  ASSUME NEW V, ParserInv(V), ParserInv(V)', OwnInv, Spelled, GrammarInv, ParserStep
  PROVE  GrammarInv' /\ (Grammar!GrammarNext \/ UNCHANGED Grammar!grammarVars)
<1>1. Grown(TreeOf, TreeOf')
  BY StepGrows, TreesGrow
<1>2. PICK T, U : T = TreeOf /\ U = TreeOf'
  OBVIOUS
<1>3. PICK H : H = Next
  OBVIOUS
<1>4. fault = "none"
  BY DEF ParserStep, NextStatement, AddStatement, EnterWrite, EnterExpression, FinishWrite,
     FinishExpression, FinishAssign, EnterPlus, EnterMult, FirstOperand, RightOperand,
     Returning, Running
<1>5. /\ Grown(T, U) /\ OnCourse(T, H, frames, ctl, currlexem)
      /\ H \in Nat /\ Len(root) <= Len(lexems) /\ Len(root) + 1 <= H
  BY <1>1, <1>2, <1>3, <1>4 DEF GrammarInv
<1>6. /\ root \in Seq(Nat) /\ Len(root) \in Nat /\ Len(lexems) \in Nat
      /\ \A i \in 1 .. Len(root) : root[i] \in 1 .. Len(heap)
  <2>1. root \in Seq(1 .. Len(heap))
    BY DEF ParserInv, ParserTypes, Nodes
  <2> QED BY <2>1 DEF Spelled
<1>7. CASE NextStatement
  <2>1. /\ fault' = "none" /\ UNCHANGED <<root, lexems>> /\ ctl.go # "end"
        /\ ctl'.go = "end" <=> H \notin Grammar!Positions
        /\ OnCourse(U, H, frames', ctl', currlexem')
    BY <1>5, <1>7, NextStatementCourse
  <2>2. H = Next' /\ Program' = Program
    BY <1>2, <1>3, <1>5, <2>1, SameNext, SameProgram
  <2>3. GrammarInv'
    BY <1>2, <1>5, <2>1, <2>2, InvAfter
  <2>4. CASE H \in Grammar!Positions
    BY <1>4, <2>1, <2>2, <2>4, OutcomeIs, OutcomeIsNext, NoStep, <2>3
  <2>5. CASE H \notin Grammar!Positions
    <3>1. Grammar!Accept
      BY <1>3, <1>4, <1>6, <2>1, <2>2, <2>5, OutcomeIs, OutcomeIsNext, AcceptStep
    <3> QED BY <2>3, <3>1 DEF Grammar!GrammarNext
  <2> QED BY <2>4, <2>5
<1>8. ASSUME H \in Grammar!Positions, Grammar!StatementAt(H) = Grammar!Rejected,
             UNCHANGED <<root, lexems>>, ctl.go # "end", ctl'.go # "end", fault' # "none"
      PROVE  GrammarInv' /\ Grammar!Reject
  <2>1. H = Next' /\ Program' = Program
    BY <1>2, <1>3, <1>5, <1>8, SameNext, SameProgram
  <2>2. GrammarInv'
    BY <1>2, <1>5, <1>8, <2>1, InvAfter
  <2>3. Grammar!Reject
    BY <1>3, <1>4, <1>6, <1>8, <2>1, OutcomeIs, OutcomeIsNext, RejectStep
  <2> QED BY <2>2, <2>3
<1>9. CASE AddStatement
  <2>1. /\ H \in Grammar!Positions /\ lexems' = lexems /\ ctl.go # "end"
        /\ \/ /\ fault' # "none" /\ root' = root
              /\ Grammar!StatementAt(H) = Grammar!Rejected
           \/ /\ fault' = "none" /\ ctl'.go = "text"
              /\ ctl.arg \in 1 .. Len(heap) /\ root' = Append(root, ctl.arg)
              /\ Grammar!StatementAt(H) # Grammar!Rejected
              /\ T[ctl.arg] = Grammar!StatementTree(Grammar!StatementAt(H))
              /\ Grammar!StatementAt(H).next \in Nat
              /\ Grammar!StatementAt(H).next >= H + 1
              /\ OnCourse(U, Grammar!StatementAt(H).next, frames', ctl', currlexem')
    BY <1>5, <1>9, AddStatementCourse
  <2>2. CASE fault' # "none"
    <3>1. ctl'.go # "end"
      <4>1. ctl' = ctl
        BY <1>4, <1>9, <2>2 DEF AddStatement
      <4> QED BY <2>1, <4>1
    <3> QED BY <1>8, <2>1, <2>2, <3>1 DEF Grammar!GrammarNext
  <2>3. CASE fault' = "none"
    <3>1. PICK n : n = ctl.arg
      OBVIOUS
    <3>2. PICK next : next = Grammar!StatementAt(H).next
      OBVIOUS
    <3>3. /\ n \in 1 .. Len(heap) /\ n \in Nat /\ root' = Append(root, n)
          /\ T[n] = Grammar!StatementTree(Grammar!StatementAt(H))
          /\ next \in Nat /\ next >= H + 1
      BY <2>1, <2>3, <3>1, <3>2
    <3>4. PICK k : k = Len(root) + 1
      OBVIOUS
    <3>5. Len(root') = k
      BY <1>6, <3>3, <3>4
    <3>6. k \in 1 .. Len(lexems)
      BY <1>5, <1>6, <2>1, <3>4 DEF Grammar!Positions
    <3>7. next = Next'
      BY <1>3, <1>6, <2>1, <3>2, <3>4, <3>5, <3>6, NextStart
    <3>8. Len(root') <= Len(lexems) /\ Len(root') + 1 <= next
      BY <1>5, <1>6, <3>3, <3>4, <3>5, <3>6
    <3>9. OnCourse(U, next, frames', ctl', currlexem')
      BY <2>1, <2>3, <3>2
    <3>10. GrammarInv'
      BY <1>2, <2>1, <3>3, <3>7, <3>8, <3>9, InvAfter
    <3>11. U[n] = T[n] /\ (\A i \in 1 .. Len(root) : U[root[i]] = T[root[i]])
      BY <1>5, <1>6, <3>3 DEF Grown
    <3>12. Program' = Append(Program, Grammar!StatementTree(Grammar!StatementAt(H)))
      <4>1. [i \in DOMAIN Append(root, n) |-> U[Append(root, n)[i]]]
              = Append([i \in DOMAIN root |-> T[root[i]]], U[n])
        BY <1>6, <3>3, <3>11, OneMoreTree
      <4>2. Program = [i \in DOMAIN root |-> T[root[i]]]
        BY <1>2 DEF Program
      <4>3. Program' = [i \in DOMAIN Append(root, n) |-> U[Append(root, n)[i]]]
        BY <1>2, <3>3 DEF Program
      <4> QED BY <3>3, <3>11, <4>1, <4>2, <4>3
    <3>13. Grammar!ReadStatement
      BY <1>3, <1>4, <1>6, <2>1, <2>3, <3>12, OutcomeIs, OutcomeIsNext, ReadStep
    <3> QED BY <3>10, <3>13 DEF Grammar!GrammarNext
  <2> QED BY <2>2, <2>3
<1>10. CASE ~NextStatement /\ ~AddStatement
  <2>1. /\ H \in Grammar!Positions /\ UNCHANGED <<root, lexems>> /\ ctl.go # "end"
        /\ \/ fault' = "none" /\ ctl'.go # "end" /\ OnCourse(U, H, frames', ctl', currlexem')
           \/ fault' # "none" /\ Grammar!StatementAt(H) = Grammar!Rejected
    BY <1>5, <1>10, InsideStatement
  <2>2. CASE fault' = "none"
    <3>1. H = Next' /\ Program' = Program
      BY <1>2, <1>3, <1>5, <2>1, SameNext, SameProgram
    <3>2. GrammarInv'
      BY <1>2, <1>5, <2>1, <2>2, <3>1, InvAfter
    <3>3. UNCHANGED Grammar!grammarVars
      BY <1>4, <2>1, <2>2, <3>1, OutcomeIs, OutcomeIsNext, NoStep
    <3> QED BY <3>2, <3>3
  <2>3. CASE fault' # "none"
    <3>1. ctl'.go # "end"
      <4>1. FinishWrite
        BY <1>4, <1>10, <2>3 DEF ParserStep, EnterWrite, EnterExpression, FinishExpression,
           FinishAssign, EnterPlus, EnterMult, FirstOperand, RightOperand
      <4>2. ctl' = ctl
        BY <1>4, <2>3, <4>1 DEF FinishWrite
      <4> QED BY <2>1, <4>2
    <3> QED BY <1>8, <2>1, <2>3, <3>1 DEF Grammar!GrammarNext
  <2> QED BY <2>2, <2>3
<1> QED BY <1>7, <1>9, <1>10

(* What leaves the state alone does too. *)
LEMMA GrammarStutters ==
  ASSUME Spelled, GrammarInv, UNCHANGED parserVars
  PROVE  GrammarInv' /\ UNCHANGED Grammar!grammarVars
<1>1. /\ UNCHANGED <<heap, root, fault, lexems>> /\ UNCHANGED <<currlexem, frames, ctl>>
  BY DEF parserVars
<1>2. TreeOf' = TreeOf
  BY <1>1 DEF TreeOf, Nodes
<1>3. PICK U : U = TreeOf'
  OBVIOUS
<1>4. PICK H : H = Next
  OBVIOUS
<1>5. H = Next'
  BY <1>1, <1>4, SameNext
<1>6. H \in Nat /\ (fault = "none" => OnCourse(U, H, frames, ctl, currlexem))
  BY <1>2, <1>3, <1>4 DEF GrammarInv
<1>7. Len(root) <= Len(lexems) /\ Len(root) + 1 <= H
  BY <1>4 DEF GrammarInv
<1>8. GrammarInv'
  BY <1>1, <1>3, <1>5, <1>6, <1>7, InvAfter
<1>9. Program' = Program /\ Outcome' = Outcome
  BY <1>1, <1>2 DEF Program, Outcome
<1> QED BY <1>1, <1>8, <1>9, NoStep

(* It holds before the first statement, and so does what the grammar       *)
(* starts with.                                                            *)
LEMMA GrammarStarts ==
  ASSUME ParserInit, Spelled
  PROVE  GrammarInv /\ Grammar!GrammarInit
<1>1. /\ root = <<>> /\ fault = "none" /\ frames = <<>> /\ ctl = Enter("text") /\ currlexem = 0
  BY DEF ParserInit
<1>2. Len(root) = 0 /\ Len(lexems) \in Nat /\ ctl.go = "text"
  BY <1>1 DEF Spelled, Enter
<1>3. Next = 1
  <2>1. 1 \in 1 .. Len(lexems) + 1 /\ 0 + 1 = 1
    BY <1>2
  <2>2. Grammar!Start[1] = StartAt(Grammar!Start, 1)
    BY <1>2, <2>1, StartIs
  <2> QED BY <1>2, <2>1, <2>2 DEF Next, StartAt
<1>4. PICK T : T = TreeOf
  OBVIOUS
<1>5. Course(T, 1, frames, ctl, currlexem)
  BY <1>1, <1>2 DEF Course
<1>6. GrammarInv
  BY <1>2, <1>3, <1>4, <1>5 DEF GrammarInv, OnCourse
<1>7. Program = <<>> /\ Outcome = "reading"
  <2>1. DOMAIN root = {}
    BY <1>1
  <2>2. Program = <<>>
    BY <2>1 DEF Program
  <2> QED BY <1>1, <1>2, <2>2, OutcomeIs
<1>8. Grammar!GrammarInit
  BY <1>7, Zenon DEF Grammar!GrammarInit, Program, Outcome
<1> QED BY <1>6, <1>8

(***************************************************************************)
(* The theorem.                                                            *)
(***************************************************************************)
(* The parser reads the trees that operator precedence gives, statement by *)
(* statement, dies on a null pointer only at a statement that the grammar  *)
(* rejects, and ends only where the grammar has read the whole program,    *)
(* for every set of programs.  The grammar looks at a whole expression at  *)
(* once: inductive is how far the suspended calls of the astparse_*        *)
(* functions have come of it (Course), or that one of them has failed and  *)
(* that nothing the statement can still read saves it (Doomed).            *)
THEOREM ParserImplementsGrammar == ParserSpec => Grammar!GrammarSafety
<1>1. ParserInit /\ lexems \in Streams => OwnInv /\ GrammarInv /\ Grammar!GrammarInit
  BY EmptyOwnInv, GrammarStarts, StreamsAreSpelled DEF ParserInit
<1>2. /\ lexems \in Streams /\ ParserInv(Values) /\ ParserInv(Values)'
      /\ OwnInv /\ GrammarInv /\ [ParserNext]_parserVars
      => OwnInv' /\ GrammarInv' /\ [Grammar!GrammarNext]_Grammar!grammarVars
  <2> SUFFICES ASSUME lexems \in Streams, ParserInv(Values), ParserInv(Values)',
                      OwnInv, GrammarInv, [ParserNext]_parserVars
               PROVE  /\ OwnInv' /\ GrammarInv'
                      /\ Grammar!GrammarNext \/ UNCHANGED Grammar!grammarVars
    OBVIOUS
  <2>1. Spelled
    BY StreamsAreSpelled
  <2>2. CASE ParserStep
    BY <2>1, <2>2, OwnStepInv, GrammarStep
  <2>3. CASE UNCHANGED parserVars
    BY <2>1, <2>3, OwnStutters, GrammarStutters
  <2> QED BY <2>2, <2>3 DEF ParserNext, ParserDone
<1>3. ParserSpec => [](lexems \in Streams /\ ParserInv(Values))
  BY ParserInvariance
<1> QED BY <1>1, <1>2, <1>3, PTL DEF ParserSpec, Grammar!GrammarSafety
=============================================================================
