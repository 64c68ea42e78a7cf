--------------------------- MODULE DulPlaceProofs ---------------------------
(***************************************************************************)
(* count_register_count is enough: between two operations of a statement   *)
(* no more intermediate results wait to be read than it has counted.       *)
(***************************************************************************)
EXTENDS DulCompilerProofs, FiniteSetTheorems

(***************************************************************************)
(* Counting.                                                               *)
(***************************************************************************)
AtMost(S, n) == IsFiniteSet(S) /\ Cardinality(S) \in Nat /\ Cardinality(S) <= n

(* A part of a set has no more elements. *)
LEMMA AtMostPart ==
  ASSUME NEW S, NEW T, NEW n \in Nat, NEW m \in Nat, AtMost(S, n), T \subseteq S, n <= m
  PROVE  AtMost(T, m)
<1>1. IsFiniteSet(T) /\ Cardinality(T) <= Cardinality(S)
  BY FS_Subset DEF AtMost
<1>2. Cardinality(T) \in Nat
  BY <1>1, FS_CardinalityType
<1> QED BY <1>1, <1>2 DEF AtMost

(* The empty set has none. *)
LEMMA AtMostNone == AtMost({}, 0)
BY FS_EmptySet DEF AtMost

(* With one more, a set has at most one element more. *)
LEMMA AtMostMore ==
  ASSUME NEW S, NEW n \in Nat, AtMost(S, n), NEW x
  PROVE  AtMost(S \cup {x}, n + 1)
<1>1. /\ IsFiniteSet(S \cup {x}) /\ Cardinality(S) \in Nat /\ Cardinality(S) <= n
      /\ Cardinality(S \cup {x}) = IF x \in S THEN Cardinality(S) ELSE Cardinality(S) + 1
  BY FS_AddElement DEF AtMost
<1> QED BY <1>1 DEF AtMost

(* The images of a set's elements are not more than its elements.          *)
LEMMA AtMostImage ==
  ASSUME NEW S, NEW n \in Nat, AtMost(S, n), NEW f, DOMAIN f = S, NEW T,
         \A t \in T : \E x \in S : f[x] = t
  PROVE  AtMost(T, n)
<1>1. PICK g : g = [x \in {y \in S : f[y] \in T} |-> f[x]]
  OBVIOUS
<1>2. PICK U : U = {y \in S : f[y] \in T}
  OBVIOUS
<1>3. AtMost(U, n)
  BY <1>2, AtMostPart
<1>4. g \in Surjection(U, T)
  <2>1. g \in [U -> T]
    BY <1>1, <1>2
  <2>2. \A t \in T : \E x \in U : g[x] = t
    BY <1>1, <1>2
  <2> QED BY <2>1, <2>2 DEF Surjection
<1>5. IsFiniteSet(T) /\ Cardinality(T) <= Cardinality(U)
  BY <1>3, <1>4, FS_Surjection DEF AtMost
<1>6. Cardinality(T) \in Nat
  BY <1>5, FS_CardinalityType
<1> QED BY <1>3, <1>5, <1>6 DEF AtMost

(* The larger of two numbers. *)
LEMMA Larger ==
  ASSUME NEW a \in Nat, NEW b \in Nat
  PROVE  Max({a, b}) \in {a, b} /\ a <= Max({a, b}) /\ b <= Max({a, b})
<1>1. \E x \in {a, b} : \A y \in {a, b} : x >= y
  <2>1. CASE a >= b
    BY <2>1
  <2>2. CASE ~(a >= b)
    BY <2>2
  <2> QED BY <2>1, <2>2
<1>2. Max({a, b}) \in {a, b} /\ \A y \in {a, b} : Max({a, b}) >= y
  <2>1. PICK S : S = {a, b}
    OBVIOUS
  <2>2. \E x \in S : \A y \in S : x >= y
    BY <1>1, <2>1
  <2>3. Max(S) \in S /\ \A y \in S : Max(S) >= y
    BY <2>2, Zenon DEF Max
  <2> QED BY <2>1, <2>3
<1> QED BY <1>2


(***************************************************************************)
(* What the parser lets an operand be.                                     *)
(***************************************************************************)
(* The left operand of a product is no operation, the right operand of a   *)
(* sum none of the sum's level; a cast may lie between.                    *)
Precedence(h) ==
  \A n \in 1 .. Len(h) :
    /\ h[n].type \in Multiplicative => h[Base(h, h[n].kids[1])].type \in Tops
    /\ h[n].type \in Arithmetic     => h[Base(h, h[n].kids[2])].type \in Tops \cup Multiplicative

(* The kinds of the node types, and the children of an operation.          *)
LEMMA OperationKids ==
  ASSUME NEW h, NEW r, Tree(h, r), NEW n \in 1 .. Len(h), h[n].type \in Arithmetic
  PROVE  /\ Len(h[n].kids) = 2 /\ DOMAIN h[n].kids = 1 .. 2 /\ Len(h) \in Nat
         /\ \A i \in 1 .. 2 : h[n].kids[i] \in 1 .. Len(h) /\ h[h[n].kids[i]].type \in Operands
<1>1. /\ NodeShape(h, n) /\ DOMAIN h[n].kids = 1 .. Len(h[n].kids)
      /\ \A i \in 1 .. Len(h[n].kids) : h[n].kids[i] \in 1 .. Len(h)
  BY KidsOfTree
<1>2. Len(h[n].kids) = 2 /\ \A i \in 1 .. 2 : h[h[n].kids[i]].type \in Operands
  BY <1>1 DEF NodeShape, KidsFit
<1> QED BY <1>1, <1>2 DEF Tree

(* An operand, or what is below the cast that it is.                       *)
LEMMA BaseIsNode ==
  ASSUME NEW h, NEW r, Tree(h, r), NEW x \in 1 .. Len(h)
  PROVE  Base(h, x) \in 1 .. Len(h)
<1>1. CASE h[x].type = "CAST_TO_FLOAT"
  <2>1. Len(h[x].kids) = 1 /\ \A i \in 1 .. Len(h[x].kids) : h[x].kids[i] \in 1 .. Len(h)
    BY <1>1, KidsOfTree DEF NodeShape, KidsFit
  <2> QED BY <1>1, <2>1 DEF Base
<1>2. CASE h[x].type # "CAST_TO_FLOAT"
  BY <1>2 DEF Base
<1> QED BY <1>1, <1>2

(* The parser leaves it so, without a cast.                                *)
LEMMA ParsedPrecedence ==
  ASSUME Parsing
  PROVE  Precedence(heap)
<1>1. /\ Tree(heap, root)
      /\ \A n \in 1 .. Len(heap) : heap[n].type # "CAST_TO_FLOAT"
  BY ParsedTree DEF Nodes
<1>2. \A n \in 1 .. Len(heap) : WellFormed(n)
  BY DEF Parsing, ParserInv, TreeShape, Nodes
<1>3. ASSUME NEW n \in 1 .. Len(heap), heap[n].type \in Arithmetic
      PROVE  /\ heap[n].type \in Multiplicative => heap[heap[n].kids[1]].type \in Tops
             /\ heap[heap[n].kids[2]].type \in Tops \cup Multiplicative
             /\ \A i \in 1 .. 2 : Base(heap, heap[n].kids[i]) = heap[n].kids[i]
  <2>1. \A i \in 1 .. 2 : heap[n].kids[i] \in 1 .. Len(heap)
    BY <1>1, <1>3, OperationKids
  <2> QED BY <1>1, <1>2, <1>3, <2>1 DEF WellFormed, Base
<1>4. ASSUME NEW n \in 1 .. Len(heap)
      PROVE  /\ heap[n].type \in Multiplicative =>
                  heap[Base(heap, heap[n].kids[1])].type \in Tops
             /\ heap[n].type \in Arithmetic =>
                  heap[Base(heap, heap[n].kids[2])].type \in Tops \cup Multiplicative
  BY <1>3 DEF Arithmetic
<1> QED BY <1>4 DEF Precedence

(* Nodes that keep their kinds and children keep it.                       *)
LEMMA SamePrecedence ==
  ASSUME NEW h, NEW r, Tree(h, r), NEW g, Len(g) = Len(h), Precedence(h),
         \A m \in 1 .. Len(h) : g[m].type = h[m].type /\ g[m].kids = h[m].kids
  PROVE  Precedence(g)
<1>1. ASSUME NEW n \in 1 .. Len(h), h[n].type \in Arithmetic, NEW i \in 1 .. 2
      PROVE  /\ Base(g, g[n].kids[i]) = Base(h, h[n].kids[i])
             /\ g[Base(g, g[n].kids[i])].type = h[Base(h, h[n].kids[i])].type
  <2>1. PICK x : x = h[n].kids[i]
    OBVIOUS
  <2>2. x \in 1 .. Len(h) /\ Base(h, x) \in 1 .. Len(h)
    BY <1>1, <2>1, OperationKids, BaseIsNode
  <2>3. Base(g, x) = Base(h, x)
    BY <2>2 DEF Base
  <2> QED BY <1>1, <2>1, <2>2, <2>3
<1>2. Multiplicative \subseteq Arithmetic
  BY DEF Arithmetic
<1>3. ASSUME NEW n \in 1 .. Len(g)
      PROVE  /\ g[n].type \in Multiplicative => g[Base(g, g[n].kids[1])].type \in Tops
             /\ g[n].type \in Arithmetic =>
                  g[Base(g, g[n].kids[2])].type \in Tops \cup Multiplicative
  <2>1. n \in 1 .. Len(h) /\ g[n].type = h[n].type
    BY <1>3
  <2>2. CASE h[n].type \in Arithmetic
    <3>1. /\ g[Base(g, g[n].kids[1])].type = h[Base(h, h[n].kids[1])].type
          /\ g[Base(g, g[n].kids[2])].type = h[Base(h, h[n].kids[2])].type
      BY <1>1, <2>1, <2>2
    <3> QED BY <2>1, <3>1 DEF Precedence
  <2> QED BY <1>2, <2>1, <2>2
<1> QED BY <1>3 DEF Precedence

(* A folded operation is a literal, and its freed operands are not the     *)
(* children of another.                                                    *)
LEMMA FoldedPrecedence ==
  ASSUME Tree(heap, root), Folding, Precedence(heap), NEW n \in 1 .. Len(heap), Foldable(n),
         NEW type \in Literals, NEW val, BecomeLiteral(n, type, val)
  PROVE  Precedence(heap')
<1>0. \A m \in 1 .. Len(heap) : heap[m].type # "CAST_TO_FLOAT"
  BY DEF Folding
<1>1. /\ Len(heap') = Len(heap) /\ heap'[n] = NewNode(type, val, <<>>)
      /\ \A m \in 1 .. Len(heap) : m # n =>
           \/ /\ heap'[m] = heap[m] /\ \A i \in 1 .. 2 : m # heap[n].kids[i]
           \/ /\ heap'[m] = [heap[m] EXCEPT !.type = "FREED"]
              /\ heap[m].type \in Literals
              /\ \E i \in 1 .. 2 : m = heap[n].kids[i]
  BY <1>0, Folded
<1>2. heap'[n].type \in Literals
  BY <1>1 DEF NewNode
<1>3. Literals \cap Arithmetic = {} /\ "FREED" \notin Arithmetic /\ Literals \subseteq Tops
      /\ Multiplicative \subseteq Arithmetic /\ "CAST_TO_FLOAT" \notin Literals
  BY DEF Literals, Arithmetic, Additive, Multiplicative, Tops
<1>4. ASSUME NEW m \in 1 .. Len(heap), heap'[m].type \in Arithmetic
      PROVE  m # n /\ heap'[m] = heap[m]
  <2>1. m # n
    BY <1>2, <1>3, <1>4
  <2>2. ASSUME heap'[m] = [heap[m] EXCEPT !.type = "FREED"] PROVE FALSE
    <3>1. IsNode(heap[m])
      BY KidsOfTree DEF NodeShape
    <3>2. heap'[m].type = "FREED"
      BY <2>2, <3>1 DEF IsNode
    <3> QED BY <1>3, <1>4, <3>2
  <2> QED BY <1>1, <2>1, <2>2
<1>5. ASSUME NEW m \in 1 .. Len(heap), heap[m].type \in Arithmetic, m # n, NEW i \in 1 .. 2
      PROVE  \/ heap[m].kids[i] = n
             \/ heap'[heap[m].kids[i]] = heap[heap[m].kids[i]]
  <2>1. PICK x : x = heap[m].kids[i]
    OBVIOUS
  <2>2. x \in 1 .. Len(heap) /\ Len(heap[m].kids) = 2 /\ Len(heap[n].kids) = 2
    BY <1>5, <2>1, OperationKids DEF Foldable
  <2>3. ASSUME NEW j \in 1 .. 2 PROVE x # heap[n].kids[j]
    <3>1. DOMAIN heap[m].kids = 1 .. 2 /\ DOMAIN heap[n].kids = 1 .. 2
      BY <1>5, OperationKids DEF Foldable
    <3> QED BY <1>5, <2>1, <3>1 DEF Tree, KidsOnce
  <2> QED BY <1>1, <2>1, <2>2, <2>3
<1>6. ASSUME NEW m \in 1 .. Len(heap), heap[m].type \in Arithmetic, m # n, NEW i \in 1 .. 2,
             NEW T, Tops \subseteq T, heap[Base(heap, heap[m].kids[i])].type \in T
      PROVE  heap'[Base(heap', heap[m].kids[i])].type \in T
  <2>1. PICK x : x = heap[m].kids[i]
    OBVIOUS
  <2>2. x \in 1 .. Len(heap) /\ Base(heap, x) = x
    BY <1>0, <1>5, <1>6, <2>1, OperationKids DEF Base
  <2>3. CASE x = n
    BY <1>2, <1>3, <1>6, <2>1, <2>3 DEF Base
  <2>4. CASE heap'[x] = heap[x]
    BY <1>0, <1>6, <2>1, <2>2, <2>4 DEF Base
  <2> QED BY <1>5, <1>6, <2>1, <2>3, <2>4
<1>7. ASSUME NEW m \in 1 .. Len(heap')
      PROVE  /\ heap'[m].type \in Multiplicative =>
                  heap'[Base(heap', heap'[m].kids[1])].type \in Tops
             /\ heap'[m].type \in Arithmetic =>
                  heap'[Base(heap', heap'[m].kids[2])].type \in Tops \cup Multiplicative
  <2>1. CASE heap'[m].type \in Arithmetic
    <3>1. m \in 1 .. Len(heap) /\ m # n /\ heap'[m] = heap[m]
      BY <1>1, <1>4, <2>1
    <3>3. /\ heap[m].type \in Multiplicative => heap[Base(heap, heap[m].kids[1])].type \in Tops
          /\ heap[Base(heap, heap[m].kids[2])].type \in Tops \cup Multiplicative
      BY <2>1, <3>1 DEF Precedence
    <3>4. heap'[Base(heap', heap[m].kids[2])].type \in Tops \cup Multiplicative
      <4>1. PICK T : T = Tops \cup Multiplicative
        OBVIOUS
      <4>2. 2 \in 1 .. 2 /\ Tops \subseteq T /\ heap[Base(heap, heap[m].kids[2])].type \in T
        BY <3>3, <4>1
      <4>3. heap'[Base(heap', heap[m].kids[2])].type \in T
        BY <1>6, <2>1, <3>1, <4>2
      <4> QED BY <4>1, <4>3
    <3>5. ASSUME heap[m].type \in Multiplicative
          PROVE  heap'[Base(heap', heap[m].kids[1])].type \in Tops
      <4>1. 1 \in 1 .. 2 /\ Tops \subseteq Tops /\ heap[Base(heap, heap[m].kids[1])].type \in Tops
        BY <3>3, <3>5
      <4> QED BY <1>6, <2>1, <3>1, <4>1
    <3> QED BY <3>1, <3>4, <3>5
  <2> QED BY <1>3, <2>1
<1> QED BY <1>7 DEF Precedence

(* A step of the optimizer. *)
LEMMA OptimizerPrecedence ==
  ASSUME Tree(heap, root), Folding, Precedence(heap), OptimizerStep
  PROVE  Precedence(heap')
<1>0. DOMAIN heap = 1 .. Len(heap)
  BY DEF Tree
<1>1. \/ heap' = heap
      \/ \E n \in 1 .. Len(heap) : Foldable(n) /\ \E type \in Literals : \E val :
           BecomeLiteral(n, type, val)
  <2>1. "NUMLIT" \in Literals /\ "INTEGERLIT" \in Literals
    BY DEF Literals
  <2>2. CASE KeepNode
    BY <2>2 DEF KeepNode
  <2>3. CASE FoldFloat
    BY <1>0, <2>1, <2>3, Zenon DEF FoldFloat
  <2>4. CASE FoldInt
    <3>1. PICK n \in 1 .. Len(heap) :
            /\ Foldable(n)
            /\ \/ heap' = heap
               \/ BecomeLiteral(n, "INTEGERLIT",
                     <<"int", IntResult(heap[n].type, heap[heap[n].kids[1]].val[2],
                                        heap[heap[n].kids[2]].val[2])>>)
      BY <1>0, <2>4 DEF FoldInt
    <3> QED BY <2>1, <3>1, Zenon
  <2> QED BY <2>2, <2>3, <2>4 DEF OptimizerStep
<1>2. CASE heap' = heap
  BY <1>2
<1> QED BY <1>1, <1>2, FoldedPrecedence

(* A cast leaves what is below it where it was.                            *)
LEMMA CastPrecedence ==
  ASSUME NEW h, NEW r, Tree(h, r), Precedence(h), NEW n, NEW i, Casting(h, n, i),
         NEW g, Casts(h, g, n, i)
  PROVE  Precedence(g)
<1>1. Recast(h, g, n, i) /\ i \in 1 .. 2 /\ n \in 1 .. Len(h) /\ h[n].type \in Arithmetic
      /\ h[h[n].kids[i]].type \in Expressions
  BY CastKids DEF Casting
<1>2. PICK c : c = Len(h) + 1
  OBVIOUS
<1>3. /\ Len(h) \in Nat /\ Len(g) = c /\ g[c].type = "CAST_TO_FLOAT" /\ g[c].kids = <<h[n].kids[i]>>
      /\ \A m \in 1 .. Len(h) : g[m].type = h[m].type /\ (m # n => g[m] = h[m])
  <2>1. Len(h) \in Nat /\ Len(g) = c /\ g[c] = Cast(h[n].kids[i])
    BY <1>1, <1>2 DEF Casts, Recast
  <2>2. \A m \in 1 .. Len(h) : g[m].type = h[m].type /\ (m # n => g[m] = h[m])
    BY DEF Casts
  <2> QED BY <2>1, <2>2 DEF Cast
<1>4. "CAST_TO_FLOAT" \notin Expressions \cup Arithmetic /\ Multiplicative \subseteq Arithmetic
  BY DEF Expressions, Tops, Literals, Arithmetic, Additive, Multiplicative
<1>5. ASSUME NEW m \in 1 .. Len(h), h[m].type \in Arithmetic, NEW j \in 1 .. 2
      PROVE  /\ Base(g, g[m].kids[j]) = Base(h, h[m].kids[j])
             /\ g[Base(g, g[m].kids[j])].type = h[Base(h, h[m].kids[j])].type
  <2>1. PICK x : x = h[m].kids[j]
    OBVIOUS
  <2>2. x \in 1 .. Len(h) /\ Base(h, x) \in 1 .. Len(h)
    BY <1>5, <2>1, OperationKids, BaseIsNode
  <2>3. Base(g, g[m].kids[j]) = Base(h, x)
    <3>1. CASE m = n /\ j = i
      <4>1. g[m].kids[j] = c /\ Base(h, x) = x
        BY <1>1, <1>2, <1>4, <2>1, <3>1 DEF Recast, Base
      <4>2. Base(g, c) = h[n].kids[i]
        BY <1>3 DEF Base
      <4> QED BY <2>1, <3>1, <4>1, <4>2
    <3>2. CASE ~(m = n /\ j = i)
      <4>1. g[m].kids[j] = x
        BY <1>1, <1>3, <2>1, <3>2 DEF Recast
      <4>2. Base(g, x) = Base(h, x)
        BY <1>3, <1>4, <2>2, <1>1 DEF Base
      <4> QED BY <4>1, <4>2
    <3> QED BY <3>1, <3>2
  <2> QED BY <1>3, <2>1, <2>2, <2>3
<1>6. ASSUME NEW m \in 1 .. Len(g)
      PROVE  /\ g[m].type \in Multiplicative => g[Base(g, g[m].kids[1])].type \in Tops
             /\ g[m].type \in Arithmetic =>
                  g[Base(g, g[m].kids[2])].type \in Tops \cup Multiplicative
  <2>1. CASE m = c
    BY <1>3, <1>4, <2>1
  <2>2. CASE m # c /\ h[m].type \in Arithmetic
    <3>1. m \in 1 .. Len(h) /\ g[m].type = h[m].type
      BY <1>2, <1>3, <2>2
    <3>2. /\ g[Base(g, g[m].kids[1])].type = h[Base(h, h[m].kids[1])].type
          /\ g[Base(g, g[m].kids[2])].type = h[Base(h, h[m].kids[2])].type
      BY <1>5, <2>2, <3>1
    <3> QED BY <3>1, <3>2 DEF Precedence
  <2>3. CASE m # c /\ h[m].type \notin Arithmetic
    <3>1. m \in 1 .. Len(h) /\ g[m].type = h[m].type
      BY <1>2, <1>3, <2>3
    <3> QED BY <1>4, <2>3, <3>1
  <2> QED BY <2>1, <2>2, <2>3
<1> QED BY <1>6 DEF Precedence

(* A step of the type pass. *)
LEMMA TypesPrecedence ==
  ASSUME Typing0, Precedence(heap), TypesStep
  PROVE  Precedence(heap')
<1>1. PICK n : n = Head(untyped)
  OBVIOUS
<1>2. /\ Tree(heap, root) /\ root' = root
      /\ TypeLiteral \/ TypeName \/ TypeArithmetic \/ TypeMixedArithmetic
         \/ TypeWrite \/ TypeAssign
  BY DEF Typing0, TypesStep
<1>3. \A m \in 1 .. Len(heap) : IsNode(heap[m])
  BY <1>2, KidsOfTree DEF NodeShape
<1>4. untyped # <<>> /\ n \in 1 .. Len(heap)
  <2>1. untyped # <<>>
    BY <1>2 DEF TypeLiteral, TypeName, TypeArithmetic, TypeMixedArithmetic, TypeWrite, TypeAssign,
                Typing
  <2> QED BY <1>1, <2>1, HeadReads DEF Typing0
<1>5. ASSUME NEW t, heap' = One(heap, n, t) PROVE Precedence(heap')
  <2>1. /\ Len(heap') = Len(heap)
        /\ \A m \in 1 .. Len(heap) :
             heap'[m] = IF m = n THEN [heap[m] EXCEPT !.node_type = t] ELSE heap[m]
    BY <1>2, <1>4, <1>5, RetypeOne
  <2>2. \A m \in 1 .. Len(heap) : heap'[m].type = heap[m].type /\ heap'[m].kids = heap[m].kids
    BY <1>3, <2>1 DEF IsNode
  <2> QED BY <1>2, <2>1, <2>2, SamePrecedence
<1>6. CASE TypeLiteral
  BY <1>1, <1>5, <1>6 DEF TypeLiteral, TypeOf, One
<1>7. CASE TypeName
  <2>1. heap' = heap \/ \E t : heap' = One(heap, n, t)
    BY <1>1, <1>7 DEF TypeName, TypeOf, One
  <2> QED BY <1>5, <2>1
<1>8. CASE TypeArithmetic
  <2>1. \E t : heap' = One(heap, n, t)
    BY <1>1, <1>8, Zenon DEF TypeArithmetic, TypeOf, One
  <2> QED BY <1>5, <2>1
<1>9. CASE TypeMixedArithmetic
  <2>1. PICK g : g = heap'
    OBVIOUS
  <2>2. PICK i \in 1 .. 2 : Casts(heap, g, n, i) /\ heap[n].type \in Arithmetic
                            /\ heap[heap[n].kids[i]].node_type = "INT"
    BY <1>1, <1>2, <1>9, <2>1, MixedCasts
  <2>3. heap[heap[n].kids[i]].type \in Expressions
    <3>1. SettledChild(heap, layout, n, heap[n].kids[i]) /\ heap[heap[n].kids[i]].type \in Operands
      <4>1. heap[n].type # "ASSIGN" /\ Len(heap[n].kids) = 2 /\ heap[heap[n].kids[i]].type \in Operands
        BY <1>2, <1>4, <2>2, OperationKids DEF Arithmetic, Additive, Multiplicative
      <4>2. i \in Read(heap, n)
        BY <4>1 DEF Read
      <4> QED BY <1>1, <1>4, <4>1, <4>2, HeadReads DEF Typing0
    <3>2. heap[heap[n].kids[i]].type # "CAST_TO_FLOAT"
      BY <2>2, <3>1 DEF SettledChild, Settled
    <3> QED BY <3>1, <3>2 DEF Operands
  <2>4. Casting(heap, n, i)
    BY <1>4, <2>2, <2>3 DEF Casting
  <2> QED BY <1>2, <2>1, <2>2, <2>4, CastPrecedence
<1>10. CASE TypeWrite
  <2>1. \E t : heap' = One(heap, n, t)
    BY <1>1, <1>10, Zenon DEF TypeWrite, TypeOf, One
  <2> QED BY <1>5, <2>1
<1>11. CASE TypeAssign
  <2>1. PICK x : x = heap[n].kids[1]
    OBVIOUS
  <2>2. heap' = heap \/ \E t : heap' = Two(heap, n, x, t)
    BY <1>1, <1>11, <2>1, Zenon DEF TypeAssign, Two
  <2>3. x \in 1 .. Len(heap) /\ x # n
    <3>1. heap[n].type = "ASSIGN"
      BY <1>1, <1>11 DEF TypeAssign, Typing
    <3>2. Len(heap[n].kids) = 2 /\ heap[x].type \in Expressions
      BY <1>2, <1>4, <2>1, <3>1, KidsOfTree DEF NodeShape, KidsFit
    <3>3. x \in 1 .. Len(heap)
      BY <1>2, <1>4, <2>1, <3>2, KidsOfTree
    <3> QED BY <3>1, <3>2, <3>3 DEF Expressions, Tops, Literals, Arithmetic, Additive, Multiplicative
  <2>4. ASSUME NEW t, heap' = Two(heap, n, x, t) PROVE Precedence(heap')
    <3>1. /\ Len(heap') = Len(heap)
          /\ \A m \in 1 .. Len(heap) :
               heap'[m] = IF m = n \/ m = x THEN [heap[m] EXCEPT !.node_type = t] ELSE heap[m]
      BY <1>2, <1>4, <2>3, <2>4, RetypeTwo
    <3>2. \A m \in 1 .. Len(heap) : heap'[m].type = heap[m].type /\ heap'[m].kids = heap[m].kids
      BY <1>3, <3>1 DEF IsNode
    <3> QED BY <1>2, <3>1, <3>2, SamePrecedence
  <2> QED BY <2>2, <2>4
<1> QED BY <1>2, <1>6, <1>7, <1>8, <1>9, <1>10, <1>11

(* The invariant: the operands are what the parser lets them be, in every  *)
(* phase behind it.                                                        *)
PrecInv == phase \notin {"lex", "parse"} => Precedence(heap)

(* Every step keeps it. *)
LEMMA PrecStep ==
  ASSUME PassInv, PrecInv, CompilerStep
  PROVE  PrecInv'
<1>1. ASSUME phase \notin {"lex", "parse"}, heap' = heap PROVE PrecInv'
  BY <1>1 DEF PrecInv
<1>2. CASE ReadText \/ HandOver \/ Parse
  BY <1>2 DEF ReadText, HandOver, Parse, In, Then, PrecInv
<1>3. CASE StartOptimizer
  <2>1. phase = "parse" /\ heap' = heap
    BY <1>3 DEF StartOptimizer, Then, In, astVars
  <2> QED BY <2>1, ParsedPrecedence DEF PassInv, PrecInv
<1>4. CASE Optimize
  <2>1. phase = "optimize" /\ phase' = phase /\ fault = "none" /\ OptimizerStep
    BY <1>4 DEF Optimize, In
  <2> QED BY <2>1, OptimizerPrecedence DEF PassInv, PrecInv
<1>5. CASE InferTypes
  <2>1. phase = "types" /\ phase' = phase /\ fault = "none" /\ TypesStep
    BY <1>5 DEF InferTypes, In
  <2> QED BY <2>1, TypesPrecedence DEF PassInv, PrecInv, Typing0
<1>6. CASE StartTypes \/ CountPlaces \/ StartCodegen \/ GenerateCode
  BY <1>1, <1>6 DEF StartTypes, CountPlaces, StartCodegen, GenerateCode, CodegenStep, In, Then,
                    astVars
<1>7. CASE PrintCode \/ Run \/ Stop
  BY <1>1, <1>7 DEF PrintCode, Run, Stop, In, Then, astVars
<1> QED BY <1>2, <1>3, <1>4, <1>5, <1>6, <1>7 DEF CompilerStep

(* No pass puts an operation where the parser would not.                   *)
THEOREM CompilerPrecedence == CompilerSpec => []PrecInv
<1>1. CompilerInit => PrecInv
  BY DEF CompilerInit, PrecInv
<1>2. PassInv /\ PrecInv /\ UNCHANGED compilerVars => PrecInv'
  BY DEF PrecInv, compilerVars, astVars
<1>3. PassInv /\ PrecInv /\ [CompilerNext]_compilerVars => PrecInv'
  BY <1>2, PrecStep DEF CompilerNext, CompilerDone
<1> QED BY <1>1, <1>3, CompilerPasses, PTL DEF CompilerSpec

(***************************************************************************)
(* What count_register_count computes.                                     *)
(***************************************************************************)
(* A rank falls from a node to its children. *)
LEMMA RankFalls ==
  ASSUME NEW h, NEW r, Tree(h, r)
  PROVE  /\ Len(h) \in Nat
         /\ \A n \in 1 .. Len(h) :
              /\ Rank(h)[n] \in 0 .. 2 * Len(h) + 1
              /\ \A i \in 1 .. Len(h[n].kids) :
                   h[n].kids[i] \in 1 .. Len(h) /\ Rank(h)[h[n].kids[i]] < Rank(h)[n]
<1>1. PICK skip : skip = [n \in 1 .. Len(h) |-> 0]
  OBVIOUS
<1>2. VisitsKids(h, Kids(h), skip)
  <2>1. \A n \in 1 .. Len(h) : /\ h[n].kids \in Seq(1 .. Len(h)) /\ Len(h[n].kids) \in Nat
                               /\ Kids(h)[n] = h[n].kids /\ skip[n] = 0
    BY <1>1, KidsOfTree DEF Kids
  <2>2. Kids(h) \in [1 .. Len(h) -> Seq(1 .. Len(h))]
    BY <2>1 DEF Kids
  <2> QED BY <2>1, <2>2 DEF VisitsKids
<1>3. Forest(1 .. Len(h), Kids(h), Rank(h), 2 * Len(h) + 1)
  BY <1>2, VisitsForest
<1>4. \A n \in 1 .. Len(h) : Kids(h)[n] = h[n].kids
  BY DEF Kids
<1>5. \A n \in 1 .. Len(h) : \A i \in 1 .. Len(h[n].kids) : h[n].kids[i] \in 1 .. Len(h)
  BY KidsOfTree
<1> QED BY <1>3, <1>4, <1>5 DEF Forest, Tree

NeedOf(h, f, n) ==
  CASE h[n].type \in Arithmetic    -> Max({f[h[n].kids[1]], f[h[n].kids[2]]}) + 8
    [] h[n].type = "CAST_TO_FLOAT" -> 8
    [] h[n].type = "WRITE"         -> f[h[n].kids[1]]
    [] OTHER                       -> 0
NeedUpto(h, k, f) == f = [n \in {o \in 1 .. Len(h) : Rank(h)[o] < k} |-> NeedOf(h, f, n)]

(* What a node needs is decided by what its children need.                 *)
LEMMA NeedDecided ==
  ASSUME NEW h, NEW r, Tree(h, r), NEW n \in 1 .. Len(h), NEW f, NEW g,
         \A i \in 1 .. Len(h[n].kids) : f[h[n].kids[i]] = g[h[n].kids[i]]
  PROVE  NeedOf(h, f, n) = NeedOf(h, g, n)
<1>1. CASE h[n].type \in Arithmetic
  <2>1. f[h[n].kids[1]] = g[h[n].kids[1]] /\ f[h[n].kids[2]] = g[h[n].kids[2]]
    BY <1>1, OperationKids
  <2> QED BY <1>1, <2>1, Zenon DEF NeedOf
<1>2. CASE h[n].type = "WRITE"
  <2>1. Len(h[n].kids) = 1
    BY <1>2, KidsOfTree DEF NodeShape, KidsFit
  <2>2. f[h[n].kids[1]] = g[h[n].kids[1]]
    BY <2>1
  <2> QED BY <1>2, <2>2, Zenon DEF NeedOf, Arithmetic, Additive, Multiplicative
<1>3. CASE h[n].type \notin Arithmetic /\ h[n].type # "WRITE"
  BY <1>3, Zenon DEF NeedOf
<1> QED BY <1>1, <1>2, <1>3

(* The recursion ends: a least rank below which there is no such function  *)
(* has a predecessor.                                                      *)
LEMMA NeedExists ==
  ASSUME NEW h, NEW r, Tree(h, r), NEW m \in Nat
  PROVE  \E f : NeedUpto(h, m, f)
<1> DEFINE T == {k \in Nat : ~ \E f : NeedUpto(h, k, f)}
<1> SUFFICES ASSUME T # {} PROVE FALSE
  OBVIOUS
<1>1. PICK k \in T : \A j \in T : k <= j
  BY LeastNumber
<1>2. \A o \in 1 .. Len(h) : Rank(h)[o] \in Nat
  BY RankFalls
<1>3. CASE k = 0
  <2>1. {o \in 1 .. Len(h) : Rank(h)[o] < 0} = {}
    BY <1>2
  <2>2. NeedUpto(h, 0, [n \in {} |-> {}])
    BY <2>1 DEF NeedUpto
  <2> QED BY <1>1, <1>3, <2>2
<1>4. CASE k # 0
  <2>1. k \in Nat /\ k - 1 \in Nat /\ ~(k <= k - 1)
    BY <1>1, <1>4
  <2>2. k - 1 \notin T
    BY <1>1, <2>1
  <2>3. PICK f : NeedUpto(h, k - 1, f)
    BY <2>1, <2>2
  <2> DEFINE E(j) == {o \in 1 .. Len(h) : Rank(h)[o] < j}
             g    == [n \in E(k) |-> NeedOf(h, f, n)]
  <2>4. f = [n \in E(k - 1) |-> NeedOf(h, f, n)]
    BY <2>3, Zenon DEF NeedUpto
  <2>5. \A n \in E(k - 1) : n \in E(k)
    BY <1>2, <2>1
  <2>6. \A n \in E(k - 1) : g[n] = f[n]
    <3>1. ASSUME NEW n \in E(k - 1) PROVE f[n] = NeedOf(h, f, n)
      BY <2>4, Zenon
    <3>2. ASSUME NEW n \in E(k) PROVE g[n] = NeedOf(h, f, n)
      BY Zenon
    <3> HIDE DEF E, g
    <3> QED BY <2>5, <3>1, <3>2
  <2>7. ASSUME NEW n \in E(k) PROVE NeedOf(h, f, n) = NeedOf(h, g, n)
    <3>1. n \in 1 .. Len(h) /\ Rank(h)[n] < k
      OBVIOUS
    <3>2. \A i \in 1 .. Len(h[n].kids) : h[n].kids[i] \in E(k - 1)
      <4>1. ASSUME NEW i \in 1 .. Len(h[n].kids)
            PROVE  h[n].kids[i] \in 1 .. Len(h) /\ Rank(h)[h[n].kids[i]] < k - 1
        <5>1. h[n].kids[i] \in 1 .. Len(h) /\ Rank(h)[h[n].kids[i]] < Rank(h)[n]
          BY <3>1, RankFalls
        <5> QED BY <1>2, <2>1, <3>1, <5>1
      <4> QED BY <4>1
    <3> HIDE DEF E, g
    <3>3. \A i \in 1 .. Len(h[n].kids) : f[h[n].kids[i]] = g[h[n].kids[i]]
      BY <2>6, <3>2
    <3> QED BY <3>1, <3>3, NeedDecided
  <2>8. g = [n \in E(k) |-> NeedOf(h, g, n)]
    <3> DEFINE a(n) == NeedOf(h, f, n)
               b(n) == NeedOf(h, g, n)
    <3>1. \A n \in E(k) : a(n) = b(n)
      <4> HIDE DEF E, g
      <4> QED BY <2>7, Zenon
    <3>2. g = [n \in E(k) |-> a(n)]
      BY Zenon
    <3> HIDE DEF a, b, g, E
    <3>3. g = [n \in E(k) |-> b(n)]
      BY <3>1, <3>2
    <3> QED BY <3>3, Zenon DEF b
  <2>9. NeedUpto(h, k, g)
    <3> HIDE DEF g
    <3> QED BY <2>8, Zenon DEF NeedUpto
  <2> QED BY <1>1, <2>9
<1> QED BY <1>3, <1>4

(* What the count of a node is at least. *)
Counts(h, N) ==
  \A n \in 1 .. Len(h) :
    /\ N[n] \in Nat
    /\ h[n].type \in Arithmetic => \A i \in 1 .. 2 : N[n] >= N[h[n].kids[i]] + 8
    /\ h[n].type = "CAST_TO_FLOAT" => N[n] = 8
    /\ h[n].type = "WRITE" => N[n] = N[h[n].kids[1]]

(* That is what the pass notes for the nodes.                              *)
LEMMA NeededCounts ==
  ASSUME Tree(heap, root)
  PROVE  Counts(heap, Needed)
<1>1. \A x \in Arithmetic : x # "CAST_TO_FLOAT" /\ x # "WRITE"
  BY DEF Arithmetic, Additive, Multiplicative
<1>2. /\ DOMAIN heap = 1 .. Len(heap) /\ Len(heap) \in Nat
      /\ \A n \in 1 .. Len(heap) : /\ Rank(heap)[n] \in Nat /\ Rank(heap)[n] < 2 * Len(heap) + 2
                                   /\ \A i \in 1 .. Len(heap[n].kids) :
                                        /\ heap[n].kids[i] \in 1 .. Len(heap)
                                        /\ Rank(heap)[heap[n].kids[i]] < Rank(heap)[n]
  <2>1. Len(heap) \in Nat /\ DOMAIN heap = 1 .. Len(heap)
    BY DEF Tree
  <2>2. \A n \in 1 .. Len(heap) :
          /\ Rank(heap)[n] \in 0 .. 2 * Len(heap) + 1
          /\ \A i \in 1 .. Len(heap[n].kids) :
               heap[n].kids[i] \in 1 .. Len(heap) /\ Rank(heap)[heap[n].kids[i]] < Rank(heap)[n]
    BY RankFalls
  <2> QED BY <2>1, <2>2
<1> DEFINE need == CHOOSE f : f = [n \in DOMAIN heap |->
             CASE heap[n].type \in Arithmetic      -> Max({f[heap[n].kids[1]], f[heap[n].kids[2]]}) + 8
               [] heap[n].type = "CAST_TO_FLOAT"   -> 8
               [] heap[n].type = "WRITE"           -> f[heap[n].kids[1]]
               [] OTHER                            -> 0]
<1>3. \E f : f = [n \in 1 .. Len(heap) |-> NeedOf(heap, f, n)]
  <2>1. 2 * Len(heap) + 2 \in Nat /\ {o \in 1 .. Len(heap) : Rank(heap)[o] < 2 * Len(heap) + 2} = 1 .. Len(heap)
    BY <1>2
  <2>2. PICK f : NeedUpto(heap, 2 * Len(heap) + 2, f)
    BY <1>2, <2>1, NeedExists
  <2>3. f = [n \in 1 .. Len(heap) |-> NeedOf(heap, f, n)]
    BY <2>1, <2>2 DEF NeedUpto
  <2> QED BY <2>3
<1>4. need = [n \in DOMAIN heap |->
             CASE heap[n].type \in Arithmetic      -> Max({need[heap[n].kids[1]], need[heap[n].kids[2]]}) + 8
               [] heap[n].type = "CAST_TO_FLOAT"   -> 8
               [] heap[n].type = "WRITE"           -> need[heap[n].kids[1]]
               [] OTHER                            -> 0]
  <2>1. \E f : f = [n \in DOMAIN heap |->
             CASE heap[n].type \in Arithmetic      -> Max({f[heap[n].kids[1]], f[heap[n].kids[2]]}) + 8
               [] heap[n].type = "CAST_TO_FLOAT"   -> 8
               [] heap[n].type = "WRITE"           -> f[heap[n].kids[1]]
               [] OTHER                            -> 0]
    BY <1>2, <1>3, Zenon DEF NeedOf
  <2> QED BY <2>1, Zenon
<1>5. Needed = need
  BY Zenon DEF Needed
<1> HIDE DEF need
<1>6. PICK N : N = Needed
  OBVIOUS
<1>7. ASSUME NEW n \in 1 .. Len(heap) PROVE N[n] = NeedOf(heap, N, n)
  BY <1>2, <1>4, <1>5, <1>6, Zenon DEF NeedOf
<1>8. \A n \in 1 .. Len(heap) : N[n] \in Nat
  <2> DEFINE T == {k \in Nat : \E n \in 1 .. Len(heap) : Rank(heap)[n] = k /\ N[n] \notin Nat}
  <2>1. ASSUME T # {} PROVE FALSE
    <3>1. PICK k \in T : \A j \in T : k <= j
      BY <2>1, LeastNumber
    <3>2. PICK n \in 1 .. Len(heap) : Rank(heap)[n] = k /\ N[n] \notin Nat
      BY <3>1
    <3>3. ASSUME NEW i \in 1 .. Len(heap[n].kids) PROVE N[heap[n].kids[i]] \in Nat
      <4>1. /\ heap[n].kids[i] \in 1 .. Len(heap) /\ Rank(heap)[heap[n].kids[i]] < k
            /\ Rank(heap)[heap[n].kids[i]] \in Nat /\ k \in Nat
        BY <1>2, <3>2
      <4>2. Rank(heap)[heap[n].kids[i]] \notin T
        <5> HIDE DEF T
        <5> QED BY <3>1, <4>1
      <4> QED BY <4>1, <4>2
    <3>4. CASE heap[n].type \in Arithmetic
      <4>1. N[heap[n].kids[1]] \in Nat /\ N[heap[n].kids[2]] \in Nat
        BY <1>2, <3>3, <3>4, OperationKids
      <4>2. Max({N[heap[n].kids[1]], N[heap[n].kids[2]]}) \in Nat
        BY <4>1, Larger
      <4>3. N[n] = Max({N[heap[n].kids[1]], N[heap[n].kids[2]]}) + 8
        BY <1>1, <1>7, <3>4, Zenon DEF NeedOf
      <4> QED BY <3>2, <4>2, <4>3
    <3>5. CASE heap[n].type = "WRITE"
      <4>1. Len(heap[n].kids) = 1 /\ heap[n].type \notin Arithmetic
        BY <1>2, <3>5, KidsOfTree DEF NodeShape, KidsFit, Arithmetic, Additive, Multiplicative
      <4>2. N[n] = N[heap[n].kids[1]]
        BY <1>7, <3>5, <4>1, Zenon DEF NeedOf
      <4>3. 1 \in 1 .. Len(heap[n].kids)
        BY <4>1
      <4> QED BY <3>2, <3>3, <4>2, <4>3
    <3>6. CASE heap[n].type \notin Arithmetic /\ heap[n].type # "WRITE"
      <4>1. N[n] \in {0, 8}
        BY <1>7, <3>6 DEF NeedOf
      <4> QED BY <3>2, <4>1
    <3> QED BY <3>4, <3>5, <3>6
  <2>2. ASSUME NEW n \in 1 .. Len(heap) PROVE N[n] \in Nat
    <3>1. Rank(heap)[n] \in Nat
      BY <1>2
    <3> QED BY <2>1, <3>1
  <2> QED BY <2>2
<1>9. ASSUME NEW n \in 1 .. Len(heap)
      PROVE  /\ heap[n].type \in Arithmetic => \A i \in 1 .. 2 : N[n] >= N[heap[n].kids[i]] + 8
             /\ heap[n].type = "CAST_TO_FLOAT" => N[n] = 8
             /\ heap[n].type = "WRITE" => N[n] = N[heap[n].kids[1]]
  <2>1. ASSUME heap[n].type \in Arithmetic, NEW i \in 1 .. 2 PROVE N[n] >= N[heap[n].kids[i]] + 8
    <3>1. PICK a, b : a = N[heap[n].kids[1]] /\ b = N[heap[n].kids[2]]
      OBVIOUS
    <3>2. a \in Nat /\ b \in Nat
      BY <1>2, <1>8, <2>1, <3>1, OperationKids
    <3>3. N[n] = Max({a, b}) + 8
      BY <1>1, <1>7, <2>1, <3>1, Zenon DEF NeedOf
    <3>4. Max({a, b}) \in Nat /\ a <= Max({a, b}) /\ b <= Max({a, b})
      BY <3>2, Larger
    <3> QED BY <3>1, <3>2, <3>3, <3>4
  <2>2. "WRITE" \notin Arithmetic /\ "CAST_TO_FLOAT" \notin Arithmetic /\ "WRITE" # "CAST_TO_FLOAT"
    BY DEF Arithmetic, Additive, Multiplicative
  <2>3. heap[n].type = "CAST_TO_FLOAT" => N[n] = 8
    BY <1>7, <2>2, Zenon DEF NeedOf
  <2>4. heap[n].type = "WRITE" => N[n] = N[heap[n].kids[1]]
    BY <1>7, <2>2, Zenon DEF NeedOf
  <2> QED BY <2>1, <2>3, <2>4
<1> QED BY <1>6, <1>8, <1>9 DEF Counts

(***************************************************************************)
(* How many results wait to be read at a point of a walk.                  *)
(***************************************************************************)
(* A node whose operation leaves a result of its own.                      *)
Gives(h, x) == h[x].type \in Arithmetic \cup {"CAST_TO_FLOAT"}

(* Between the d-th and the next node of a walk, the nodes behind the lo-th *)
(* whose results one of those up to the hi-th will read.                   *)
Open(h, visits, s, lo, d, hi) ==
  {x \in 1 .. Len(h) : /\ Gives(h, x) /\ \E p \in lo + 1 .. d : s[p] = x
                       /\ \E q \in d + 1 .. hi : Visits(visits, s[q], x)}

(* The numbers that a node allows for at every point of its own walk. A    *)
(* cast is counted once whatever is below it, but that is of type INT and  *)
(* has no casts: its products are no operands of products, so never more   *)
(* than two results of it wait, and one if it is a product.                *)
Fits(h, N, n, o) ==
  /\ o \in Nat
  /\ h[n].type \in Tops => o = 0
  /\ h[n].type # "CAST_TO_FLOAT" => 8 * o <= N[n]
  /\ h[n].type = "CAST_TO_FLOAT" => o <= 2
  /\ h[n].type = "CAST_TO_FLOAT" /\ h[h[n].kids[1]].type \in Tops \cup Multiplicative => o <= 1
  /\ h[n].node_type = "INT" /\ h[n].type \in Multiplicative => o <= 1
  /\ h[n].node_type = "INT" /\ h[n].type \in Additive => o <= 2

(* No result always fits. *)
LEMMA NoneFits ==
  ASSUME NEW h, NEW N, NEW n, N[n] \in Nat
  PROVE  Fits(h, N, n, 0)
BY DEF Fits

(* The kinds of the nodes. *)
LEMMA KindFacts ==
  /\ Arithmetic = Additive \cup Multiplicative /\ Additive \cap Multiplicative = {}
  /\ Expressions = Arithmetic \cup Tops /\ Arithmetic \cap Tops = {}
  /\ Operands = Expressions \cup {"CAST_TO_FLOAT"} /\ "CAST_TO_FLOAT" \notin Expressions
  /\ "ASSIGN" \notin Operands /\ "WRITE" \notin Operands
BY DEF Arithmetic, Additive, Multiplicative, Expressions, Tops, Literals, Operands

(* The operands of an operation that has its type.                         *)
LEMMA OperandFacts ==
  ASSUME AllTyped, NEW n \in 1 .. Len(heap), Settled(heap, layout, n),
         heap[n].type \in Arithmetic, NEW i \in 1 .. 2, NEW k, k = heap[n].kids[i]
  PROVE  /\ k \in 1 .. Len(heap) /\ Settled(heap, layout, k) /\ heap[k].type \in Operands
         /\ heap[n].node_type = "INT" => heap[k].node_type = "INT" /\ heap[k].type \in Expressions
<1>1. Tree(heap, root) /\ heap[n].type # "ASSIGN"
  BY KindFacts DEF AllTyped
<1>2. Len(heap[n].kids) = 2 /\ k \in 1 .. Len(heap) /\ heap[k].type \in Operands
  BY <1>1, OperationKids
<1>3. i \in Read(heap, n)
  BY <1>1, <1>2 DEF Read
<1>4. Settled(heap, layout, k)
  BY <1>3, SettledKid
<1>5. heap[k].node_type = heap[n].node_type
  BY DEF Settled
<1>6. heap[k].type = "CAST_TO_FLOAT" => heap[k].node_type = "FLOAT"
  BY <1>4 DEF Settled
<1> QED BY <1>2, <1>4, <1>5, <1>6, KindFacts

(* The child of a cast or a write that has its type.                       *)
LEMMA OnlyKidFacts ==
  ASSUME AllTyped, NEW n \in 1 .. Len(heap), Settled(heap, layout, n),
         heap[n].type \in {"WRITE", "CAST_TO_FLOAT"}, NEW k, k = heap[n].kids[1]
  PROVE  /\ k \in 1 .. Len(heap) /\ Settled(heap, layout, k) /\ heap[k].type \in Expressions
         /\ Len(heap[n].kids) = 1
         /\ heap[n].type = "CAST_TO_FLOAT" => heap[k].node_type = "INT"
<1>1. Tree(heap, root) /\ heap[n].type # "ASSIGN"
  BY DEF AllTyped
<1>2. Len(heap[n].kids) = 1 /\ heap[k].type \in Expressions
  BY <1>1, KidsOfTree DEF NodeShape, KidsFit
<1>3. 1 \in Read(heap, n)
  BY <1>1, <1>2 DEF Read
<1>4. k \in 1 .. Len(heap) /\ Settled(heap, layout, k)
  BY <1>3, SettledKid
<1>5. heap[n].type = "CAST_TO_FLOAT" => heap[k].node_type = "INT"
  BY DEF Settled
<1> QED BY <1>2, <1>4, <1>5

(***************************************************************************)
(* What fits a child fits its parent.                                      *)
(***************************************************************************)
(* Below a cast or a write, and with the child's own result.               *)
LEMMA FitsAboveOne ==
  ASSUME AllTyped, NEW N, Counts(heap, N), NEW n \in 1 .. Len(heap), Settled(heap, layout, n),
         heap[n].type \in {"WRITE", "CAST_TO_FLOAT"}, NEW k, k = heap[n].kids[1]
  PROVE  /\ \A o : Fits(heap, N, k, o) => Fits(heap, N, n, o)
         /\ Gives(heap, k) => Fits(heap, N, n, 1)
<1>1. /\ k \in 1 .. Len(heap) /\ Settled(heap, layout, k) /\ heap[k].type \in Expressions
      /\ heap[n].type = "CAST_TO_FLOAT" => heap[k].node_type = "INT"
  BY OnlyKidFacts
<1>2. /\ N[k] \in Nat /\ N[n] \in Nat
      /\ heap[n].type = "WRITE" => N[n] = N[k]
  BY <1>1 DEF Counts
<1>3. ASSUME heap[k].type \in Arithmetic PROVE N[k] >= 8
  <2>1. heap[k].kids[1] \in 1 .. Len(heap)
    BY <1>1, <1>3, OperandFacts
  <2>2. N[heap[k].kids[1]] \in Nat /\ N[k] >= N[heap[k].kids[1]] + 8
    BY <1>1, <1>3, <2>1, SMTT(30) DEF Counts
  <2> QED BY <1>2, <2>2, SMTT(30)
<1>4. heap[n].type \notin Tops \cup Arithmetic
  BY KindFacts DEF Operands
<1>5. ASSUME NEW o, Fits(heap, N, k, o) PROVE Fits(heap, N, n, o)
  <2>1. CASE heap[n].type = "WRITE"
    BY <1>1, <1>2, <1>4, <1>5, <2>1, KindFacts DEF Fits
  <2>2. CASE heap[n].type = "CAST_TO_FLOAT"
    <3>1. o \in Nat /\ o <= 2 /\ (heap[k].type \in Tops \cup Multiplicative => o <= 1)
      BY <1>1, <1>5, <2>2, KindFacts, SMTT(30) DEF Fits
    <3> QED BY <1>4, <2>2, <3>1, KindFacts DEF Fits
  <2> QED BY <2>1, <2>2
<1>6. ASSUME Gives(heap, k) PROVE Fits(heap, N, n, 1)
  <2>1. heap[k].type \in Arithmetic
    BY <1>1, <1>6, KindFacts DEF Gives
  <2> QED BY <1>2, <1>3, <1>4, <2>1, KindFacts DEF Fits
<1> QED BY <1>5, <1>6

(* Below an operation: within its left operand; within the right one, with *)
(* the result of the left; and with both results.                          *)
LEMMA FitsAboveTwo ==
  ASSUME AllTyped, Precedence(heap), NEW N, Counts(heap, N),
         NEW n \in 1 .. Len(heap), Settled(heap, layout, n), heap[n].type \in Arithmetic,
         NEW k1, k1 = heap[n].kids[1], NEW k2, k2 = heap[n].kids[2]
  PROVE  /\ \A o : Fits(heap, N, k1, o) => Fits(heap, N, n, o)
         /\ \A o : Fits(heap, N, k2, o) =>
              /\ Fits(heap, N, n, o)
              /\ Gives(heap, k1) => Fits(heap, N, n, o + 1)
         /\ Gives(heap, k1) \/ Gives(heap, k2) => Fits(heap, N, n, 1)
         /\ Gives(heap, k1) /\ Gives(heap, k2) => Fits(heap, N, n, 2)
<1>1. ASSUME NEW i \in 1 .. 2, NEW k, k = heap[n].kids[i]
      PROVE  /\ k \in 1 .. Len(heap) /\ Settled(heap, layout, k) /\ heap[k].type \in Operands
             /\ heap[n].node_type = "INT" =>
                  heap[k].node_type = "INT" /\ heap[k].type \in Expressions
             /\ N[k] \in Nat /\ N[n] >= N[k] + 8
             /\ heap[k].type = "CAST_TO_FLOAT" => N[k] = 8
  <2>1. /\ k \in 1 .. Len(heap) /\ Settled(heap, layout, k) /\ heap[k].type \in Operands
        /\ heap[n].node_type = "INT" =>
             heap[k].node_type = "INT" /\ heap[k].type \in Expressions
    BY <1>1, OperandFacts
  <2> QED BY <1>1, <2>1 DEF Counts
<1>2. ASSUME NEW i \in 1 .. 2, NEW k, k = heap[n].kids[i], Gives(heap, k) PROVE N[k] >= 8
  <2>1. CASE heap[k].type \in Arithmetic
    <3>1. k \in 1 .. Len(heap) /\ Settled(heap, layout, k) /\ N[k] \in Nat
      BY <1>1, <1>2
    <3>2. heap[k].kids[1] \in 1 .. Len(heap)
      BY <2>1, <3>1, OperandFacts
    <3>3. N[heap[k].kids[1]] \in Nat /\ N[k] >= N[heap[k].kids[1]] + 8
      BY <2>1, <3>1, <3>2 DEF Counts
    <3> QED BY <3>1, <3>3
  <2>2. CASE heap[k].type = "CAST_TO_FLOAT"
    BY <1>1, <1>2, <2>2, SMTT(30)
  <2> QED BY <1>2, <2>1, <2>2 DEF Gives
<1>3. /\ N[n] \in Nat /\ heap[n].type \notin Tops /\ heap[n].type # "CAST_TO_FLOAT"
      /\ heap[n].type \in Additive \/ heap[n].type \in Multiplicative
  BY KindFacts DEF Counts
<1>4. /\ heap[n].type \in Multiplicative => heap[Base(heap, k1)].type \in Tops
      /\ heap[Base(heap, k2)].type \in Tops \cup Multiplicative
  BY DEF Precedence
<1>5. ASSUME heap[n].node_type = "INT"
      PROVE  /\ heap[k1].node_type = "INT" /\ heap[k1].type \in Expressions
             /\ heap[k2].node_type = "INT" /\ heap[k2].type \in Tops \cup Multiplicative
             /\ heap[n].type \in Multiplicative => heap[k1].type \in Tops
  <2>1. /\ heap[k1].node_type = "INT" /\ heap[k1].type \in Expressions
        /\ heap[k2].node_type = "INT" /\ heap[k2].type \in Expressions
    BY <1>1, <1>5
  <2>2. Base(heap, k1) = k1 /\ Base(heap, k2) = k2
    BY <2>1, KindFacts DEF Base
  <2> QED BY <1>4, <2>1, <2>2
<1>6. ASSUME NEW o \in Nat, 8 * o <= N[n],
             heap[n].node_type = "INT" => o <= 2 /\ (heap[n].type \in Multiplicative => o <= 1)
      PROVE  Fits(heap, N, n, o)
  BY <1>3, <1>6 DEF Fits
<1>7. ASSUME NEW o, Fits(heap, N, k1, o) PROVE Fits(heap, N, n, o)
  <2>1. o \in Nat
    BY <1>7 DEF Fits
  <2>2. 8 * o <= N[n]
    <3>1. CASE heap[k1].type = "CAST_TO_FLOAT"
      BY <1>1, <1>3, <1>7, <3>1 DEF Fits
    <3>2. CASE heap[k1].type # "CAST_TO_FLOAT"
      BY <1>1, <1>3, <1>7, <3>2, SMTT(30) DEF Fits
    <3> QED BY <3>1, <3>2
  <2>3. heap[n].node_type = "INT" => o <= 2 /\ (heap[n].type \in Multiplicative => o <= 1)
    BY <1>5, <1>7, KindFacts, SMTT(30) DEF Fits
  <2> QED BY <1>6, <2>1, <2>2, <2>3
<1>8. ASSUME NEW o, Fits(heap, N, k2, o)
      PROVE  /\ Fits(heap, N, n, o)
             /\ Gives(heap, k1) => Fits(heap, N, n, o + 1)
  <2>1. o \in Nat
    BY <1>8 DEF Fits
  <2>2. 8 * (o + 1) <= N[n]
    <3>1. CASE heap[k2].type = "CAST_TO_FLOAT"
      <4>1. heap[heap[k2].kids[1]].type \in Tops \cup Multiplicative
        BY <1>4, <3>1 DEF Base
      <4>2. o <= 1
        BY <1>8, <3>1, <4>1 DEF Fits
      <4> QED BY <1>1, <1>3, <2>1, <3>1, <4>2
    <3>2. CASE heap[k2].type # "CAST_TO_FLOAT"
      <4>1. 8 * o <= N[k2] /\ N[k2] \in Nat /\ N[n] >= N[k2] + 8
        BY <1>1, <1>8, <3>2, SMTT(30) DEF Fits
      <4> QED BY <1>3, <2>1, <4>1
    <3> QED BY <3>1, <3>2
  <2>3. heap[n].node_type = "INT" => o <= 1
    BY <1>5, <1>8, KindFacts, SMTT(30) DEF Fits
  <2>4. heap[n].node_type = "INT" /\ heap[n].type \in Multiplicative => ~Gives(heap, k1)
    BY <1>5, KindFacts DEF Gives
  <2>5. Fits(heap, N, n, o)
    BY <1>3, <1>6, <2>1, <2>2, <2>3
  <2>6. ASSUME Gives(heap, k1) PROVE Fits(heap, N, n, o + 1)
    BY <1>6, <2>1, <2>2, <2>3, <2>4, <2>6
  <2> QED BY <2>5, <2>6
<1>9. 8 <= N[n]
  BY <1>1, <1>3
<1>10. Fits(heap, N, n, 1)
  BY <1>6, <1>9
<1>11. ASSUME Gives(heap, k1), Gives(heap, k2) PROVE Fits(heap, N, n, 2)
  <2>1. 16 <= N[n]
    <3>1. N[k2] \in Nat /\ N[n] >= N[k2] + 8 /\ N[k2] >= 8
      BY <1>1, <1>2, <1>11
    <3> QED BY <1>3, <3>1
  <2>2. heap[n].node_type = "INT" => heap[n].type \notin Multiplicative
    BY <1>5, <1>11, KindFacts DEF Gives
  <2> QED BY <1>6, <2>1, <2>2
<1> QED BY <1>7, <1>8, <1>10, <1>11

(***************************************************************************)
(* The walk over the tree below a node.                                    *)
(***************************************************************************)
(* One sequence, joined, is itself. *)
LEMMA JoinedOne ==
  ASSUME NEW S, NEW a \in Seq(S)
  PROVE  FlattenSeq(<<a>>) = a
<1>1. <<a>> \in Seq(Seq(S)) /\ <<a>> # <<>> /\ Len(<<a>>) = 1 /\ <<a>>[1] = a
  OBVIOUS
<1>2. PICK f : f[1] = <<a>>[1] /\ FlattenSeq(<<a>>) = f[Len(<<a>>)]
  BY <1>1, FlattenIsPartial
<1> QED BY <1>1, <1>2

(* Two are joined one behind the other. *)
LEMMA JoinedTwo ==
  ASSUME NEW S, NEW a \in Seq(S), NEW b \in Seq(S)
  PROVE  FlattenSeq(<<a, b>>) = a \o b
<1>1. /\ <<a, b>> \in Seq(Seq(S)) /\ <<a, b>> # <<>> /\ Len(<<a, b>>) = 2
      /\ <<a, b>>[1] = a /\ <<a, b>>[2] = b
  OBVIOUS
<1>2. PICK c : c = <<a, b>>
  OBVIOUS
<1>3. PICK f : /\ f[1] = c[1]
               /\ \A i \in 2 .. Len(c) : f[i] = f[i - 1] \o c[i]
               /\ FlattenSeq(c) = f[Len(c)]
  BY <1>1, <1>2, FlattenIsPartial
<1>4. Len(c) = 2 /\ c[1] = a /\ c[2] = b /\ 2 \in 2 .. 2 /\ 2 - 1 = 1
  BY <1>1, <1>2
<1>5. f[2] = f[1] \o c[2]
  BY <1>3, <1>4
<1> QED BY <1>2, <1>3, <1>4, <1>5

(* What precedes a node in the walk over its tree.                         *)
Below(visits, f, n) == FlattenSeq([i \in DOMAIN visits[n] |-> f[visits[n][i]]])

(* The walk of a node behind s, and behind those of two children.           *)
Then1(s, n)    == s \o <<n>>
Then2(s, t, n) == (s \o t) \o <<n>>

(* The walks that LeaveOrder is made of, and that each is a tour.          *)
Walks(h, visits, f) ==
  /\ Len(h) \in Nat
  /\ \A n \in 1 .. Len(h) :
       /\ f[n] = Then1(Below(visits, f, n), n)
       /\ Tour(1 .. Len(h), visits, {n}, f[n])
       /\ visits[n] \in Seq(1 .. Len(h))

(* A walk of D that ends with k.                                           *)
Ends(D, visits, s, k) ==
  /\ s \in Seq(D) /\ Len(s) \in Nat \ {0} /\ s[Len(s)] = k
  /\ \A p, q \in 1 .. Len(s) : s[p] = s[q] => p = q
  /\ \A p \in 1 .. Len(s) : \A x \in D : Visits(visits, s[p], x) => \E q \in 1 .. p - 1 : s[q] = x

(* A walk over the tree of k is not empty, and k is its end.               *)
LEMMA WalkEnds ==
  ASSUME NEW h, NEW visits, NEW f, Walks(h, visits, f), NEW k \in 1 .. Len(h)
  PROVE  Ends(1 .. Len(h), visits, f[k], k)
<1>1. PICK s, D : s = f[k] /\ D = 1 .. Len(h)
  OBVIOUS
<1>2. Tour(D, visits, {k}, s)
  BY <1>1 DEF Walks
<1>3. s \in Seq(D) /\ Len(s) \in Nat /\ \E p \in 1 .. Len(s) : s[p] = k
  BY <1>2 DEF Tour
<1>4. Len(s) # 0
  BY <1>3
<1>5. s[Len(s)] = k
  <2>1. Len(s) \in 1 .. Len(s) /\ Len(s) + 1 .. Len(s) = {}
    BY <1>3, <1>4
  <2> QED BY <1>2, <2>1 DEF Tour
<1> QED BY <1>1, <1>2, <1>3, <1>4, <1>5 DEF Tour, Ends

(* Without children the walk is the node alone. *)
LEMMA WalkOfLeaf ==
  ASSUME NEW h, NEW visits, NEW f, Walks(h, visits, f), NEW n \in 1 .. Len(h), visits[n] = <<>>
  PROVE  f[n] = <<n>>
<1>1. [i \in DOMAIN visits[n] |-> f[visits[n][i]]] = <<>>
  OBVIOUS
<1>2. FlattenSeq(<<>>) = <<>>
  BY DEF FlattenSeq
<1>3. Below(visits, f, n) = <<>>
  BY <1>1, <1>2 DEF Below
<1>4. <<n>> \in Seq(1 .. Len(h)) /\ <<>> \o <<n>> = <<n>>
  OBVIOUS
<1> QED BY <1>3, <1>4 DEF Walks, Then1

(* With one child: the walk of the child, and the node at the end. *)
LEMMA WalkOfOne ==
  ASSUME NEW h, NEW visits, NEW f, Walks(h, visits, f), NEW n \in 1 .. Len(h),
         Len(visits[n]) = 1, NEW k, k = visits[n][1]
  PROVE  k \in 1 .. Len(h) /\ f[n] = Then1(f[k], n)
<1>1. visits[n] \in Seq(1 .. Len(h))
  BY DEF Walks
<1>2. DOMAIN visits[n] = 1 .. 1 /\ k \in 1 .. Len(h)
  BY <1>1
<1>3. f[k] \in Seq(1 .. Len(h))
  BY <1>2 DEF Walks, Tour
<1>4. [i \in DOMAIN visits[n] |-> f[visits[n][i]]] = <<f[k]>>
  BY <1>2
<1>5. FlattenSeq(<<f[k]>>) = f[k]
  BY <1>3, JoinedOne
<1>6. Below(visits, f, n) = f[k]
  BY <1>4, <1>5 DEF Below
<1> QED BY <1>2, <1>6 DEF Walks

(* With two: the walk of the first, that of the second, and the node. *)
LEMMA WalkOfTwo ==
  ASSUME NEW h, NEW visits, NEW f, Walks(h, visits, f), NEW n \in 1 .. Len(h),
         Len(visits[n]) = 2, NEW k1, k1 = visits[n][1], NEW k2, k2 = visits[n][2]
  PROVE  k1 \in 1 .. Len(h) /\ k2 \in 1 .. Len(h) /\ f[n] = Then2(f[k1], f[k2], n)
<1>1. visits[n] \in Seq(1 .. Len(h))
  BY DEF Walks
<1>2. DOMAIN visits[n] = 1 .. 2 /\ k1 \in 1 .. Len(h) /\ k2 \in 1 .. Len(h)
  BY <1>1
<1>3. f[k1] \in Seq(1 .. Len(h)) /\ f[k2] \in Seq(1 .. Len(h))
  BY <1>2 DEF Walks, Tour
<1>4. [i \in DOMAIN visits[n] |-> f[visits[n][i]]] = <<f[k1], f[k2]>>
  BY <1>2
<1>5. FlattenSeq(<<f[k1], f[k2]>>) = f[k1] \o f[k2]
  BY <1>3, JoinedTwo
<1>6. Below(visits, f, n) = f[k1] \o f[k2]
  BY <1>4, <1>5 DEF Below
<1>7. f[n] = Then1(f[k1] \o f[k2], n)
  BY <1>6 DEF Walks
<1> QED BY <1>2, <1>7 DEF Then1, Then2

(***************************************************************************)
(* The results that wait in the walk of a node, and in those of its        *)
(* children.                                                               *)
(***************************************************************************)
OpenIn(h, visits, s, d) == Open(h, visits, s, 0, d, Len(s))

(* Nothing waits at the end of a walk. *)
LEMMA OpenAtEnd ==
  ASSUME NEW h, NEW visits, NEW s, Len(s) \in Nat
  PROVE  OpenIn(h, visits, s, Len(s)) = {}
<1>1. Len(s) + 1 .. Len(s) = {}
  OBVIOUS
<1> QED BY <1>1 DEF OpenIn, Open

(* With one child: what waits in its walk, and then the child.             *)
LEMMA OpenAboveOne ==
  ASSUME NEW h, NEW visits, NEW n \in 1 .. Len(h), NEW k,
         NEW t, Ends(1 .. Len(h), visits, t, k), NEW s, s = Then1(t, n),
         NEW d \in 0 .. Len(t), \A x : Visits(visits, n, x) => x = k
  PROVE  /\ d < Len(t) => OpenIn(h, visits, s, d) \subseteq OpenIn(h, visits, t, d)
         /\ d = Len(t) => \A x \in OpenIn(h, visits, s, d) : x = k /\ Gives(h, x)
<1>1. PICK D, a : D = 1 .. Len(h) /\ a = Len(t)
  OBVIOUS
<1>2. /\ t \in Seq(D) /\ a \in Nat \ {0} /\ t[a] = k /\ n \in D
      /\ \A p, q \in 1 .. a : t[p] = t[q] => p = q
  BY <1>1 DEF Ends
<1>3. Len(s) = a + 1 /\ s[a + 1] = n /\ \A p \in 1 .. a : s[p] = t[p]
  <2>1. <<n>> \in Seq(D) /\ Len(<<n>>) = 1 /\ <<n>>[1] = n
    BY <1>2
  <2>2. s = t \o <<n>>
    BY DEF Then1
  <2> QED BY <1>1, <1>2, <2>1, <2>2
<1>4. ASSUME NEW x \in OpenIn(h, visits, s, d)
      PROVE  /\ x \in 1 .. Len(h) /\ Gives(h, x)
             /\ d < a => x \in OpenIn(h, visits, t, d)
             /\ d = a => x = k
  <2>1. x \in 1 .. Len(h) /\ Gives(h, x)
    BY DEF OpenIn, Open
  <2>2. PICK p \in 0 + 1 .. d : s[p] = x
    BY DEF OpenIn, Open
  <2>3. PICK q \in d + 1 .. a + 1 : Visits(visits, s[q], x)
    BY <1>3 DEF OpenIn, Open
  <2>4. p \in 1 .. a /\ t[p] = x /\ d \in Nat
    BY <1>1, <1>2, <1>3, <2>2
  <2>5. CASE q = a + 1
    <3>1. x = k
      BY <1>3, <2>3, <2>5
    <3>2. a \in 1 .. a
      BY <1>2
    <3>3. p = a
      BY <1>2, <2>4, <3>1, <3>2
    <3> QED BY <1>2, <2>1, <2>2, <2>4, <3>1, <3>3
  <2>6. CASE q \in d + 1 .. a
    <3>1. q \in 1 .. a
      BY <1>2, <2>4, <2>6
    <3>2. Visits(visits, t[q], x)
      BY <1>3, <2>3, <3>1
    <3>3. x \in OpenIn(h, visits, t, d) /\ d < a
      BY <1>1, <1>2, <2>1, <2>2, <2>4, <2>6, <3>2, SMTT(30) DEF OpenIn, Open
    <3> QED BY <2>1, <2>4, <1>2, <3>3
  <2> QED BY <1>2, <2>4, <2>3, <2>5, <2>6
<1> QED BY <1>1, <1>4

(* With two children: what waits in the walk of the first; the first and   *)
(* what waits in the walk of the second; both.                             *)
LEMMA OpenAboveTwo ==
  ASSUME NEW h, NEW visits, NEW n \in 1 .. Len(h), NEW k1, NEW k2,
         NEW t, Ends(1 .. Len(h), visits, t, k1), NEW u, Ends(1 .. Len(h), visits, u, k2),
         NEW s, s = Then2(t, u, n), \A p, q \in 1 .. Len(s) : s[p] = s[q] => p = q,
         NEW d \in 0 .. Len(t) + Len(u), \A x : Visits(visits, n, x) => x = k1 \/ x = k2
  PROVE  /\ d < Len(t) => OpenIn(h, visits, s, d) \subseteq OpenIn(h, visits, t, d)
         /\ Len(t) <= d /\ d < Len(t) + Len(u) =>
              \A x \in OpenIn(h, visits, s, d) :
                (x = k1 /\ Gives(h, k1)) \/ x \in OpenIn(h, visits, u, d - Len(t))
         /\ d = Len(t) + Len(u) =>
              \A x \in OpenIn(h, visits, s, d) : x \in {k1, k2} /\ Gives(h, x)
<1>1. PICK D, a, b : D = 1 .. Len(h) /\ a = Len(t) /\ b = Len(u)
  OBVIOUS
<1>2. /\ t \in Seq(D) /\ a \in Nat \ {0} /\ t[a] = k1
      /\ u \in Seq(D) /\ b \in Nat \ {0} /\ u[b] = k2 /\ n \in D
      /\ \A p \in 1 .. b : \A x \in D : Visits(visits, u[p], x) => \E q \in 1 .. p - 1 : u[q] = x
  BY <1>1 DEF Ends
<1>3. /\ Len(s) = a + b + 1 /\ s[a + b + 1] = n
      /\ \A p \in 1 .. a : s[p] = t[p]
      /\ \A p \in 1 .. b : s[a + p] = u[p]
  <2>1. PICK c : c = t \o u
    OBVIOUS
  <2>2. /\ c \in Seq(D) /\ Len(c) = a + b
        /\ \A p \in 1 .. a : c[p] = t[p]
        /\ \A p \in 1 .. b : c[a + p] = u[p]
    BY <1>1, <1>2, <2>1
  <2>3. PICK e : e = Len(c)
    OBVIOUS
  <2>4. <<n>> \in Seq(D) /\ Len(<<n>>) = 1 /\ <<n>>[1] = n /\ s = c \o <<n>>
    BY <1>2, <2>1 DEF Then2
  <2>5. Len(s) = e + 1 /\ s[e + 1] = n /\ \A p \in 1 .. e : s[p] = c[p]
    BY <2>2, <2>3, <2>4
  <2>6. Len(s) = a + b + 1 /\ s[a + b + 1] = n /\ \A p \in 1 .. a + b : s[p] = c[p]
    BY <2>2, <2>3, <2>5
  <2>7. /\ \A p \in 1 .. a : p \in 1 .. a + b
        /\ \A p \in 1 .. b : a + p \in 1 .. a + b
    BY <1>2
  <2> QED BY <2>2, <2>6, <2>7
<1>4. \A p, q \in 1 .. a + b + 1 : s[p] = s[q] => p = q
  BY <1>3
<1>5. /\ s[a] = k1 /\ a \in 1 .. a + b + 1
      /\ s[a + b] = k2 /\ a + b \in 1 .. a + b + 1
  <2>1. a \in 1 .. a /\ b \in 1 .. b /\ a \in 1 .. a + b + 1 /\ a + b \in 1 .. a + b + 1
    BY <1>2
  <2> QED BY <1>2, <1>3, <2>1
<1>6. d \in Nat /\ d <= a + b
  BY <1>1, <1>2
<1>7. ASSUME NEW x \in OpenIn(h, visits, s, d)
      PROVE  /\ x \in 1 .. Len(h) /\ Gives(h, x)
             /\ d < a => x \in OpenIn(h, visits, t, d)
             /\ a <= d /\ d < a + b => x = k1 \/ x \in OpenIn(h, visits, u, d - a)
             /\ d = a + b => x \in {k1, k2}
  <2>1. PICK p \in 0 + 1 .. d : s[p] = x
    BY DEF OpenIn, Open
  <2>2. PICK q \in d + 1 .. a + b + 1 : Visits(visits, s[q], x)
    BY <1>3 DEF OpenIn, Open
  <2>3. x \in 1 .. Len(h) /\ Gives(h, x)
    BY DEF OpenIn, Open
  <2>4. p \in 1 .. a + b + 1 /\ p <= d /\ q \in 1 .. a + b + 1 /\ d + 1 <= q
    BY <1>2, <1>6, <2>1, <2>2
  <2>5. CASE q = a + b + 1
    <3>1. x = k1 \/ x = k2
      BY <1>3, <2>2, <2>5
    <3>2. x = k1 => p = a
      BY <1>4, <1>5, <2>1, <2>4
    <3>3. x = k2 => p = a + b
      BY <1>4, <1>5, <2>1, <2>4
    <3>4. x = k1 => a <= d
      BY <3>2, <2>4
    <3>5. x = k2 /\ x # k1 => a + b <= d
      BY <3>3, <2>4
    <3>6. x = k1 => ~(d < a)
      BY <1>2, <1>6, <3>4
    <3>7. x # k1 => ~(d < a) /\ ~(d < a + b)
      BY <1>2, <1>6, <3>1, <3>5
    <3> QED BY <2>3, <3>1, <3>6, <3>7
  <2>6. CASE q \in a + 1 .. a + b
    <3>1. q - a \in 1 .. b /\ a + (q - a) = q
      BY <1>2, <2>6
    <3>2. PICK e \in 1 .. b : q = a + e
      BY <3>1
    <3>3. Visits(visits, u[e], x) /\ x \in D
      BY <1>1, <1>3, <2>2, <2>3, <3>2
    <3>4. PICK c \in 1 .. e - 1 : u[c] = x
      BY <1>2, <3>3
    <3>5. c \in 1 .. b /\ a + c \in 1 .. a + b + 1
      BY <1>2, <3>2, <3>4
    <3>6. s[a + c] = x
      BY <1>3, <3>4, <3>5
    <3>7. p = a + c
      BY <1>4, <2>1, <2>4, <3>5, <3>6
    <3>8. c \in 0 + 1 .. d - a /\ e \in (d - a) + 1 .. b /\ a <= d /\ d < a + b
      BY <1>2, <1>6, <2>4, <3>2, <3>5, <3>7
    <3>9. x \in OpenIn(h, visits, u, d - a)
      BY <1>1, <2>3, <3>3, <3>4, <3>8 DEF OpenIn, Open
    <3>10. ~(d < a) /\ d # a + b
      BY <1>2, <1>6, <3>8
    <3> QED BY <2>3, <3>9, <3>10
  <2>7. CASE q \in d + 1 .. a
    <3>1. q \in 1 .. a /\ p \in 1 .. a /\ d < a
      BY <1>2, <1>6, <2>1, <2>7
    <3>2. t[p] = x /\ Visits(visits, t[q], x)
      BY <1>3, <2>1, <2>2, <3>1
    <3>3. x \in OpenIn(h, visits, t, d)
      BY <1>1, <2>1, <2>3, <2>7, <3>2 DEF OpenIn, Open
    <3>4. ~(a <= d) /\ d # a + b
      BY <1>2, <1>6, <3>1
    <3> QED BY <2>3, <3>3, <3>4
  <2>8. q = a + b + 1 \/ q \in a + 1 .. a + b \/ q \in d + 1 .. a
    BY <1>2, <1>6, <2>4
  <2> QED BY <2>5, <2>6, <2>7, <2>8
<1>8. d < Len(t) => OpenIn(h, visits, s, d) \subseteq OpenIn(h, visits, t, d)
  BY <1>1, <1>7
<1>9. Len(t) <= d /\ d < Len(t) + Len(u) =>
        \A x \in OpenIn(h, visits, s, d) :
          (x = k1 /\ Gives(h, k1)) \/ x \in OpenIn(h, visits, u, d - Len(t))
  BY <1>1, <1>7
<1>10. d = Len(t) + Len(u) => \A x \in OpenIn(h, visits, s, d) : x \in {k1, k2} /\ Gives(h, x)
  BY <1>1, <1>7
<1> QED BY <1>8, <1>9, <1>10

(***************************************************************************)
(* Every point of every walk fits.                                         *)
(***************************************************************************)
(* Of a node that is no assignment the code generator visits all children. *)
LEMMA SkippingKids ==
  ASSUME Tree(heap, root), NEW n \in 1 .. Len(heap), heap[n].type # "ASSIGN"
  PROVE  /\ Skipping[n] \in Seq(1 .. Len(heap)) /\ Len(Skipping[n]) = Len(heap[n].kids)
         /\ \A i \in 1 .. Len(heap[n].kids) : Skipping[n][i] = heap[n].kids[i]
         /\ heap[n].kids = <<>> => Skipping[n] = <<>>
<1>1. VisitsKids(heap, Skipping, Unloaded(heap)) /\ Unloaded(heap)[n] = 0
  BY SkippingVisits DEF Unloaded
<1>2. /\ Skipping[n] \in Seq(1 .. Len(heap)) /\ Len(Skipping[n]) + 0 = Len(heap[n].kids)
      /\ \A i \in 1 .. Len(Skipping[n]) : Skipping[n][i] = heap[n].kids[i + 0]
  BY <1>1 DEF VisitsKids
<1>3. Len(Skipping[n]) \in Nat /\ \A i \in 1 .. Len(Skipping[n]) : i + 0 = i
  BY <1>2
<1>4. Len(Skipping[n]) = Len(heap[n].kids)
  BY <1>2, <1>3
<1>5. \A i \in 1 .. Len(heap[n].kids) : Skipping[n][i] = heap[n].kids[i]
  BY <1>2, <1>3, <1>4
<1>6. heap[n].kids = <<>> => Skipping[n] = <<>>
  BY <1>2, <1>4
<1> QED BY <1>2, <1>4, <1>5, <1>6

Fitting(N, f, n) ==
  \A d \in 0 .. Len(f[n]) :
    \E o : AtMost(OpenIn(heap, Skipping, f[n], d), o) /\ Fits(heap, N, n, o)

(* A set with nothing but x, if it is there.                               *)
LEMMA AtMostOne ==
  ASSUME NEW S, NEW x, \A y \in S : y = x
  PROVE  AtMost(S, 1)
<1>1. AtMost({} \cup {x}, 0 + 1)
  BY AtMostNone, AtMostMore
<1>2. S \subseteq {} \cup {x} /\ 0 + 1 = 1
  OBVIOUS
<1> QED BY <1>1, <1>2, AtMostPart

(* Nothing waits at the end of the walk of a node.                         *)
LEMMA FittingEnd ==
  ASSUME NEW N, NEW f, Walks(heap, Skipping, f), NEW n \in 1 .. Len(heap), N[n] \in Nat
  PROVE  \E o : AtMost(OpenIn(heap, Skipping, f[n], Len(f[n])), o) /\ Fits(heap, N, n, o)
<1>1. Len(f[n]) \in Nat
  BY WalkEnds DEF Ends
<1>2. AtMost(OpenIn(heap, Skipping, f[n], Len(f[n])), 0)
  BY <1>1, OpenAtEnd, AtMostNone
<1> QED BY <1>2, NoneFits

(* A node without children. *)
LEMMA FittingLeaf ==
  ASSUME Tree(heap, root), NEW N, NEW f, Walks(heap, Skipping, f), NEW n \in 1 .. Len(heap),
         N[n] \in Nat, heap[n].type # "ASSIGN", heap[n].kids = <<>>
  PROVE  Fitting(N, f, n)
<1>1. f[n] = <<n>>
  BY SkippingKids, WalkOfLeaf
<1>2. Len(<<n>>) = 1
  OBVIOUS
<1>3. ASSUME NEW d \in 0 .. Len(f[n])
      PROVE  \E o : AtMost(OpenIn(heap, Skipping, f[n], d), o) /\ Fits(heap, N, n, o)
  <2>1. d = 0 \/ d = Len(f[n])
    BY <1>1, <1>2
  <2>2. CASE d = 0
    <3>1. 0 + 1 .. d = {}
      BY <2>2
    <3>2. OpenIn(heap, Skipping, f[n], d) = {}
      BY <3>1 DEF OpenIn, Open
    <3> QED BY <3>2, AtMostNone, NoneFits
  <2>3. CASE d = Len(f[n])
    BY <2>3, FittingEnd
  <2> QED BY <2>1, <2>2, <2>3
<1> QED BY <1>3 DEF Fitting

(* A cast or a write, when its child fits.                                 *)
LEMMA FittingOne ==
  ASSUME AllTyped, NEW N, Counts(heap, N), NEW f, Walks(heap, Skipping, f),
         NEW n \in 1 .. Len(heap), Settled(heap, layout, n),
         heap[n].type \in {"WRITE", "CAST_TO_FLOAT"}, Fitting(N, f, heap[n].kids[1])
  PROVE  Fitting(N, f, n)
<1>1. PICK k : k = heap[n].kids[1]
  OBVIOUS
<1>2. Tree(heap, root) /\ heap[n].type # "ASSIGN" /\ N[n] \in Nat
  BY DEF AllTyped, Counts
<1>3. Len(Skipping[n]) = 1 /\ Skipping[n][1] = k
  <2>1. Len(heap[n].kids) = 1 /\ 1 \in 1 .. 1
    BY <1>1, OnlyKidFacts
  <2> QED BY <1>1, <1>2, <2>1, SkippingKids
<1>4. k \in 1 .. Len(heap) /\ f[n] = Then1(f[k], n)
  BY <1>3, WalkOfOne
<1>5. Ends(1 .. Len(heap), Skipping, f[k], k)
  BY <1>4, WalkEnds
<1>6. \A x : Visits(Skipping, n, x) => x = k
  BY <1>3 DEF Visits
<1>7. Len(f[k]) \in Nat /\ Len(f[n]) = Len(f[k]) + 1
  <2>1. PICK c, D : c = f[k] /\ D = 1 .. Len(heap)
    OBVIOUS
  <2>2. c \in Seq(D) /\ <<n>> \in Seq(D) /\ Len(<<n>>) = 1
    BY <1>5, <2>1 DEF Ends
  <2>3. f[n] = c \o <<n>>
    BY <1>4, <2>1 DEF Then1
  <2> QED BY <2>1, <2>2, <2>3
<1>8. Fitting(N, f, k)
  BY <1>1
<1>9. /\ \A o : Fits(heap, N, k, o) => Fits(heap, N, n, o)
      /\ Gives(heap, k) => Fits(heap, N, n, 1)
  BY <1>1, FitsAboveOne
<1>10. ASSUME NEW d \in 0 .. Len(f[n])
       PROVE  \E o : AtMost(OpenIn(heap, Skipping, f[n], d), o) /\ Fits(heap, N, n, o)
  <2>1. CASE d < Len(f[k])
    <3>1. d \in 0 .. Len(f[k])
      BY <1>7, <2>1
    <3>2. OpenIn(heap, Skipping, f[n], d) \subseteq OpenIn(heap, Skipping, f[k], d)
      BY <1>4, <1>5, <1>6, <2>1, <3>1, OpenAboveOne
    <3>3. PICK o : AtMost(OpenIn(heap, Skipping, f[k], d), o) /\ Fits(heap, N, k, o)
      BY <1>8, <3>1 DEF Fitting
    <3>4. o \in Nat
      BY <3>3 DEF Fits
    <3>5. AtMost(OpenIn(heap, Skipping, f[n], d), o)
      BY <3>2, <3>3, <3>4, AtMostPart
    <3> QED BY <1>9, <3>3, <3>5
  <2>2. CASE d = Len(f[k])
    <3>1. d \in 0 .. Len(f[k])
      BY <1>7, <2>2
    <3>2. \A x \in OpenIn(heap, Skipping, f[n], d) : x = k /\ Gives(heap, x)
      BY <1>4, <1>5, <1>6, <2>2, <3>1, OpenAboveOne
    <3>3. CASE Gives(heap, k)
      <4>1. AtMost(OpenIn(heap, Skipping, f[n], d), 1)
        BY <3>2, AtMostOne
      <4> QED BY <1>9, <3>3, <4>1
    <3>4. CASE ~Gives(heap, k)
      <4>1. OpenIn(heap, Skipping, f[n], d) = {}
        BY <3>2, <3>4
      <4> QED BY <1>2, <4>1, AtMostNone, NoneFits
    <3> QED BY <3>3, <3>4
  <2>3. CASE d = Len(f[n])
    BY <1>2, <2>3, FittingEnd
  <2>4. d < Len(f[k]) \/ d = Len(f[k]) \/ d = Len(f[n])
    BY <1>7
  <2> QED BY <2>1, <2>2, <2>3, <2>4
<1> QED BY <1>10 DEF Fitting

(* An operation, when its operands fit.                                    *)
LEMMA FittingTwo ==
  ASSUME AllTyped, Precedence(heap), NEW N, Counts(heap, N), NEW f, Walks(heap, Skipping, f),
         NEW n \in 1 .. Len(heap), Settled(heap, layout, n), heap[n].type \in Arithmetic,
         Fitting(N, f, heap[n].kids[1]), Fitting(N, f, heap[n].kids[2])
  PROVE  Fitting(N, f, n)
<1>1. PICK k1, k2 : k1 = heap[n].kids[1] /\ k2 = heap[n].kids[2]
  OBVIOUS
<1>2. Tree(heap, root) /\ heap[n].type # "ASSIGN" /\ N[n] \in Nat
  BY KindFacts DEF AllTyped, Counts
<1>3. Len(Skipping[n]) = 2 /\ Skipping[n][1] = k1 /\ Skipping[n][2] = k2
  <2>1. Len(heap[n].kids) = 2
    BY <1>2, OperationKids
  <2> QED BY <1>1, <1>2, <2>1, SkippingKids
<1>4. k1 \in 1 .. Len(heap) /\ k2 \in 1 .. Len(heap) /\ f[n] = Then2(f[k1], f[k2], n)
  BY <1>3, WalkOfTwo
<1>5. Ends(1 .. Len(heap), Skipping, f[k1], k1) /\ Ends(1 .. Len(heap), Skipping, f[k2], k2)
  BY <1>4, WalkEnds
<1>6. \A x : Visits(Skipping, n, x) => x = k1 \/ x = k2
  BY <1>3 DEF Visits
<1>7. PICK a, b, D : a = Len(f[k1]) /\ b = Len(f[k2]) /\ D = 1 .. Len(heap)
  OBVIOUS
<1>8. a \in Nat /\ b \in Nat /\ Len(f[n]) = a + b + 1
  <2>0. a \in Nat /\ b \in Nat
    BY <1>5, <1>7 DEF Ends
  <2>1. PICK c : c = f[k1] \o f[k2]
    OBVIOUS
  <2>2. f[k1] \in Seq(D) /\ f[k2] \in Seq(D) /\ <<n>> \in Seq(D) /\ Len(<<n>>) = 1
    BY <1>5, <1>7 DEF Ends
  <2>3. c \in Seq(D) /\ Len(c) = a + b
    BY <1>7, <2>1, <2>2
  <2>4. f[n] = c \o <<n>>
    BY <1>4, <2>1 DEF Then2
  <2>5. PICK e : e = Len(c)
    OBVIOUS
  <2>6. Len(f[n]) = e + 1 /\ e = a + b
    BY <2>2, <2>3, <2>4, <2>5
  <2> QED BY <2>0, <2>6
<1>9. Fitting(N, f, k1) /\ Fitting(N, f, k2)
  BY <1>1
<1>10. /\ \A o : Fits(heap, N, k1, o) => Fits(heap, N, n, o)
       /\ \A o : Fits(heap, N, k2, o) =>
            /\ Fits(heap, N, n, o)
            /\ Gives(heap, k1) => Fits(heap, N, n, o + 1)
       /\ Gives(heap, k1) \/ Gives(heap, k2) => Fits(heap, N, n, 1)
       /\ Gives(heap, k1) /\ Gives(heap, k2) => Fits(heap, N, n, 2)
  BY <1>1, FitsAboveTwo
<1>11. \A p, q \in 1 .. Len(f[n]) : f[n][p] = f[n][q] => p = q
  BY WalkEnds DEF Ends
<1>12. ASSUME NEW d \in 0 .. a + b
       PROVE  /\ d < a => OpenIn(heap, Skipping, f[n], d) \subseteq OpenIn(heap, Skipping, f[k1], d)
              /\ a <= d /\ d < a + b =>
                   \A x \in OpenIn(heap, Skipping, f[n], d) :
                     (x = k1 /\ Gives(heap, k1)) \/ x \in OpenIn(heap, Skipping, f[k2], d - a)
              /\ d = a + b =>
                   \A x \in OpenIn(heap, Skipping, f[n], d) : x \in {k1, k2} /\ Gives(heap, x)
  <2>1. d \in 0 .. Len(f[k1]) + Len(f[k2])
    BY <1>7
  <2>2. PICK s, t, u : s = f[n] /\ t = f[k1] /\ u = f[k2]
    OBVIOUS
  <2>3. /\ s = Then2(t, u, n) /\ (\A p, q \in 1 .. Len(s) : s[p] = s[q] => p = q)
        /\ Ends(1 .. Len(heap), Skipping, t, k1) /\ Ends(1 .. Len(heap), Skipping, u, k2)
        /\ d \in 0 .. Len(t) + Len(u)
    BY <1>4, <1>5, <1>11, <2>1, <2>2
  <2>4. /\ d < Len(t) => OpenIn(heap, Skipping, s, d) \subseteq OpenIn(heap, Skipping, t, d)
        /\ Len(t) <= d /\ d < Len(t) + Len(u) =>
             \A x \in OpenIn(heap, Skipping, s, d) :
               (x = k1 /\ Gives(heap, k1)) \/ x \in OpenIn(heap, Skipping, u, d - Len(t))
        /\ d = Len(t) + Len(u) =>
             \A x \in OpenIn(heap, Skipping, s, d) : x \in {k1, k2} /\ Gives(heap, x)
    BY <1>6, <2>3, OpenAboveTwo
  <2> QED BY <1>7, <2>2, <2>4
<1>13. ASSUME NEW d \in 0 .. Len(f[n])
       PROVE  \E o : AtMost(OpenIn(heap, Skipping, f[n], d), o) /\ Fits(heap, N, n, o)
  <2>1. CASE d < a
    <3>1. d \in 0 .. a /\ d \in 0 .. a + b
      BY <1>8, <2>1
    <3>2. PICK o : AtMost(OpenIn(heap, Skipping, f[k1], d), o) /\ Fits(heap, N, k1, o)
      BY <1>7, <1>9, <3>1 DEF Fitting
    <3>3. o \in Nat
      BY <3>2 DEF Fits
    <3>4. AtMost(OpenIn(heap, Skipping, f[n], d), o)
      BY <1>12, <2>1, <3>1, <3>2, <3>3, AtMostPart
    <3> QED BY <1>10, <3>2, <3>4
  <2>2. CASE a <= d /\ d < a + b
    <3>1. d - a \in 0 .. b /\ d \in 0 .. a + b
      BY <1>8, <2>2
    <3>2. PICK S : S = OpenIn(heap, Skipping, f[k2], d - a)
      OBVIOUS
    <3>3. PICK o : AtMost(S, o) /\ Fits(heap, N, k2, o)
      BY <1>7, <1>9, <3>1, <3>2 DEF Fitting
    <3>4. o \in Nat
      BY <3>3 DEF Fits
    <3>5. CASE Gives(heap, k1)
      <4>1. OpenIn(heap, Skipping, f[n], d) \subseteq S \cup {k1}
        BY <1>12, <2>2, <3>1, <3>2
      <4>2. AtMost(S \cup {k1}, o + 1)
        BY <3>3, <3>4, AtMostMore, Zenon
      <4>3. AtMost(OpenIn(heap, Skipping, f[n], d), o + 1)
        <5>1. o + 1 \in Nat /\ o + 1 <= o + 1
          BY <3>4
        <5> QED BY <4>1, <4>2, <5>1, AtMostPart, Zenon
      <4> QED BY <1>10, <3>3, <3>5, <4>3
    <3>6. CASE ~Gives(heap, k1)
      <4>1. OpenIn(heap, Skipping, f[n], d) \subseteq S
        BY <1>12, <2>2, <3>1, <3>2, <3>6
      <4>2. AtMost(OpenIn(heap, Skipping, f[n], d), o)
        <5>1. o <= o
          BY <3>4
        <5> QED BY <3>3, <3>4, <4>1, <5>1, AtMostPart, Zenon
      <4> QED BY <1>10, <3>3, <4>2
    <3> QED BY <3>5, <3>6
  <2>3. CASE d = a + b
    <3>1. PICK S : S = OpenIn(heap, Skipping, f[n], d)
      OBVIOUS
    <3>2. \A x \in S : x \in {k1, k2} /\ Gives(heap, x)
      BY <1>8, <1>12, <2>3, <3>1
    <3>3. CASE Gives(heap, k1) /\ Gives(heap, k2)
      <4>1. AtMost({k1}, 1)
        BY AtMostOne, Zenon
      <4>2. AtMost({k1} \cup {k2}, 2)
        <5>1. AtMost({k1} \cup {k2}, 1 + 1)
          BY <4>1, AtMostMore
        <5>2. 1 + 1 = 2
          OBVIOUS
        <5> QED BY <5>1, <5>2, Zenon
      <4>3. S \subseteq {k1} \cup {k2}
        BY <3>2
      <4>4. AtMost(S, 2)
        BY <4>2, <4>3, AtMostPart
      <4> QED BY <1>10, <3>1, <3>3, <4>4
    <3>4. CASE Gives(heap, k1) /\ ~Gives(heap, k2)
      <4>1. S \subseteq {k1} /\ AtMost({k1}, 1)
        BY <3>2, <3>4, AtMostOne
      <4>2. AtMost(S, 1)
        BY <4>1, AtMostPart
      <4> QED BY <1>10, <3>1, <3>4, <4>2
    <3>5. CASE ~Gives(heap, k1) /\ Gives(heap, k2)
      <4>1. S \subseteq {k2} /\ AtMost({k2}, 1)
        BY <3>2, <3>5, AtMostOne
      <4>2. AtMost(S, 1)
        BY <4>1, AtMostPart
      <4> QED BY <1>10, <3>1, <3>5, <4>2
    <3>6. CASE ~Gives(heap, k1) /\ ~Gives(heap, k2)
      <4>1. S = {}
        BY <3>2, <3>6
      <4> QED BY <1>2, <3>1, <4>1, AtMostNone, NoneFits
    <3> QED BY <3>3, <3>4, <3>5, <3>6
  <2>4. CASE d = Len(f[n])
    BY <1>2, <2>4, FittingEnd
  <2>5. d < a \/ (a <= d /\ d < a + b) \/ d = a + b \/ d = Len(f[n])
    BY <1>8
  <2> QED BY <2>1, <2>2, <2>3, <2>4, <2>5
<1> QED BY <1>13 DEF Fitting

(* So every settled node that is no assignment fits: of those that do not, *)
(* one of the lowest rank would have children that do.                     *)
LEMMA AllFit ==
  ASSUME AllTyped, Precedence(heap), NEW N, Counts(heap, N), NEW f, Walks(heap, Skipping, f)
  PROVE  \A n \in 1 .. Len(heap) :
           Settled(heap, layout, n) /\ heap[n].type # "ASSIGN" => Fitting(N, f, n)
<1> DEFINE bad(n) == Settled(heap, layout, n) /\ heap[n].type # "ASSIGN" /\ ~Fitting(N, f, n)
           T      == {Rank(heap)[n] : n \in {m \in 1 .. Len(heap) : bad(m)}}
<1> SUFFICES ASSUME T # {} PROVE FALSE
  OBVIOUS
<1>1. Tree(heap, root)
  BY DEF AllTyped
<1>2. /\ Len(heap) \in Nat
      /\ \A n \in 1 .. Len(heap) :
           /\ Rank(heap)[n] \in 0 .. 2 * Len(heap) + 1
           /\ \A i \in 1 .. Len(heap[n].kids) :
                heap[n].kids[i] \in 1 .. Len(heap) /\ Rank(heap)[heap[n].kids[i]] < Rank(heap)[n]
  BY <1>1, RankFalls
<1>3. T \subseteq Nat
  BY <1>2
<1>4. PICK y \in T : \A z \in T : y <= z
  BY <1>3, LeastNumber
<1>5. PICK n \in 1 .. Len(heap) : bad(n) /\ y = Rank(heap)[n]
  BY <1>4
<1>6. ASSUME NEW k \in 1 .. Len(heap), Rank(heap)[k] < Rank(heap)[n], Settled(heap, layout, k),
             heap[k].type # "ASSIGN"
      PROVE  Fitting(N, f, k)
  <2>1. Rank(heap)[k] \in Nat /\ Rank(heap)[n] \in Nat
    BY <1>2
  <2>2. Rank(heap)[k] \notin T
    <3>1. ~(y <= Rank(heap)[k])
      BY <1>5, <1>6, <2>1
    <3> QED BY <1>4, <3>1, Zenon
  <2>3. ~bad(k)
    BY <2>2
  <2> QED BY <1>6, <2>3
<1> HIDE DEF T
<1>7. N[n] \in Nat /\ NodeShape(heap, n)
  BY <1>1, KidsOfTree DEF Counts
<1>8. CASE heap[n].kids = <<>>
  BY <1>1, <1>5, <1>7, <1>8, FittingLeaf
<1>9. CASE heap[n].type \in {"WRITE", "CAST_TO_FLOAT"}
  <2>1. PICK k : k = heap[n].kids[1]
    OBVIOUS
  <2>2. /\ k \in 1 .. Len(heap) /\ Settled(heap, layout, k) /\ heap[k].type \in Expressions
        /\ Len(heap[n].kids) = 1
    BY <1>5, <1>9, <2>1, OnlyKidFacts
  <2>3. Rank(heap)[k] < Rank(heap)[n]
    BY <1>2, <2>1, <2>2
  <2>4. heap[k].type # "ASSIGN"
    BY <2>2, KindFacts
  <2>5. Fitting(N, f, k)
    BY <1>6, <2>2, <2>3, <2>4
  <2> QED BY <1>5, <1>9, <2>1, <2>5, FittingOne
<1>10. CASE heap[n].type \in Arithmetic
  <2>1. ASSUME NEW i \in 1 .. 2 PROVE Fitting(N, f, heap[n].kids[i])
    <3>1. PICK k : k = heap[n].kids[i]
      OBVIOUS
    <3>2. k \in 1 .. Len(heap) /\ Settled(heap, layout, k) /\ heap[k].type \in Operands
      BY <1>5, <1>10, <3>1, OperandFacts
    <3>3. Len(heap[n].kids) = 2
      BY <1>1, <1>10, OperationKids
    <3>4. Rank(heap)[k] < Rank(heap)[n]
      BY <1>2, <3>1, <3>3
    <3>5. heap[k].type # "ASSIGN"
      BY <3>2, KindFacts
    <3> QED BY <1>6, <3>1, <3>2, <3>4, <3>5
  <2>2. Fitting(N, f, heap[n].kids[1]) /\ Fitting(N, f, heap[n].kids[2])
    BY <2>1
  <2> QED BY <1>5, <1>10, <2>2, FittingTwo
<1>11. \/ heap[n].type \in Tops \cup {"IFSTAT", "FREED"}
       \/ heap[n].type \in {"WRITE", "CAST_TO_FLOAT"} \/ heap[n].type \in Arithmetic
  BY <1>5, <1>7 DEF NodeShape, NodeTypes
<1>12. heap[n].type \in Tops \cup {"IFSTAT", "FREED"} => heap[n].kids = <<>>
  BY <1>7 DEF NodeShape, KidsFit
<1> QED BY <1>8, <1>9, <1>10, <1>11, <1>12

(***************************************************************************)
(* The walk over the whole program: those of its statements, one behind    *)
(* the other.                                                              *)
(***************************************************************************)
(* A sequence of numbers none of which is less than the one before.        *)
LEMMA NonDecreasing ==
  ASSUME NEW m \in Nat, NEW a, \A i \in 0 .. m : a[i] \in Nat,
         \A i \in 1 .. m : a[i - 1] <= a[i]
  PROVE  \A i, j \in 0 .. m : i <= j => a[i] <= a[j]
<1> DEFINE T == {j \in 0 .. m : \E i \in 0 .. m : i <= j /\ ~(a[i] <= a[j])}
<1> SUFFICES ASSUME T # {} PROVE FALSE
  OBVIOUS
<1>1. T \in SUBSET Nat
  OBVIOUS
<1>2. PICK j \in T : \A k \in T : j <= k
  BY <1>1, LeastNumber
<1>3. PICK i \in 0 .. m : i <= j /\ ~(a[i] <= a[j])
  BY <1>2
<1>4. j \in 0 .. m /\ a[j] \in Nat /\ a[i] \in Nat
  BY <1>2
<1>5. i # j
  BY <1>3, <1>4
<1>6. j \in 1 .. m /\ j - 1 \in 0 .. m /\ i <= j - 1 /\ ~(j <= j - 1)
  BY <1>3, <1>4, <1>5
<1>7. j - 1 \notin T
  BY <1>2, <1>6
<1>8. a[i] <= a[j - 1]
  BY <1>6, <1>7
<1>9. a[j - 1] <= a[j] /\ a[j - 1] \in Nat
  BY <1>6
<1> QED BY <1>3, <1>4, <1>8, <1>9

(* What lies between the first and the last lies between two neighbours.   *)
LEMMA Between ==
  ASSUME NEW m \in Nat, NEW a, \A i \in 0 .. m : a[i] \in Nat,
         a[0] = 0, NEW q \in 1 .. a[m]
  PROVE  \E k \in 1 .. m : q \in a[k - 1] + 1 .. a[k]
<1> DEFINE T == {j \in 0 .. m : q <= a[j]}
<1>1. m \in T /\ T \in SUBSET Nat
  BY SMT
<1>2. PICK j \in T : \A k \in T : j <= k
  BY <1>1, LeastNumber
<1>3. j \in 0 .. m /\ q <= a[j] /\ a[j] \in Nat /\ q \in Nat /\ q > 0
  BY <1>2
<1>4. j # 0
  BY <1>3
<1>5. j \in 1 .. m /\ j - 1 \in 0 .. m /\ ~(j <= j - 1)
  BY <1>3, <1>4
<1>6. j - 1 \notin T /\ a[j - 1] \in Nat
  BY <1>2, <1>5
<1>7. ~(q <= a[j - 1])
  BY <1>5, <1>6
<1>8. q \in a[j - 1] + 1 .. a[j]
  BY <1>3, <1>6, <1>7
<1> QED BY <1>5, <1>8

(* The parts of a flattened sequence, and where they end.                  *)
PartsEnd(s, seqs, a, j) ==
  \A k \in 1 .. j : \A p \in 1 .. Len(seqs[k]) : s[a[k - 1] + p] = seqs[k][p]

(* Each part of a flattened sequence ends somewhere in it, the next one    *)
(* begins there, and the last one ends where the sequence does.            *)
LEMMA FlattenParts ==
  ASSUME NEW D, NEW seqs \in Seq(Seq(D))
  PROVE  \E a : /\ \A k \in 0 .. Len(seqs) : a[k] \in Nat
                /\ a[0] = 0 /\ a[Len(seqs)] = Len(FlattenSeq(seqs))
                /\ \A k \in 1 .. Len(seqs) : a[k] = a[k - 1] + Len(seqs[k])
                /\ PartsEnd(FlattenSeq(seqs), seqs, a, Len(seqs))
<1>1. CASE seqs = <<>>
  <2>1. FlattenSeq(<<>>) = <<>>
    BY DEF FlattenSeq
  <2>2. Len(seqs) = 0 /\ Len(FlattenSeq(seqs)) = 0
    BY <1>1, <2>1
  <2>3. PICK a : a = [k \in {0} |-> 0]
    OBVIOUS
  <2>4. a[0] = 0 /\ 0 .. 0 = {0} /\ 1 .. 0 = {}
    BY <2>3
  <2> QED BY <2>2, <2>4 DEF PartsEnd
<1>2. CASE seqs # <<>>
  <2>1. Len(seqs) \in Nat \ {0} /\ \A k \in 1 .. Len(seqs) : seqs[k] \in Seq(D)
    BY <1>2, ElementOfSeq, EmptySeq
  <2>2. PICK g : /\ \A i \in 1 .. Len(seqs) : g[i] \in Seq(D)
                 /\ g[1] = seqs[1]
                 /\ \A i \in 2 .. Len(seqs) : g[i] = g[i - 1] \o seqs[i]
                 /\ FlattenSeq(seqs) = g[Len(seqs)]
    BY <1>2, FlattenIsPartial
  <2>3. PICK m : m = Len(seqs)
    OBVIOUS
  <2>4. PICK a : a = [k \in 0 .. m |-> IF k = 0 THEN 0 ELSE Len(g[k])]
    OBVIOUS
  <2>5. m \in Nat \ {0} /\ a[0] = 0 /\ \A k \in 1 .. m : a[k] = Len(g[k])
    BY <2>1, <2>3, <2>4
  <2>6. \A k \in 0 .. m : a[k] \in Nat
    <3> SUFFICES ASSUME NEW k \in 0 .. m PROVE a[k] \in Nat
      OBVIOUS
    <3>1. CASE k = 0
      BY <2>5, <3>1
    <3>2. CASE k \in 1 .. m
      <4>1. g[k] \in Seq(D)
        BY <2>2, <2>3, <3>2
      <4> QED BY <2>5, <3>2, <4>1
    <3> QED BY <2>5, <3>1, <3>2
  <2>7. ASSUME NEW k \in 1 .. m
        PROVE  /\ a[k] = a[k - 1] + Len(seqs[k])
               /\ \A p \in 1 .. Len(seqs[k]) : g[k][a[k - 1] + p] = seqs[k][p]
               /\ k # 1 => \A p \in 1 .. a[k - 1] : g[k][p] = g[k - 1][p]
    <3>1. CASE k = 1
      <4>1. a[1] = Len(seqs[1]) /\ a[1 - 1] = 0 /\ Len(seqs[1]) \in Nat /\ seqs[1] \in Seq(D)
        BY <2>1, <2>2, <2>3, <2>5, <3>1
      <4>2. \A p \in 1 .. Len(seqs[1]) : 0 + p = p
        BY <4>1
      <4> QED BY <2>2, <3>1, <4>1, <4>2
    <3>2. CASE k # 1
      <4>1. k \in 2 .. m /\ k - 1 \in 1 .. m
        BY <2>5, <3>2
      <4>2. PICK t, u, s : t = g[k - 1] /\ u = seqs[k] /\ s = g[k]
        OBVIOUS
      <4>3. t \in Seq(D) /\ u \in Seq(D) /\ s = t \o u
        BY <2>1, <2>2, <2>3, <4>1, <4>2
      <4>4. /\ Len(s) = Len(t) + Len(u) /\ Len(t) \in Nat
            /\ \A p \in 1 .. Len(u) : s[Len(t) + p] = u[p]
            /\ \A p \in 1 .. Len(t) : s[p] = t[p]
        BY <4>3
      <4>5. a[k] = Len(s) /\ a[k - 1] = Len(t)
        BY <2>5, <4>1, <4>2
      <4> QED BY <4>2, <4>4, <4>5
    <3> QED BY <3>1, <3>2
  <2>8. \A i, j \in 0 .. m : i <= j => a[i] <= a[j]
    <3>1. \A i \in 1 .. m : a[i - 1] <= a[i]
      <4> SUFFICES ASSUME NEW i \in 1 .. m PROVE a[i - 1] <= a[i]
        OBVIOUS
      <4>1. a[i] = a[i - 1] + Len(seqs[i]) /\ a[i - 1] \in Nat
        BY <2>5, <2>6, <2>7
      <4>2. seqs[i] \in Seq(D)
        BY <2>1, <2>3
      <4>3. Len(seqs[i]) \in Nat
        BY <4>2
      <4> QED BY <4>1, <4>3
    <3> QED BY <2>5, <2>6, <3>1, NonDecreasing
  <2> DEFINE T == {j \in 1 .. m : ~PartsEnd(g[j], seqs, a, j)}
  <2>9. T = {}
    <3> SUFFICES ASSUME T # {} PROVE FALSE
      OBVIOUS
    <3>1. T \in SUBSET Nat
      OBVIOUS
    <3>2. PICK j \in T : \A i \in T : j <= i
      BY <3>1, LeastNumber
    <3>3. j \in 1 .. m /\ ~PartsEnd(g[j], seqs, a, j)
      BY <3>2
    <3>4. PICK k \in 1 .. j : \E p \in 1 .. Len(seqs[k]) : g[j][a[k - 1] + p] # seqs[k][p]
      BY <3>3 DEF PartsEnd
    <3>41. PICK p \in 1 .. Len(seqs[k]) : g[j][a[k - 1] + p] # seqs[k][p]
      BY <3>4
    <3>5. k # j
      BY <2>7, <3>3, <3>41
    <3>6. j # 1 /\ j - 1 \in 1 .. m /\ ~(j <= j - 1) /\ k \in 1 .. j - 1 /\ k \in 1 .. m
      BY <2>5, <3>3, <3>41, <3>5
    <3>7. PartsEnd(g[j - 1], seqs, a, j - 1)
      BY <3>2, <3>6
    <3>8. g[j - 1][a[k - 1] + p] = seqs[k][p]
      BY <3>41, <3>6, <3>7 DEF PartsEnd
    <3>9. a[k - 1] + p \in 1 .. a[j - 1]
      <4>1. a[k] = a[k - 1] + Len(seqs[k]) /\ k - 1 \in 0 .. m /\ k \in 0 .. m /\ j - 1 \in 0 .. m
        BY <2>5, <2>7, <3>6
      <4>2. a[k] \in Nat /\ a[k - 1] \in Nat /\ a[j - 1] \in Nat /\ a[k] <= a[j - 1]
        BY <2>6, <2>8, <3>6, <4>1
      <4>3. seqs[k] \in Seq(D)
        BY <2>1, <2>3, <3>6
      <4>4. Len(seqs[k]) \in Nat
        BY <4>3
      <4>5. p \in Nat /\ 1 <= p /\ p <= Len(seqs[k])
        BY <4>4
      <4>6. PICK b, c, e : b = a[k - 1] /\ c = a[j - 1] /\ e = Len(seqs[k])
        OBVIOUS
      <4>7. b \in Nat /\ c \in Nat /\ e \in Nat /\ b + e <= c /\ 1 <= p /\ p <= e /\ p \in Nat
        BY <4>1, <4>2, <4>4, <4>5, <4>6
      <4>8. b + p \in 1 .. c
        BY <4>7
      <4> QED BY <4>6, <4>8
    <3>10. g[j][a[k - 1] + p] = g[j - 1][a[k - 1] + p]
      BY <2>7, <3>3, <3>6, <3>9
    <3> QED BY <3>41, <3>8, <3>10
  <2>10. PartsEnd(g[m], seqs, a, m)
    <3>1. m \in 1 .. m
      BY <2>5
    <3> QED BY <2>9, <3>1
  <2> HIDE DEF T
  <2>11. a[m] = Len(g[m])
    BY <2>5
  <2>12. \A k \in 1 .. m : a[k] = a[k - 1] + Len(seqs[k])
    BY <2>7
  <2> QED BY <2>2, <2>3, <2>5, <2>6, <2>10, <2>11, <2>12
<1> QED BY <1>1, <1>2

(* The walks of the nodes, and the order in which the nodes are left.      *)
LEMMA WalksExist ==
  ASSUME Tree(heap, root), NEW visits, NEW skip, VisitsKids(heap, visits, skip)
  PROVE  \E f : /\ Walks(heap, visits, f)
                /\ LeaveOrder(visits) = FlattenSeq([i \in 1 .. Len(root) |-> f[root[i]]])
<1> DEFINE leave == CHOOSE leave : leave = [n \in DOMAIN heap |->
             FlattenSeq([i \in DOMAIN visits[n] |-> leave[visits[n][i]]]) \o <<n>>]
<1>1. PICK D, rank, m : D = 1 .. Len(heap) /\ rank = Rank(heap) /\ m = 2 * Len(heap) + 1
  OBVIOUS
<1>2. DOMAIN heap = D /\ DOMAIN root = 1 .. Len(root) /\ Len(heap) \in Nat
  BY <1>1 DEF Tree
<1>3. Forest(D, visits, rank, m)
  BY <1>1, VisitsForest
<1>4. leave = [n \in D |-> FlattenSeq([i \in DOMAIN visits[n] |-> leave[visits[n][i]]]) \o <<n>>]
  <2>1. m + 1 \in Nat /\ {o \in D : rank[o] < m + 1} = D
    <3>1. m \in Nat /\ \A o \in D : rank[o] \in 0 .. m
      BY <1>3 DEF Forest
    <3> QED BY <3>1
  <2>2. PICK f : Leaves(D, visits, rank, m + 1, f)
    BY <1>3, <2>1, LeavesExist
  <2>3. f = [n \in D |-> FlattenSeq([i \in DOMAIN visits[n] |-> f[visits[n][i]]]) \o <<n>>]
    BY <2>1, <2>2 DEF Leaves
  <2>4. \E g : g = [n \in DOMAIN heap |->
                      FlattenSeq([i \in DOMAIN visits[n] |-> g[visits[n][i]]]) \o <<n>>]
    BY <1>2, <2>3
  <2> QED BY <1>2, <2>4, Zenon
<1>5. LeaveOrder(visits) = FlattenSeq([i \in DOMAIN root |-> leave[root[i]]])
  BY Zenon DEF LeaveOrder
<1> HIDE DEF leave
<1>6. \A n \in D : leave[n] = FlattenSeq([i \in DOMAIN visits[n] |-> leave[visits[n][i]]]) \o <<n>>
  BY <1>4, Zenon
<1>7. \A n \in D : Tour(D, visits, {n}, leave[n])
  BY <1>3, <1>6, LeavesTour
<1>8. \A n \in D : visits[n] \in Seq(D)
  BY <1>3 DEF Forest
<1>9. \A n \in D : leave[n] = Then1(Below(visits, leave, n), n)
  BY <1>6, Zenon DEF Then1, Below
<1>10. Walks(heap, visits, leave)
  BY <1>1, <1>2, <1>7, <1>8, <1>9, Zenon DEF Walks
<1>11. LeaveOrder(visits) = FlattenSeq([i \in 1 .. Len(root) |-> leave[root[i]]])
  BY <1>2, <1>5, Zenon
<1> QED BY <1>10, <1>11

(* The walk s over the program, where its statements end in it, and that   *)
(* at no point of a write or of a bare statement more results wait than    *)
(* the count allows for.                                                   *)
Plan(h, r, visits, N, s, a) ==
  /\ s \in Seq(1 .. Len(h)) /\ Len(s) \in Nat /\ Len(r) \in Nat
  /\ a[0] = 0 /\ a[Len(r)] = Len(s)
  /\ \A k \in 1 .. Len(r) : a[k - 1] \in Nat /\ a[k] \in Nat /\ a[k - 1] < a[k]
  /\ \A k \in 1 .. Len(r) : \A p \in a[k - 1] + 1 .. a[k] : s[p] \in Range(r) <=> p = a[k]
  /\ \A k \in 1 .. Len(r) : h[r[k]].type # "ASSIGN" => \A d \in a[k - 1] .. a[k] :
       \E o \in Nat : AtMost(OpenIn(h, visits, s, d), o) /\ 8 * o <= N[r[k]]

(* The walk of the code generator is such a walk: what waits in a          *)
(* statement fits its root (AllFit), and a root is the end of its own walk. *)
LEMMA PlanExists ==
  ASSUME AllTyped, Precedence(heap), NEW N, Counts(heap, N), NEW s, s = LeaveOrder(Skipping)
  PROVE  \E a : Plan(heap, root, Skipping, N, s, a)
<1>1. Tree(heap, root) /\ VisitsKids(heap, Skipping, Unloaded(heap))
  BY SkippingVisits DEF AllTyped
<1>2. PICK f : /\ Walks(heap, Skipping, f)
               /\ s = FlattenSeq([i \in 1 .. Len(root) |-> f[root[i]]])
  BY <1>1, WalksExist
<1>3. PICK D, m, seqs : D = 1 .. Len(heap) /\ m = Len(root) /\ seqs = [i \in 1 .. m |-> f[root[i]]]
  OBVIOUS
<1>4. /\ m \in Nat /\ DOMAIN root = 1 .. m /\ \A k \in 1 .. m : root[k] \in D
      /\ \A k \in 1 .. m : root[k] \notin KidSet(heap) /\ heap[root[k]].type \in StatementTypes
  <2>1. root \in Seq(D) /\ DOMAIN root = 1 .. m
    BY <1>1, <1>3 DEF Tree
  <2>2. \A k \in 1 .. m : root[k] \in D
    BY <1>3, <2>1, ElementOfSeq
  <2> QED BY <1>1, <1>3, <2>1, <2>2 DEF Tree
<1>5. \A k \in 1 .. m : seqs[k] = f[root[k]] /\ Ends(D, Skipping, seqs[k], root[k])
  <2> SUFFICES ASSUME NEW k \in 1 .. m
               PROVE  seqs[k] = f[root[k]] /\ Ends(D, Skipping, seqs[k], root[k])
    OBVIOUS
  <2>1. seqs[k] = f[root[k]] /\ root[k] \in 1 .. Len(heap)
    BY <1>3, <1>4
  <2> QED BY <1>2, <1>3, <2>1, WalkEnds
<1>6. seqs \in Seq(Seq(D)) /\ Len(seqs) = m
  <2>1. \A k \in 1 .. m : seqs[k] \in Seq(D)
    BY <1>5 DEF Ends
  <2>2. seqs = [i \in 1 .. m |-> seqs[i]]
    BY <1>3
  <2>3. seqs \in [1 .. m -> Seq(D)]
    BY <2>1, <2>2
  <2> QED BY <1>4, <2>3
<1>7. s = FlattenSeq(seqs)
  BY <1>2, <1>3
<1>8. PICK a : /\ \A k \in 0 .. m : a[k] \in Nat
               /\ a[0] = 0 /\ a[m] = Len(s)
               /\ \A k \in 1 .. m : a[k] = a[k - 1] + Len(seqs[k])
               /\ PartsEnd(s, seqs, a, m)
  BY <1>6, <1>7, FlattenParts
<1>9. Tour(D, Skipping, {root[i] : i \in 1 .. Len(root)}, s)
  BY <1>1, <1>3, WalkTour
<1>10. s \in Seq(D) /\ Len(s) \in Nat /\ \A p, q \in 1 .. Len(s) : s[p] = s[q] => p = q
  BY <1>9 DEF Tour
<1>11. ASSUME NEW k \in 1 .. m
       PROVE  /\ a[k - 1] \in Nat /\ a[k] \in Nat /\ Len(seqs[k]) \in Nat \ {0}
              /\ a[k] = a[k - 1] + Len(seqs[k]) /\ k \in 0 .. m /\ k - 1 \in 0 .. m
  <2>1. k \in 0 .. m /\ k - 1 \in 0 .. m
    BY <1>4
  <2> QED BY <1>5, <1>8, <2>1 DEF Ends
<1>12. \A i, j \in 0 .. m : i <= j => a[i] <= a[j]
  <2>1. \A i \in 1 .. m : a[i - 1] <= a[i]
    <3> SUFFICES ASSUME NEW i \in 1 .. m PROVE a[i - 1] <= a[i]
      OBVIOUS
    <3> QED BY <1>11
  <2> QED BY <1>4, <1>8, <2>1, NonDecreasing
<1>13. ASSUME NEW k \in 1 .. m, NEW p \in a[k - 1] + 1 .. a[k]
       PROVE  /\ p - a[k - 1] \in 1 .. Len(seqs[k]) /\ s[p] = seqs[k][p - a[k - 1]]
              /\ p \in 1 .. Len(s) /\ p \in Nat
  <2>1. p - a[k - 1] \in 1 .. Len(seqs[k]) /\ a[k - 1] + (p - a[k - 1]) = p /\ p \in Nat /\ p >= 1
    BY <1>11
  <2>2. s[a[k - 1] + (p - a[k - 1])] = seqs[k][p - a[k - 1]]
    BY <1>8, <2>1 DEF PartsEnd
  <2>3. k \in 0 .. m /\ m \in 0 .. m /\ k <= m
    BY <1>4
  <2>4. a[k] <= a[m] /\ a[m] \in Nat /\ a[k] \in Nat
    BY <1>8, <1>12, <2>3
  <2> QED BY <1>8, <2>1, <2>2, <2>4
<1>14. ASSUME NEW k \in 1 .. m, NEW p \in a[k - 1] + 1 .. a[k]
       PROVE  s[p] \in Range(root) <=> p = a[k]
  <2>1. CASE p = a[k]
    <3>1. p - a[k - 1] = Len(seqs[k])
      BY <1>11, <2>1
    <3>2. seqs[k][Len(seqs[k])] = root[k]
      BY <1>5 DEF Ends
    <3>3. s[p] = root[k]
      BY <1>13, <3>1, <3>2
    <3> QED BY <1>4, <2>1, <3>3 DEF Range
  <2>2. CASE p # a[k]
    <3>1. PICK j, t : j = p - a[k - 1] /\ t = seqs[k]
      OBVIOUS
    <3>2. j \in 1 .. Len(t) /\ j # Len(t) /\ Len(t) \in Nat /\ s[p] = t[j] /\ t[Len(t)] = root[k]
      BY <1>5, <1>11, <1>13, <2>2, <3>1 DEF Ends
    <3>3. Tour(D, Skipping, {root[k]}, t)
      BY <1>2, <1>3, <1>4, <1>5, <3>1 DEF Walks
    <3>4. t[j] # root[k]
      <4>1. Len(t) \in 1 .. Len(t)
        BY <3>2
      <4> QED BY <3>2, <3>3, <4>1 DEF Tour
    <3>5. PICK q \in j + 1 .. Len(t) : Visits(Skipping, t[q], t[j])
      BY <3>2, <3>3, <3>4 DEF Tour
    <3>6. t[q] \in D /\ t \in Seq(D)
      <4>1. q \in 1 .. Len(t) /\ t \in Seq(D)
        BY <3>2, <3>3 DEF Tour
      <4> QED BY <4>1, ElementOfSeq
    <3>7. t[j] \in KidSet(heap)
      <4>1. PICK n : n = t[q]
        OBVIOUS
      <4>2. PICK i \in 1 .. Len(Skipping[n]) : Skipping[n][i] = t[j]
        BY <3>5, <4>1 DEF Visits
      <4>3. n \in 1 .. Len(heap)
        BY <1>3, <3>6, <4>1
      <4>4. /\ Skipping[n] \in Seq(1 .. Len(heap)) /\ Unloaded(heap)[n] \in Nat
            /\ Len(Skipping[n]) + Unloaded(heap)[n] = Len(heap[n].kids)
            /\ Skipping[n][i] = heap[n].kids[i + Unloaded(heap)[n]]
        BY <1>1, <4>2, <4>3 DEF VisitsKids
      <4>5. Len(Skipping[n]) \in Nat
        BY <4>4
      <4>6. i + Unloaded(heap)[n] \in 1 .. Len(heap[n].kids)
        <5>1. PICK b, c : b = Unloaded(heap)[n] /\ c = Len(Skipping[n])
          OBVIOUS
        <5>2. b \in Nat /\ c \in Nat /\ i \in 1 .. c /\ c + b = Len(heap[n].kids)
          BY <4>2, <4>4, <4>5, <5>1
        <5>3. i + b \in 1 .. c + b
          BY <5>2
        <5> QED BY <5>1, <5>2, <5>3
      <4>7. /\ DOMAIN heap[n].kids = 1 .. Len(heap[n].kids)
            /\ \A e \in 1 .. Len(heap[n].kids) : heap[n].kids[e] \in 1 .. Len(heap)
        BY <1>1, <4>3, KidsOfTree
      <4>8. t[j] \in Nat
        <5>1. PICK e : e = i + Unloaded(heap)[n]
          OBVIOUS
        <5>2. t[j] = heap[n].kids[e] /\ e \in 1 .. Len(heap[n].kids)
          BY <4>2, <4>4, <4>6, <5>1
        <5>3. t[j] \in 1 .. Len(heap)
          BY <4>7, <5>2
        <5> QED BY <5>3
      <4> QED BY <4>2, <4>3, <4>4, <4>6, <4>7, <4>8 DEF KidSet
    <3> QED BY <1>4, <2>2, <3>2, <3>7 DEF Range
  <2> QED BY <2>1, <2>2
<1>15. ASSUME NEW k \in 1 .. m, NEW d \in a[k - 1] .. a[k]
       PROVE  OpenIn(heap, Skipping, s, d) \subseteq OpenIn(heap, Skipping, seqs[k], d - a[k - 1])
  <2> SUFFICES ASSUME NEW x \in OpenIn(heap, Skipping, s, d)
               PROVE  x \in OpenIn(heap, Skipping, seqs[k], d - a[k - 1])
    OBVIOUS
  <2>1. d \in Nat /\ a[k - 1] <= d /\ d <= a[k] /\ a[k] <= Len(s)
    <3>1. k \in 0 .. m /\ m \in 0 .. m /\ k <= m
      BY <1>4
    <3>2. a[k] <= Len(s)
      BY <1>8, <1>12, <3>1
    <3> QED BY <1>11, <3>2
  <2>2. /\ x \in D /\ Gives(heap, x)
        /\ \E p \in 0 + 1 .. d : s[p] = x
        /\ \E q \in d + 1 .. Len(s) : Visits(Skipping, s[q], x)
    BY <1>3 DEF OpenIn, Open
  <2>3. PICK p \in 0 + 1 .. d : s[p] = x
    BY <2>2
  <2>4. PICK q \in d + 1 .. Len(s) : Visits(Skipping, s[q], x)
    BY <2>2
  <2>5. p \in 1 .. Len(s) /\ q \in 1 .. a[m] /\ p <= d /\ d < q
    BY <1>8, <1>10, <2>1, <2>3, <2>4
  <2>6. PICK l \in 1 .. m : q \in a[l - 1] + 1 .. a[l]
    BY <1>4, <1>8, <2>5, Between
  <2>7. PICK t, e : t = seqs[l] /\ e = q - a[l - 1]
    OBVIOUS
  <2>8. e \in 1 .. Len(t) /\ s[q] = t[e]
    BY <1>13, <2>6, <2>7
  <2>9. PICK c \in 1 .. e - 1 : t[c] = x
    <3>1. Ends(D, Skipping, t, root[l]) /\ Visits(Skipping, t[e], x)
      BY <1>5, <2>4, <2>7, <2>8
    <3> QED BY <2>2, <2>8, <3>1 DEF Ends
  <2>10. PICK b, g : b = a[l - 1] /\ g = a[l]
    OBVIOUS
  <2>11. /\ Len(t) \in Nat /\ g = b + Len(t) /\ b \in Nat /\ g \in Nat
         /\ e \in Nat /\ e <= Len(t) /\ c \in Nat /\ 1 <= c /\ c <= e - 1 /\ c \in 1 .. Len(t)
    <3>1. Len(t) \in Nat /\ g = b + Len(t) /\ b \in Nat /\ g \in Nat
      BY <1>11, <2>7, <2>10
    <3> QED BY <2>8, <2>9, <3>1
  <2>12. b + c \in b + 1 .. g /\ (b + c) - b = c
    BY <2>11
  <2>13. s[b + c] = x /\ b + c \in 1 .. Len(s)
    BY <1>13, <2>7, <2>9, <2>10, <2>12
  <2>14. p = b + c
    BY <1>10, <2>3, <2>5, <2>13
  <2>15. b < d /\ d < g /\ q = b + e
    <3>1. q \in b + 1 .. g /\ e = q - b
      BY <2>6, <2>7, <2>10
    <3>2. q = b + e /\ q <= g
      BY <2>11, <3>1
    <3>3. b + c <= d /\ d < q
      BY <2>5, <2>14
    <3> QED BY <2>1, <2>11, <3>2, <3>3
  <2>16. l = k
    <3>1. k \in 0 .. m /\ k - 1 \in 0 .. m /\ l \in 0 .. m /\ l - 1 \in 0 .. m /\ k \in Int /\ l \in Int
      BY <1>11
    <3>2. /\ a[k - 1] \in Nat /\ a[k] \in Nat
          /\ l <= k - 1 => a[l] <= a[k - 1]
          /\ k <= l - 1 => a[k] <= a[l - 1]
      BY <1>11, <1>12, <3>1
    <3>3. ~(l <= k - 1)
      <4>1. l <= k - 1 => g <= a[k - 1]
        BY <2>10, <3>2
      <4> QED BY <2>1, <2>11, <2>15, <3>2, <4>1
    <3>4. ~(k <= l - 1)
      <4>1. k <= l - 1 => a[k] <= b
        BY <2>10, <3>2
      <4> QED BY <2>1, <2>11, <2>15, <3>2, <4>1
    <3> QED BY <3>1, <3>3, <3>4
  <2>17. /\ c \in 0 + 1 .. d - a[k - 1] /\ e \in (d - a[k - 1]) + 1 .. Len(t)
    <3>1. a[k - 1] = b /\ b + c <= d /\ d < b + e
      BY <2>5, <2>10, <2>15, <2>16, <2>14
    <3>2. c <= d - b /\ (d - b) + 1 <= e /\ d - b \in Int
      BY <2>1, <2>11, <3>1
    <3> QED BY <2>11, <3>1, <3>2
  <2>18. Visits(Skipping, t[e], x) /\ t = seqs[k]
    BY <2>4, <2>7, <2>8, <2>16
  <2> QED BY <1>3, <2>2, <2>9, <2>17, <2>18 DEF OpenIn, Open
<1>16. ASSUME NEW k \in 1 .. m, heap[root[k]].type # "ASSIGN", NEW d \in a[k - 1] .. a[k]
       PROVE  \E o \in Nat : AtMost(OpenIn(heap, Skipping, s, d), o) /\ 8 * o <= N[root[k]]
  <2>1. root[k] \in 1 .. Len(heap) /\ Settled(heap, layout, root[k])
    <3>1. root[k] \in Range(root)
      BY <1>4 DEF Range
    <3> QED BY <3>1, StatementSettled
  <2>2. Fitting(N, f, root[k])
    BY <1>2, <1>16, <2>1, AllFit
  <2>3. d - a[k - 1] \in 0 .. Len(f[root[k]])
    BY <1>5, <1>11, SMTT(30)
  <2>4. PICK o : /\ AtMost(OpenIn(heap, Skipping, f[root[k]], d - a[k - 1]), o)
                 /\ Fits(heap, N, root[k], o)
    BY <2>2, <2>3 DEF Fitting
  <2>5. heap[root[k]].type # "CAST_TO_FLOAT"
    BY <1>4, KindFacts DEF StatementTypes
  <2>6. o \in Nat /\ 8 * o <= N[root[k]]
    BY <2>4, <2>5 DEF Fits
  <2>7. AtMost(OpenIn(heap, Skipping, s, d), o)
    BY <1>5, <1>15, <2>4, <2>6, AtMostPart
  <2> QED BY <2>6, <2>7
<1>17. \A k \in 1 .. m : a[k - 1] \in Nat /\ a[k] \in Nat /\ a[k - 1] < a[k]
  <2> SUFFICES ASSUME NEW k \in 1 .. m PROVE a[k - 1] \in Nat /\ a[k] \in Nat /\ a[k - 1] < a[k]
    OBVIOUS
  <2> QED BY <1>11
<1>18. Plan(heap, root, Skipping, N, s, a)
  BY <1>3, <1>4, <1>8, <1>10, <1>14, <1>16, <1>17 DEF Plan
<1> QED BY <1>18

(***************************************************************************)
(* The results that lie in the frame.                                      *)
(***************************************************************************)
(* The slots behind the variables that hold, after the i-th operation, a   *)
(* result that a later operation reads, or one still to be written will.   *)
Live(h, l, u, P, O, i) ==
  {t \in Int : /\ t >= VarBytes(l)
               /\ \E w \in 1 .. i : ~Writes(O[w]) /\ O[w].dest_arg = t
               /\ \/ \E j \in i + 1 .. Len(O) : t \in SlotsRead(O[j])
                  \/ \E x \in DOMAIN P : ~IsLiteral(h, x) /\ Pending(h, u, P, x) /\ P[x] = t}

(* The operations of the k-th statement, as far as they are written.       *)
From(B, k)  == IF k = 1 THEN 1 ELSE B[k - 1] + 1
To(B, O, k) == IF k <= Len(B) THEN B[k] ELSE Len(O)

(* What the count allows for holds them.                                   *)
LiveFits(h, l, r, N, u, P, O, B) ==
  \A k \in 1 .. Len(r) : k <= Len(B) + 1 /\ h[r[k]].type # "ASSIGN" =>
    \A i \in From(B, k) .. To(B, O, k) :
      \E o \in Nat : AtMost(Live(h, l, u, P, O, i), o) /\ 8 * o <= N[r[k]]

(* The code generator has left the first d nodes of the walk s, and with   *)
(* them the statements of which B holds the bounds.                        *)
Walker(h, l, r, s, a, u, P, O, B, d) ==
  /\ d \in 0 .. Len(s) /\ Len(u) = Len(s) - d /\ \A i \in 1 .. Len(u) : u[i] = s[d + i]
  /\ \A x \in DOMAIN P : /\ \E p \in 1 .. d : s[p] = x
                         /\ h[x].type = "NAME" => P[x] < VarBytes(l)
  /\ B \in Seq(Nat) /\ Len(B) \in 0 .. Len(r) /\ \A k \in 1 .. Len(B) : B[k] <= Len(O)
  /\ a[Len(B)] <= d /\ (Len(B) < Len(r) => d < a[Len(B) + 1])

(* What a node loads is visited from it, and gives a value.                *)
LEMMA LoadedKid ==
  ASSUME Tree(heap, root), NEW n \in 1 .. Len(heap), NEW i \in Loads(heap, n)
  PROVE  /\ heap[n].kids[i] \in 1 .. Len(heap) /\ heap[heap[n].kids[i]].type \in Operands
         /\ Visits(Skipping, n, heap[n].kids[i])
<1>1. /\ NodeShape(heap, n) /\ Len(heap[n].kids) \in Nat
      /\ \A e \in 1 .. Len(heap[n].kids) : heap[n].kids[e] \in 1 .. Len(heap)
  BY KidsOfTree
<1>2. i \in 1 .. Len(heap[n].kids) /\ i > Unloaded(heap)[n]
  BY DEF Loads, ReadFrom
<1>3. heap[n].kids[i] \in 1 .. Len(heap)
  BY <1>1, <1>2
<1>4. heap[heap[n].kids[i]].type \in Operands
  <2>1. heap[n].kids # <<>>
    BY <1>2
  <2>2. \/ heap[n].type \in {"WRITE", "CAST_TO_FLOAT"} \/ heap[n].type = "ASSIGN"
        \/ heap[n].type \in Arithmetic
    BY <1>1, <2>1 DEF NodeShape, NodeTypes, KidsFit
  <2>3. CASE heap[n].type \in {"WRITE", "CAST_TO_FLOAT"}
    <3>1. Len(heap[n].kids) = 1 /\ heap[heap[n].kids[1]].type \in Expressions
      BY <1>1, <2>3 DEF NodeShape, KidsFit
    <3>2. i = 1
      BY <1>2, <3>1
    <3> QED BY <3>1, <3>2 DEF Operands
  <2>4. CASE heap[n].type = "ASSIGN"
    <3>1. /\ Len(heap[n].kids) = 2 /\ heap[heap[n].kids[1]].type \in Expressions
          /\ heap[heap[n].kids[2]].type \in Expressions
      BY <1>1, <2>4 DEF NodeShape, KidsFit
    <3>2. i = 1 \/ i = 2
      BY <1>2, <3>1
    <3> QED BY <3>1, <3>2 DEF Operands
  <2>5. CASE heap[n].type \in Arithmetic
    <3>1. /\ Len(heap[n].kids) = 2 /\ heap[heap[n].kids[1]].type \in Operands
          /\ heap[heap[n].kids[2]].type \in Operands
      BY <1>1, <2>5 DEF NodeShape, KidsFit
    <3>2. i = 1 \/ i = 2
      BY <1>2, <3>1
    <3> QED BY <3>1, <3>2
  <2> QED BY <2>2, <2>3, <2>4, <2>5
<1>5. Visits(Skipping, n, heap[n].kids[i])
  <2>1. PICK b, c : b = Unloaded(heap)[n] /\ c = Len(Skipping[n])
    OBVIOUS
  <2>2. /\ Skipping[n] \in Seq(1 .. Len(heap)) /\ b \in Nat /\ c + b = Len(heap[n].kids)
        /\ \A e \in 1 .. c : Skipping[n][e] = heap[n].kids[e + b]
    BY <2>1, SkippingVisits DEF VisitsKids
  <2>3. c \in Nat
    BY <2>1, <2>2
  <2>4. i - b \in 1 .. c /\ (i - b) + b = i
    <3>1. PICK e : e = Len(heap[n].kids)
      OBVIOUS
    <3>2. i \in 1 .. e /\ i > b /\ c + b = e /\ e \in Nat
      BY <1>1, <1>2, <2>1, <2>2, <3>1
    <3> QED BY <2>2, <2>3, <3>2
  <2>5. Skipping[n][i - b] = heap[n].kids[i]
    BY <2>2, <2>4
  <2> QED BY <2>1, <2>4, <2>5 DEF Visits
<1> QED BY <1>3, <1>4, <1>5

(* After the last operation, they are the places of nodes whose results    *)
(* wait.                                                                   *)
LEMMA LiveOpen ==
  ASSUME Tree(heap, root), NEW N, NEW s, NEW a, NEW u, NEW P, NEW O, NEW B, NEW d,
         Plan(heap, root, Skipping, N, s, a), Walker(heap, layout, root, s, a, u, P, O, B, d),
         Len(O) \in Nat, VarBytes(layout) \in Nat, NEW t \in Live(heap, layout, u, P, O, Len(O))
  PROVE  \E x \in OpenIn(heap, Skipping, s, d) : P[x] = t
<1>1. PICK x \in DOMAIN P : ~IsLiteral(heap, x) /\ Pending(heap, u, P, x) /\ P[x] = t
  <2>1. Len(O) + 1 .. Len(O) = {}
    OBVIOUS
  <2> QED BY <2>1 DEF Live
<1>2. PICK q \in 1 .. Len(u) : \E i \in Loads(heap, u[q]) : heap[u[q]].kids[i] = x
  BY <1>1 DEF Pending
<1>3. PICK i \in Loads(heap, u[q]) : heap[u[q]].kids[i] = x
  BY <1>2
<1>4. /\ s \in Seq(1 .. Len(heap)) /\ Len(s) \in Nat /\ d \in 0 .. Len(s)
      /\ Len(u) = Len(s) - d /\ u[q] = s[d + q]
  BY DEF Plan, Walker
<1>5. d + q \in d + 1 .. Len(s) /\ d + q \in 1 .. Len(s)
  BY <1>4
<1>6. u[q] \in 1 .. Len(heap)
  BY <1>4, <1>5, ElementOfSeq
<1>7. x \in 1 .. Len(heap) /\ heap[x].type \in Operands /\ Visits(Skipping, u[q], x)
  BY <1>3, <1>6, LoadedKid
<1>8. t >= VarBytes(layout) /\ t \in Int
  BY DEF Live
<1>9. (heap[x].type = "NAME" => t < VarBytes(layout)) /\ \E p \in 1 .. d : s[p] = x
  BY <1>1 DEF Walker
<1>10. heap[x].type # "NAME"
  <2>1. ~(t < VarBytes(layout))
    BY <1>8
  <2> QED BY <1>9, <2>1
<1>11. Gives(heap, x)
  BY <1>1, <1>7, <1>10, KindFacts DEF Gives, IsLiteral, Tops
<1>12. \E p \in 0 + 1 .. d : s[p] = x
  BY <1>9
<1>13. Visits(Skipping, s[d + q], x)
  BY <1>4, <1>7
<1>14. x \in OpenIn(heap, Skipping, s, d)
  BY <1>5, <1>7, <1>11, <1>12, <1>13 DEF OpenIn, Open
<1> QED BY <1>1, <1>14

(***************************************************************************)
(* A step of the code generator.                                           *)
(***************************************************************************)
(* It has the operation op or none at all, and its node the value v.       *)
Effect(h, l, u, P, v, O, O2, c, d) ==
  \/ O2 = O /\ (IsLiteral(h, Head(u)) \/ (v \in Int /\ v < VarBytes(l)))
  \/ \E op : /\ O2 = Append(O, op) /\ SlotsRead(op) \subseteq SlotPlaces(h, P, Head(u))
            /\ h[Head(u)].type \notin Tops /\ Stores(l, op, v, c, d)

(* After the operations there were, no more results wait than before.      *)
LEMMA LiveShrinks ==
  ASSUME NEW h, NEW l, NEW u, NEW P, NEW Q, NEW v, NEW O, NEW O2, NEW c, NEW d,
         SlotsInv(h, l, u, P, O, c), LeftWith(h, l, u, P, Q, v), Effect(h, l, u, P, v, O, O2, c, d),
         NEW i \in 1 .. Len(O)
  PROVE  Live(h, l, Tail(u), Q, O2, i) \subseteq Live(h, l, u, P, O, i)
<1> SUFFICES ASSUME NEW t \in Live(h, l, Tail(u), Q, O2, i) PROVE t \in Live(h, l, u, P, O, i)
  OBVIOUS
<1>1. IsSeq(O) /\ Len(O) \in Nat /\ VarBytes(l) \in Nat /\ c \in Nat
  <2>1. IsSeq(O) /\ VarBytes(l) \in Nat /\ c \in Nat
    BY DEF SlotsInv
  <2>2. Len(O) \in Nat
    BY <2>1, Appended
  <2> QED BY <2>1, <2>2
<1>2. /\ O2 = O \/ \E op : O2 = Append(O, op)
      /\ \A w \in 1 .. Len(O) : O2[w] = O[w]
  BY <1>1, Appended DEF Effect
<1>3. t \in Int /\ t >= VarBytes(l)
  BY DEF Live
<1>4. PICK w \in 1 .. i : ~Writes(O2[w]) /\ O2[w].dest_arg = t
  BY DEF Live
<1>5. w \in 1 .. Len(O) /\ ~Writes(O[w]) /\ O[w].dest_arg = t
  <2>1. w \in 1 .. Len(O)
    BY <1>1
  <2> QED BY <1>2, <1>4, <2>1
<1>6. t < c
  BY <1>5 DEF SlotsInv
<1>7. /\ DOMAIN Q = DOMAIN P \cup {Head(u)} /\ Q[Head(u)] = v
      /\ \A x \in DOMAIN P : Q[x] = P[x]
      /\ \A e \in Loads(h, Head(u)) : Pending(h, u, P, h[Head(u)].kids[e])
      /\ \A x \in DOMAIN P : Pending(h, Tail(u), Q, x) => Pending(h, u, P, x)
  BY DEF LeftWith
<1>8. CASE \E j \in i + 1 .. Len(O2) : t \in SlotsRead(O2[j])
  <2>1. PICK j \in i + 1 .. Len(O2) : t \in SlotsRead(O2[j])
    BY <1>8
  <2>2. CASE j \in i + 1 .. Len(O)
    <3>1. O2[j] = O[j]
      BY <1>1, <1>2, <2>2
    <3> QED BY <1>3, <1>4, <1>5, <2>1, <2>2, <3>1 DEF Live
  <2>3. CASE j \notin i + 1 .. Len(O)
    <3>1. O2 # O
      BY <2>1, <2>3
    <3>2. PICK op : O2 = Append(O, op) /\ SlotsRead(op) \subseteq SlotPlaces(h, P, Head(u))
      BY <3>1 DEF Effect
    <3>3. Len(O2) = Len(O) + 1 /\ O2[Len(O) + 1] = op
      BY <1>1, <3>2, Appended
    <3>4. j = Len(O) + 1
      BY <1>1, <2>1, <2>3, <3>3
    <3>5. t \in SlotPlaces(h, P, Head(u))
      BY <2>1, <3>2, <3>3, <3>4
    <3>6. PICK e \in Loads(h, Head(u)) : /\ ~IsLiteral(h, h[Head(u)].kids[e])
                                        /\ t = P[h[Head(u)].kids[e]]
      BY <3>5 DEF SlotPlaces
    <3>7. Pending(h, u, P, h[Head(u)].kids[e])
      BY <1>7
    <3>8. h[Head(u)].kids[e] \in DOMAIN P
      BY <3>7 DEF Pending
    <3> QED BY <1>3, <1>4, <1>5, <3>6, <3>7, <3>8 DEF Live
  <2> QED BY <2>2, <2>3
<1>9. CASE \E x \in DOMAIN Q : ~IsLiteral(h, x) /\ Pending(h, Tail(u), Q, x) /\ Q[x] = t
  <2>1. PICK x \in DOMAIN Q : ~IsLiteral(h, x) /\ Pending(h, Tail(u), Q, x) /\ Q[x] = t
    BY <1>9
  <2>2. CASE x \in DOMAIN P
    <3>1. Pending(h, u, P, x) /\ P[x] = t
      BY <1>7, <2>1, <2>2
    <3> QED BY <1>3, <1>4, <1>5, <2>1, <2>2, <3>1 DEF Live
  <2>3. CASE x \notin DOMAIN P
    <3>1. x = Head(u) /\ v = t /\ ~IsLiteral(h, Head(u))
      BY <1>7, <2>1, <2>3
    <3>2. (v \in Int /\ v < VarBytes(l)) \/ v = c
      BY <3>1 DEF Effect, Stores
    <3> QED BY <1>1, <1>3, <1>6, <3>1, <3>2
  <2> QED BY <2>2, <2>3
<1> QED BY <1>8, <1>9 DEF Live

(* The walker is one node further. *)
LEMMA WalkerStep ==
  ASSUME NEW N, NEW s, NEW a, NEW u, NEW P, NEW Q, NEW v, NEW O, NEW O2, NEW c, NEW e, NEW B, NEW B2,
         NEW d, Plan(heap, root, Skipping, N, s, a), Walker(heap, layout, root, s, a, u, P, O, B, d),
         u # <<>>, IsSeq(u), IsSeq(O), LeftWith(heap, layout, u, P, Q, v),
         Effect(heap, layout, u, P, v, O, O2, c, e),
         B2 = IF Head(u) \in Range(root) THEN Append(B, Len(O2)) ELSE B
  PROVE  Walker(heap, layout, root, s, a, Tail(u), Q, O2, B2, d + 1)
<1>1. /\ Len(s) \in Nat /\ Len(root) \in Nat /\ a[0] = 0 /\ a[Len(root)] = Len(s)
      /\ \A k \in 1 .. Len(root) : a[k - 1] \in Nat /\ a[k] \in Nat /\ a[k - 1] < a[k]
      /\ \A k \in 1 .. Len(root) : \A p \in a[k - 1] + 1 .. a[k] : s[p] \in Range(root) <=> p = a[k]
  BY DEF Plan
<1>2. /\ d \in 0 .. Len(s) /\ Len(u) = Len(s) - d /\ \A i \in 1 .. Len(u) : u[i] = s[d + i]
      /\ B \in Seq(Nat) /\ Len(B) \in 0 .. Len(root) /\ \A k \in 1 .. Len(B) : B[k] <= Len(O)
      /\ a[Len(B)] <= d /\ (Len(B) < Len(root) => d < a[Len(B) + 1])
  BY DEF Walker
<1>3. /\ Len(u) \in Nat \ {0} /\ Head(u) = u[1] /\ Len(Tail(u)) = Len(u) - 1
      /\ \A i \in 1 .. Len(u) - 1 : Tail(u)[i] = u[i + 1]
  BY EmptySeq DEF IsSeq
<1>4. d < Len(s) /\ d + 1 \in 0 .. Len(s) /\ d \in Nat /\ 1 \in 1 .. Len(u)
  BY <1>1, <1>2, <1>3
<1>5. Head(u) = s[d + 1]
  BY <1>2, <1>3, <1>4
<1>6. Len(Tail(u)) = Len(s) - (d + 1) /\ \A i \in 1 .. Len(Tail(u)) : Tail(u)[i] = s[(d + 1) + i]
  <2>1. Len(Tail(u)) = Len(s) - (d + 1)
    BY <1>1, <1>2, <1>3, <1>4
  <2>2. ASSUME NEW i \in 1 .. Len(Tail(u)) PROVE Tail(u)[i] = s[(d + 1) + i]
    <3>1. i \in 1 .. Len(u) - 1 /\ i + 1 \in 1 .. Len(u) /\ d + (i + 1) = (d + 1) + i
      BY <1>3, <1>4
    <3> QED BY <1>2, <1>3, <3>1
  <2> QED BY <2>1, <2>2
<1>7. Len(O) \in Nat /\ Len(O2) \in Nat /\ Len(O) <= Len(O2)
  <2>1. Len(O) \in Nat
    BY Appended
  <2>2. Len(O2) = Len(O) \/ Len(O2) = Len(O) + 1
    BY Appended DEF Effect
  <2> QED BY <2>1, <2>2
<1>8. ASSUME NEW x \in DOMAIN Q
      PROVE  /\ \E p \in 1 .. d + 1 : s[p] = x
             /\ heap[x].type = "NAME" => Q[x] < VarBytes(layout)
  <2>1. DOMAIN Q = DOMAIN P \cup {Head(u)} /\ Q[Head(u)] = v /\ \A y \in DOMAIN P : Q[y] = P[y]
    BY DEF LeftWith
  <2>2. CASE x \in DOMAIN P
    <3>1. PICK p \in 1 .. d : s[p] = x
      BY <2>2 DEF Walker
    <3>2. p \in 1 .. d + 1
      BY <1>4
    <3>3. heap[x].type = "NAME" => P[x] < VarBytes(layout)
      BY <2>2 DEF Walker
    <3> QED BY <2>1, <2>2, <3>1, <3>2, <3>3
  <2>3. CASE x = Head(u)
    <3>1. d + 1 \in 1 .. d + 1
      BY <1>4
    <3>2. heap[x].type = "NAME" => v < VarBytes(layout)
      BY <2>3 DEF Effect, IsLiteral, Literals, Tops
    <3> QED BY <1>5, <2>1, <2>3, <3>1, <3>2
  <2> QED BY <2>1, <2>2, <2>3
<1>9. Len(B) < Len(root) /\ Len(B) \in Nat
  <2>1. Len(B) # Len(root)
    BY <1>1, <1>2, <1>4
  <2> QED BY <1>1, <1>2, <2>1
<1>10. PICK k : k = Len(B) + 1
  OBVIOUS
<1>11. /\ k \in 1 .. Len(root) /\ a[k - 1] <= d /\ d < a[k] /\ a[k - 1] \in Nat /\ a[k] \in Nat
       /\ k - 1 = Len(B)
  <2>1. k \in 1 .. Len(root) /\ k - 1 = Len(B)
    BY <1>1, <1>9, <1>10
  <2> QED BY <1>1, <1>2, <1>9, <1>10, <2>1
<1>12. d + 1 \in a[k - 1] + 1 .. a[k]
  BY <1>4, <1>11
<1>13. Head(u) \in Range(root) <=> d + 1 = a[k]
  BY <1>1, <1>5, <1>11, <1>12
<1>14. /\ B2 \in Seq(Nat) /\ Len(B2) \in 0 .. Len(root) /\ \A i \in 1 .. Len(B2) : B2[i] <= Len(O2)
       /\ a[Len(B2)] <= d + 1 /\ (Len(B2) < Len(root) => d + 1 < a[Len(B2) + 1])
  <2>1. CASE Head(u) \in Range(root)
    <3>1. /\ B2 = Append(B, Len(O2)) /\ B2 \in Seq(Nat) /\ Len(B2) = k
          /\ B2[k] = Len(O2) /\ \A i \in 1 .. Len(B) : B2[i] = B[i]
      BY <1>2, <1>7, <1>9, <1>10, <2>1
    <3>2. ASSUME NEW i \in 1 .. Len(B2) PROVE B2[i] <= Len(O2)
      <4>1. CASE i = k
        BY <1>7, <3>1, <4>1
      <4>2. CASE i # k
        <5>1. i \in 1 .. Len(B)
          BY <1>9, <1>10, <3>1, <4>2
        <5>2. B2[i] = B[i] /\ B[i] <= Len(O) /\ B[i] \in Nat
          BY <1>2, <3>1, <5>1
        <5> QED BY <1>7, <5>2
      <4> QED BY <4>1, <4>2
    <3>3. a[k] <= d + 1 /\ d + 1 = a[k]
      BY <1>4, <1>11, <1>13, <2>1
    <3>4. k < Len(root) => d + 1 < a[k + 1]
      <4> SUFFICES ASSUME k < Len(root) PROVE d + 1 < a[k + 1]
        OBVIOUS
      <4>1. k + 1 \in 1 .. Len(root) /\ (k + 1) - 1 = k
        BY <1>1, <1>11
      <4>2. a[k] < a[k + 1]
        BY <1>1, <4>1
      <4> QED BY <3>3, <4>2
    <3>5. Len(B2) \in 0 .. Len(root)
      BY <1>11, <3>1
    <3> QED BY <3>1, <3>2, <3>3, <3>4, <3>5
  <2>2. CASE Head(u) \notin Range(root)
    <3>1. B2 = B /\ d + 1 # a[k]
      BY <1>13, <2>2
    <3>2. d + 1 < a[k] /\ a[Len(B)] <= d + 1
      BY <1>4, <1>11, <3>1
    <3>3. ASSUME NEW i \in 1 .. Len(B) PROVE B[i] <= Len(O2)
      <4>1. B[i] <= Len(O) /\ B[i] \in Nat
        BY <1>2
      <4> QED BY <1>7, <4>1
    <3> QED BY <1>2, <1>10, <3>1, <3>2, <3>3
  <2> QED BY <2>1, <2>2
<1> QED BY <1>4, <1>6, <1>8, <1>14 DEF Walker

(* And the results that wait still fit: where an operation is added, they  *)
(* are those of the walk.                                                  *)
LEMMA LiveFitsStep ==
  ASSUME Tree(heap, root), NEW N, NEW s, NEW a, NEW u, NEW P, NEW Q, NEW v, NEW O, NEW O2, NEW c,
         NEW e, NEW B, NEW B2, NEW d, Plan(heap, root, Skipping, N, s, a),
         Walker(heap, layout, root, s, a, u, P, O, B, d),
         Walker(heap, layout, root, s, a, Tail(u), Q, O2, B2, d + 1),
         LiveFits(heap, layout, root, N, u, P, O, B), SlotsInv(heap, layout, u, P, O, c),
         LeftWith(heap, layout, u, P, Q, v), Effect(heap, layout, u, P, v, O, O2, c, e),
         B2 = IF Head(u) \in Range(root) THEN Append(B, Len(O2)) ELSE B
  PROVE  LiveFits(heap, layout, root, N, Tail(u), Q, O2, B2)
<1>1. Len(O) \in Nat /\ Len(O2) \in {Len(O), Len(O) + 1} /\ Len(O2) \in Nat /\ VarBytes(layout) \in Nat
  <2>1. IsSeq(O) /\ VarBytes(layout) \in Nat
    BY DEF SlotsInv
  <2>2. Len(O) \in Nat /\ (Len(O2) = Len(O) \/ Len(O2) = Len(O) + 1)
    BY <2>1, Appended DEF Effect
  <2> QED BY <2>1, <2>2
<1>2. PICK b : b = Len(B)
  OBVIOUS
<1>3. /\ b \in Nat /\ Len(root) \in Nat /\ d \in Nat /\ d + 1 <= Len(s) /\ Len(s) \in Nat
      /\ B \in Seq(Nat) /\ \A k \in 1 .. b : B[k] <= Len(O) /\ B[k] \in Nat
  <2>1. /\ B \in Seq(Nat) /\ Len(B) \in 0 .. Len(root) /\ \A k \in 1 .. Len(B) : B[k] <= Len(O)
        /\ d \in 0 .. Len(s) /\ d + 1 \in 0 .. Len(s)
    BY DEF Walker
  <2>2. Len(root) \in Nat /\ Len(s) \in Nat
    BY DEF Plan
  <2>3. \A k \in 1 .. Len(B) : B[k] \in Nat
    BY <2>1, ElementOfSeq
  <2> QED BY <1>2, <2>1, <2>2, <2>3
<1>4. b < Len(root) /\ b + 1 \in 1 .. Len(root) /\ (b + 1) - 1 = b /\ d + 1 \in a[b] .. a[b + 1]
  <2>1. a[Len(root)] = Len(s) /\ a[b] <= d /\ (b < Len(root) => d < a[b + 1]) /\ b \in 0 .. Len(root)
    BY <1>2 DEF Plan, Walker
  <2>2. b # Len(root)
    BY <1>3, <2>1
  <2>3. b < Len(root) /\ b + 1 \in 1 .. Len(root) /\ (b + 1) - 1 = b
    BY <1>3, <2>1, <2>2
  <2>4. a[(b + 1) - 1] \in Nat /\ a[b + 1] \in Nat
    BY <2>3 DEF Plan
  <2>5. a[b] \in Nat
    BY <2>3, <2>4
  <2> QED BY <1>3, <2>1, <2>3, <2>4, <2>5
<1>5. /\ \A k \in 1 .. b : B2[k] = B[k]
      /\ \/ Len(B2) = b
         \/ Len(B2) = b + 1 /\ B2[b + 1] = Len(O2)
  BY <1>2, <1>3
<1>6. \A k \in 1 .. Len(B2) : B2[k] <= Len(O2)
  BY DEF Walker
<1> SUFFICES ASSUME NEW k \in 1 .. Len(root), k <= Len(B2) + 1, heap[root[k]].type # "ASSIGN",
                    NEW i \in From(B2, k) .. To(B2, O2, k)
             PROVE  \E o \in Nat : /\ AtMost(Live(heap, layout, Tail(u), Q, O2, i), o)
                                   /\ 8 * o <= N[root[k]]
  BY DEF LiveFits
<1>7. k \in Nat \ {0} /\ i \in Int
  OBVIOUS
<1>8. k = 1 \/ k - 1 \in 1 .. b \/ k - 1 = b + 1
  BY <1>3, <1>5, <1>7
<1>9. k <= b + 1 /\ From(B2, k) = From(B, k) /\ From(B, k) \in Nat \ {0}
  <2>1. CASE k = 1
    BY <1>3, <2>1 DEF From
  <2>2. CASE k # 1 /\ k - 1 \in 1 .. b
    <3>1. B2[k - 1] = B[k - 1] /\ B[k - 1] \in Nat /\ k <= b + 1
      BY <1>3, <1>5, <1>7, <2>2, SMTT(30)
    <3> QED BY <2>2, <3>1 DEF From
  <2>3. CASE k # 1 /\ k - 1 = b + 1
    <3>1. Len(B2) = b + 1 /\ B2[b + 1] = Len(O2) /\ ~(k <= Len(B2))
      BY <1>3, <1>5, <1>7, <2>3
    <3>2. From(B2, k) = Len(O2) + 1 /\ To(B2, O2, k) = Len(O2)
      BY <2>3, <3>1 DEF From, To
    <3> QED BY <1>1, <3>2
  <2> QED BY <1>8, <2>1, <2>2, <2>3
<1>10. i >= From(B, k) /\ i <= To(B2, O2, k) /\ i > 0
  BY <1>9
<1>11. CASE i <= Len(O)
  <2>1. i \in 1 .. Len(O)
    BY <1>1, <1>7, <1>10, <1>11
  <2>2. i <= To(B, O, k) /\ To(B, O, k) \in Int
    <3>1. CASE k <= b
      <4>1. k \in 1 .. b /\ k <= Len(B2)
        BY <1>3, <1>5, <1>7, <3>1
      <4> QED BY <1>2, <1>3, <1>5, <1>10, <4>1, <3>1 DEF To
    <3>2. CASE ~(k <= b)
      BY <1>1, <1>2, <1>11, <3>2 DEF To
    <3> QED BY <3>1, <3>2
  <2>3. i \in From(B, k) .. To(B, O, k)
    BY <1>7, <1>9, <1>10, <2>2
  <2>4. PICK o \in Nat : AtMost(Live(heap, layout, u, P, O, i), o) /\ 8 * o <= N[root[k]]
    BY <1>2, <1>9, <2>3 DEF LiveFits
  <2>5. Live(heap, layout, Tail(u), Q, O2, i) \subseteq Live(heap, layout, u, P, O, i)
    BY <2>1, LiveShrinks
  <2>6. AtMost(Live(heap, layout, Tail(u), Q, O2, i), o)
    BY <2>4, <2>5, AtMostPart
  <2> QED BY <2>4, <2>6
<1>12. CASE i > Len(O)
  <2>1. To(B2, O2, k) <= Len(O2)
    BY <1>1, <1>6, <1>7 DEF To
  <2>2. ~(k <= b)
    <3> SUFFICES ASSUME k <= b PROVE FALSE
      OBVIOUS
    <3>1. k \in 1 .. b /\ k <= Len(B2)
      BY <1>3, <1>5, <1>7
    <3>2. To(B2, O2, k) = B[k] /\ B[k] <= Len(O) /\ B[k] \in Nat
      BY <1>3, <1>5, <3>1 DEF To
    <3> QED BY <1>1, <1>7, <1>10, <1>12, <3>2
  <2>3. k = b + 1
    BY <1>3, <1>7, <1>9, <2>2
  <2>4. i = Len(O2)
    <3>1. To(B2, O2, k) \in Int
      <4>1. CASE k <= Len(B2)
        <5>1. Len(B2) = b + 1
          BY <1>3, <1>5, <2>3, <4>1
        <5> QED BY <1>1, <1>5, <2>3, <4>1, <5>1 DEF To
      <4>2. CASE ~(k <= Len(B2))
        BY <1>1, <4>2 DEF To
      <4> QED BY <4>1, <4>2
    <3> QED BY <1>1, <1>7, <1>10, <1>12, <2>1, <3>1
  <2>5. PICK o \in Nat : AtMost(OpenIn(heap, Skipping, s, d + 1), o) /\ 8 * o <= N[root[k]]
    <3>1. d + 1 \in a[k - 1] .. a[k]
      BY <1>4, <2>3
    <3> QED BY <3>1 DEF Plan
  <2>6. \A t \in Live(heap, layout, Tail(u), Q, O2, i) :
          \E x \in OpenIn(heap, Skipping, s, d + 1) : Q[x] = t
    <3> SUFFICES ASSUME NEW t \in Live(heap, layout, Tail(u), Q, O2, Len(O2))
                 PROVE  \E x \in OpenIn(heap, Skipping, s, d + 1) : Q[x] = t
      BY <2>4
    <3> QED BY <1>1, LiveOpen
  <2>7. PICK f : f = [x \in OpenIn(heap, Skipping, s, d + 1) |-> Q[x]]
    OBVIOUS
  <2>8. AtMost(Live(heap, layout, Tail(u), Q, O2, i), o)
    <3>1. DOMAIN f = OpenIn(heap, Skipping, s, d + 1)
      BY <2>7
    <3>2. \A t \in Live(heap, layout, Tail(u), Q, O2, i) :
            \E x \in OpenIn(heap, Skipping, s, d + 1) : f[x] = t
      BY <2>6, <2>7
    <3> QED BY <2>5, <3>1, <3>2, AtMostImage
  <2> QED BY <2>5, <2>8
<1> QED BY <1>1, <1>7, <1>11, <1>12

(* Every step of the code generator is of that kind. *)
LEMMA CodegenEffect ==
  ASSUME CodeEffect
  PROVE  \E v : /\ LeftWith(heap, layout, unloaded, place, place', v) /\ unloaded' = Tail(unloaded)
                /\ Effect(heap, layout, unloaded, place, v, ops, ops', current_stack_offset,
                          current_stack_offset')
<1>1. PICK v : /\ LeftWith(heap, layout, unloaded, place, place', v) /\ unloaded' = Tail(unloaded)
               /\ \/ Quietly(v)
                  \/ heap[Head(unloaded)].type \notin Tops /\ Operating(v)
  BY DEF CodeEffect
<1>2. Effect(heap, layout, unloaded, place, v, ops, ops', current_stack_offset, current_stack_offset')
  BY <1>1 DEF Quietly, Operating, Effect
<1> QED BY <1>1, <1>2

(***************************************************************************)
(* The compiler.                                                           *)
(***************************************************************************)
Placing(s, a, d) ==
  /\ Plan(heap, root, Skipping, place_needed, s, a)
  /\ Walker(heap, layout, root, s, a, unloaded, place, ops, bounds, d)
  /\ LiveFits(heap, layout, root, place_needed, unloaded, place, ops, bounds)

(* The invariant: from the count on the tree and the numbers fit together, *)
(* and the code generator is at some point of its walk, where the results  *)
(* that wait fit what was counted.                                         *)
PlaceInv ==
  /\ phase \notin {"codegen", "run", "done"} => bounds = <<>>
  /\ phase \in {"count", "codegen", "run", "done"} => Counts(heap, place_needed)
  /\ phase \in {"codegen", "run", "done"} => \E s, a, d : Placing(s, a, d)
  /\ phase \in {"run", "done"} => unloaded = <<>>

(* The code generator starts in front of its walk.                         *)
LEMMA PlacingStarts ==
  ASSUME AllTyped, Precedence(heap), Counts(heap, place_needed), bounds = <<>>, CodegenStart,
         UNCHANGED <<heap, root, layout, place_needed, bounds>>
  PROVE  \E s, a, d : Placing(s, a, d)'
<1>1. Skipping' = Skipping
  BY DEF Skipping, Visited
<1>2. PICK s : s = LeaveOrder(Skipping)
  OBVIOUS
<1>3. unloaded' = s /\ place' = <<>> /\ ops' = <<>>
  BY <1>2 DEF CodegenStart, Skipping
<1>4. PICK a : Plan(heap, root, Skipping, place_needed, s, a)
  BY <1>2, PlanExists
<1>5. Len(s) \in Nat /\ Len(root) \in Nat /\ a[0] = 0
      /\ \A k \in 1 .. Len(root) : a[k - 1] \in Nat /\ a[k] \in Nat /\ a[k - 1] < a[k]
  BY <1>4 DEF Plan
<1>6. Walker(heap, layout, root, s, a, s, <<>>, <<>>, <<>>, 0)
  <2>1. 0 \in 0 .. Len(s) /\ Len(s) = Len(s) - 0 /\ \A i \in 1 .. Len(s) : s[i] = s[0 + i]
    BY <1>5
  <2>2. \A x \in DOMAIN <<>> : FALSE
    OBVIOUS
  <2>3. /\ <<>> \in Seq(Nat) /\ Len(<<>>) = 0 /\ 0 \in 0 .. Len(root)
        /\ \A k \in 1 .. Len(<<>>) : FALSE
    BY <1>5
  <2>4. 0 < Len(root) => 0 < a[0 + 1]
    <3> SUFFICES ASSUME 0 < Len(root) PROVE 0 < a[1]
      OBVIOUS
    <3>1. 1 \in 1 .. Len(root) /\ 1 - 1 = 0
      BY <1>5
    <3> QED BY <1>5, <3>1
  <2> QED BY <1>5, <2>1, <2>2, <2>3, <2>4 DEF Walker
<1>7. LiveFits(heap, layout, root, place_needed, s, <<>>, <<>>, <<>>)
  <2> SUFFICES ASSUME NEW k \in 1 .. Len(root), k <= Len(<<>>) + 1,
                      NEW i \in From(<<>>, k) .. To(<<>>, <<>>, k)
               PROVE  FALSE
    BY DEF LiveFits
  <2>1. k = 1 /\ From(<<>>, k) = 1 /\ To(<<>>, <<>>, k) = 0
    BY <1>5 DEF From, To
  <2> QED BY <2>1
<1>8. Placing(s, a, 0)'
  BY <1>1, <1>3, <1>4, <1>6, <1>7 DEF Placing
<1> QED BY <1>8

(* It stays in its walk. *)
LEMMA PlacingStep ==
  ASSUME AllTyped, CodeNow, CodegenStep, NEW s, NEW a, NEW d, Placing(s, a, d),
         bounds' = IF Head(unloaded) \in Range(root) THEN Append(bounds, Len(ops')) ELSE bounds,
         UNCHANGED place_needed
  PROVE  \E e : Placing(s, a, e)'
<1>1. UNCHANGED <<heap, root, layout>> /\ Skipping' = Skipping
  BY DEF CodegenStep, Skipping, Visited
<1>2. PICK v : /\ LeftWith(heap, layout, unloaded, place, place', v) /\ unloaded' = Tail(unloaded)
               /\ Effect(heap, layout, unloaded, place, v, ops, ops', current_stack_offset,
                         current_stack_offset')
  <2>1. CodeEffect
    BY CodegenKeeps
  <2> QED BY <2>1, CodegenEffect
<1>3. /\ SlotsInv(heap, layout, unloaded, place, ops, current_stack_offset)
      /\ IsSeq(unloaded) /\ IsSeq(ops)
  <2>1. /\ SlotsInv(heap, layout, unloaded, place, ops, current_stack_offset)
        /\ unloaded \in Seq(1 .. Len(heap))
    BY DEF CodeNow, CodeState, Walking
  <2> QED BY <2>1 DEF SlotsInv, IsSeq
<1>4. unloaded # <<>>
  BY DEF CodegenStep, LoadArithmetic, LoadLiteral, LoadName, LoadCast, LoadWrite, LoadAssign,
         Loading
<1>5. /\ Plan(heap, root, Skipping, place_needed, s, a)
      /\ Walker(heap, layout, root, s, a, unloaded, place, ops, bounds, d)
      /\ LiveFits(heap, layout, root, place_needed, unloaded, place, ops, bounds)
  BY DEF Placing
<1>6. Walker(heap, layout, root, s, a, Tail(unloaded), place', ops', bounds', d + 1)
  BY <1>2, <1>3, <1>4, <1>5, WalkerStep
<1>7. Tree(heap, root)
  BY DEF AllTyped
<1>8. LiveFits(heap, layout, root, place_needed, Tail(unloaded), place', ops', bounds')
  BY <1>2, <1>3, <1>5, <1>6, <1>7, LiveFitsStep
<1>9. Placing(s, a, d + 1)'
  BY <1>1, <1>2, <1>5, <1>6, <1>8 DEF Placing
<1> QED BY <1>9

(* Every step of the compiler keeps it. *)
LEMMA PlaceStep ==
  ASSUME PassInv, PrecInv, CodeInv, PlaceInv, CompilerStep
  PROVE  PlaceInv'
<1>1. ASSUME phase' \in {"lex", "parse", "optimize", "types"}, bounds' = bounds,
             phase \notin {"codegen", "run", "done"}
      PROVE  PlaceInv'
  BY <1>1 DEF PlaceInv
<1>2. ASSUME phase \in {"codegen", "run", "done"}, phase' \in {"codegen", "run", "done"},
             UNCHANGED <<heap, root, passVars, bounds>>,
             phase' # "codegen" => unloaded = <<>>
      PROVE  PlaceInv'
  <2>1. Skipping' = Skipping
    BY <1>2 DEF Skipping, Visited
  <2>2. PICK s, a, d : Placing(s, a, d)
    BY <1>2 DEF PlaceInv
  <2>3. UNCHANGED <<heap, root, layout, place_needed, unloaded, place, ops, bounds>>
    BY <1>2 DEF passVars, codeVars
  <2>4. Placing(s, a, d)'
    BY <2>1, <2>2, <2>3 DEF Placing
  <2> QED BY <1>2, <2>3, <2>4 DEF PlaceInv
<1>3. CASE ReadText \/ HandOver \/ Parse
  BY <1>1, <1>3 DEF ReadText, HandOver, Parse, Then, In, historyVars
<1>4. CASE StartOptimizer \/ Optimize
  BY <1>1, <1>4 DEF StartOptimizer, Optimize, Then, In, historyVars
<1>5. CASE StartTypes \/ InferTypes
  BY <1>1, <1>5 DEF StartTypes, InferTypes, Then, In, historyVars
<1>6. CASE CountPlaces
  <2>1. /\ phase = "types" /\ phase' = "count" /\ fault = "none" /\ place_needed' = Needed
        /\ heap' = heap /\ bounds' = bounds
    BY <1>6 DEF CountPlaces, CountRegisters, Then, In, astVars, historyVars
  <2>2. Counts(heap, Needed)
    BY <2>1, NeededCounts DEF PassInv
  <2> QED BY <2>1, <2>2 DEF PlaceInv
<1>7. CASE StartCodegen
  <2>1. /\ phase = "count" /\ phase' = "codegen" /\ fault = "none" /\ CodegenStart
        /\ UNCHANGED <<heap, root, layout, place_needed, bounds>>
    BY <1>7 DEF StartCodegen, Then, In, astVars, historyVars
  <2>2. AllTyped
    BY <2>1 DEF PassInv, CodeInv, AllTyped
  <2>3. Precedence(heap) /\ Counts(heap, place_needed) /\ bounds = <<>>
    BY <2>1 DEF PrecInv, PlaceInv
  <2>4. \E s, a, d : Placing(s, a, d)'
    BY <2>1, <2>2, <2>3, PlacingStarts
  <2> QED BY <2>1, <2>3, <2>4 DEF PlaceInv
<1>8. CASE GenerateCode
  <2>1. /\ phase = "codegen" /\ phase' = "codegen" /\ fault = "none" /\ CodegenStep
        /\ heap' = heap /\ place_needed' = place_needed
        /\ bounds' = IF Head(unloaded) \in Range(root) THEN Append(bounds, Len(ops')) ELSE bounds
    BY <1>8 DEF GenerateCode, In, CodegenStep
  <2>2. AllTyped /\ CodeNow
    BY <2>1 DEF PassInv, CodeInv, AllTyped, CodeNow
  <2>3. PICK s, a, d : Placing(s, a, d)
    BY <2>1 DEF PlaceInv
  <2>4. \E e : Placing(s, a, e)'
    BY <2>1, <2>2, <2>3, PlacingStep
  <2>5. Counts(heap, place_needed)
    BY <2>1 DEF PlaceInv
  <2> QED BY <2>1, <2>4, <2>5 DEF PlaceInv
<1>9. CASE PrintCode
  BY <1>2, <1>9 DEF PrintCode, In, historyVars
<1>10. CASE Run
  BY <1>2, <1>10 DEF Run, In, historyVars, PlaceInv
<1>11. CASE Stop
  BY <1>2, <1>11 DEF Stop, Then, In, historyVars, astVars, PlaceInv
<1> QED BY <1>3, <1>4, <1>5, <1>6, <1>7, <1>8, <1>9, <1>10, <1>11 DEF CompilerStep

(* A step of nothing keeps it, too. *)
LEMMA PlaceStutters ==
  ASSUME PlaceInv, UNCHANGED compilerVars
  PROVE  PlaceInv'
<1>1. /\ UNCHANGED <<heap, root, layout, place_needed, unloaded, place, ops, bounds, phase>>
      /\ Skipping' = Skipping
  BY DEF compilerVars, astVars, passVars, codeVars, historyVars, Skipping, Visited
<1>2. ASSUME NEW s, NEW a, NEW d, Placing(s, a, d) PROVE Placing(s, a, d)'
  BY <1>1, <1>2 DEF Placing
<1>3. (\E s, a, d : Placing(s, a, d)) => \E s, a, d : Placing(s, a, d)'
  BY <1>2
<1> QED BY <1>1, <1>3 DEF PlaceInv

(* Wherever the code generator is, the results that wait fit the count.    *)
THEOREM CompilerPlacing == CompilerSpec => []PlaceInv
<1>1. CompilerInit => PlaceInv
  BY DEF CompilerInit, PlaceInv
<1>2. PassInv /\ PrecInv /\ CodeInv /\ PlaceInv /\ [CompilerNext]_compilerVars => PlaceInv'
  BY PlaceStep, PlaceStutters DEF CompilerNext, CompilerDone
<1> QED BY <1>1, <1>2, CompilerPasses, CompilerPrecedence, CompilerCode, PTL DEF CompilerSpec

(* At the end of the walk all statements are complete, and what PlaceInv   *)
(* says of their operations is what PlaceEnough says.                      *)
LEMMA PlaceInvIsEnough == PassInv /\ CodeInv /\ PlaceInv => PlaceEnough
<1> DEFINE live(i) == {t \in UNION {SlotsRead(ops[j]) : j \in i + 1 .. Len(ops)} :
                         /\ t >= LayoutSize
                         /\ \E w \in 1 .. i : ~Writes(ops[w]) /\ ops[w].dest_arg = t}
<1> SUFFICES ASSUME PassInv, CodeInv, PlaceInv, phase = "run", NEW k \in DOMAIN root,
                    heap[root[k]].type # "ASSIGN", NEW i \in OpsOfStatement(k)
             PROVE  FieldSize * Cardinality(live(i)) <= place_needed[root[k]]
  BY DEF PlaceEnough
<1>1. PICK s, a, d : Placing(s, a, d)
  BY DEF PlaceInv
<1>2. /\ Plan(heap, root, Skipping, place_needed, s, a)
      /\ Walker(heap, layout, root, s, a, unloaded, place, ops, bounds, d)
      /\ LiveFits(heap, layout, root, place_needed, unloaded, place, ops, bounds)
      /\ unloaded = <<>>
  BY <1>1 DEF Placing, PlaceInv
<1>3. PICK m, b : m = Len(root) /\ b = Len(bounds)
  OBVIOUS
<1>4. /\ root \in Seq(1 .. Len(heap)) /\ DOMAIN root = 1 .. m /\ m \in Nat
      /\ root[k] \in 1 .. Len(heap) /\ k \in 1 .. m
  <2>1. root \in Seq(1 .. Len(heap)) /\ DOMAIN root = 1 .. m /\ m \in Nat
    BY <1>3 DEF PassInv, Tree
  <2>2. root[k] \in 1 .. Len(heap)
    BY <1>3, <2>1, ElementOfSeq
  <2> QED BY <2>1, <2>2
<1>5. /\ SlotsInv(heap, layout, unloaded, place, ops, current_stack_offset)
      /\ IsSeq(ops) /\ Len(ops) \in Nat
  <2>1. SlotsInv(heap, layout, unloaded, place, ops, current_stack_offset) /\ IsSeq(ops)
    BY DEF CodeInv, CodeState, SlotsInv
  <2> QED BY <2>1, Appended
<1>6. b = m
  <2>1. /\ Len(s) \in Nat /\ a[0] = 0 /\ a[m] = Len(s)
        /\ \A j \in 1 .. m : a[j - 1] \in Nat /\ a[j] \in Nat /\ a[j - 1] < a[j]
    BY <1>2, <1>3 DEF Plan
  <2>2. d \in 0 .. Len(s) /\ 0 = Len(s) - d /\ b \in 0 .. m /\ (b < m => d < a[b + 1])
    BY <1>2, <1>3 DEF Walker
  <2> SUFFICES ASSUME b # m PROVE FALSE
    OBVIOUS
  <2>3. b + 1 \in 0 .. m /\ m \in 0 .. m /\ b + 1 <= m /\ d < a[b + 1]
    BY <1>4, <2>2
  <2>4. \A j \in 0 .. m : a[j] \in Nat
    <3>1. \A j \in 0 .. m : j = 0 \/ j \in 1 .. m
      BY <1>4
    <3> QED BY <2>1, <3>1
  <2>5. \A j \in 1 .. m : a[j - 1] <= a[j]
    BY <2>1
  <2>6. \A x, y \in 0 .. m : x <= y => a[x] <= a[y]
    BY <1>4, <2>4, <2>5, NonDecreasing
  <2>7. a[b + 1] <= a[m] /\ a[b + 1] \in Nat
    BY <2>3, <2>4, <2>6
  <2> QED BY <2>1, <2>2, <2>3, <2>7
<1>7. /\ \A j \in 1 .. m : bounds[j] \in Nat
      /\ i \in From(bounds, k) .. To(bounds, ops, k) /\ From(bounds, k) \in Nat \ {0}
  <2>1. \A j \in 1 .. m : bounds[j] \in Nat
    <3>1. bounds \in Seq(Nat)
      BY <1>2 DEF Walker
    <3> QED BY <1>3, <1>6, <3>1, ElementOfSeq
  <2>2. To(bounds, ops, k) = bounds[k]
    BY <1>3, <1>4, <1>6 DEF To
  <2>3. From(bounds, k) \in Nat \ {0}
    <3>1. CASE k = 1
      BY <3>1 DEF From
    <3>2. CASE k # 1
      <4>1. k - 1 \in 1 .. m
        BY <1>4, <3>2
      <4>2. bounds[k - 1] \in Nat
        BY <2>1, <4>1
      <4> QED BY <3>2, <4>2 DEF From
    <3> QED BY <3>1, <3>2
  <2> QED BY <2>1, <2>2, <2>3 DEF OpsOfStatement, From
<1>8. i \in Nat \ {0}
  BY <1>7
<1>9. PICK o \in Nat : /\ AtMost(Live(heap, layout, unloaded, place, ops, i), o)
                       /\ 8 * o <= place_needed[root[k]]
  <2>1. k <= b + 1 /\ k \in 1 .. Len(root)
    BY <1>3, <1>4, <1>6
  <2> QED BY <1>2, <1>3, <1>7, <2>1 DEF LiveFits
<1>10. live(i) \subseteq Live(heap, layout, unloaded, place, ops, i)
  <2> SUFFICES ASSUME NEW t \in live(i) PROVE t \in Live(heap, layout, unloaded, place, ops, i)
    OBVIOUS
  <2>1. PICK j \in i + 1 .. Len(ops) : t \in SlotsRead(ops[j])
    OBVIOUS
  <2>2. j \in 1 .. Len(ops)
    BY <1>5, <1>8
  <2>3. t \in Int
    BY <1>5, <2>1, <2>2 DEF SlotsInv
  <2>4. t >= VarBytes(layout)
    BY DEF LayoutSize, VarBytes
  <2> QED BY <2>1, <2>3, <2>4 DEF Live
<1>11. AtMost(live(i), o)
  <2> HIDE DEF live
  <2> QED BY <1>9, <1>10, AtMostPart
<1>12. place_needed[root[k]] \in Nat
  BY <1>4 DEF PlaceInv, Counts
<1> HIDE DEF live
<1> QED BY <1>9, <1>11, <1>12 DEF AtMost, FieldSize

(* The bytes that are counted for a write or a bare statement, before      *)
(* there is any code, hold the results of its operations that wait to be   *)
(* read, whatever the program.                                             *)
THEOREM CompilerPlaces == CompilerSpec => []PlaceEnough
<1> QED BY CompilerPasses, CompilerCode, CompilerPlacing, PlaceInvIsEnough, PTL
=============================================================================
