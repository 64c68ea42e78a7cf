---------------------------- MODULE DulWalkProofs ----------------------------
(***************************************************************************)
(* The order in which the recursive passes leave the nodes of the tree     *)
(* (LeaveOrder of DulAst): every node once, its children before it.  What  *)
(* a recursive definition computes is reached here through the least       *)
(* argument at which a claim about it fails.                               *)
(***************************************************************************)
EXTENDS DulAst, TLAPS, SequenceTheorems, WellFoundedInduction

(* A set of numbers that is not empty has a least element.                 *)
LEMMA LeastNumber ==
  ASSUME NEW T \in SUBSET Nat, T # {}
  PROVE  \E x \in T : \A y \in T : x <= y
<1> DEFINE R == {ss \in Nat \X Nat : ss[1] < ss[2]}
<1>1. IsWellFoundedOn(R, Nat)
  BY NatLessThanWellFounded DEF OpToRel
<1>2. \A x, y \in Nat : y < x => <<y, x>> \in R
  OBVIOUS
<1> HIDE DEF R
<1>3. PICK x \in T : \A y \in T : ~(<<y, x>> \in R)
  BY <1>1, WFMin
<1>4. \A y \in T : ~(y < x)
  BY <1>2, <1>3
<1> QED BY <1>3, <1>4

(* A set of numbers that is not empty and has a bound has a greatest one.  *)
LEMMA GreatestNumber ==
  ASSUME NEW m \in Nat, NEW T \in SUBSET (0 .. m), T # {}
  PROVE  \E x \in T : \A y \in T : y <= x
<1> DEFINE U == {m - x : x \in T}
<1>1. U \in SUBSET Nat /\ U # {}
  <2>1. \A x \in T : m - x \in Nat
    OBVIOUS
  <2> QED BY <2>1
<1>2. PICK u \in U : \A v \in U : u <= v
  BY <1>1, LeastNumber
<1>3. PICK x \in T : u = m - x
  OBVIOUS
<1>4. ASSUME NEW y \in T PROVE y <= x
  <2>1. m - y \in U
    OBVIOUS
  <2>2. m - x <= m - y
    BY <1>2, <1>3, <2>1
  <2>3. x \in 0 .. m /\ y \in 0 .. m
    OBVIOUS
  <2> HIDE DEF U
  <2> QED BY <2>2, <2>3
<1> QED BY <1>4

(***************************************************************************)
(* Flattening a sequence of sequences.                                     *)
(***************************************************************************)

(* The prefixes that FlattenSeq joins, up to the k-th.                     *)
Partials(seqs, k, f) ==
  f = [i \in 1 .. k |-> IF i = 1 THEN seqs[i] ELSE f[i - 1] \o seqs[i]]

(* They exist: a least number of sequences without them has a predecessor. *)
LEMMA PartialsExist ==
  ASSUME NEW seqs, Len(seqs) \in Nat
  PROVE  \E f : Partials(seqs, Len(seqs), f)
<1> DEFINE T == {k \in Nat : ~ \E f : Partials(seqs, k, f)}
<1> SUFFICES ASSUME T # {} PROVE FALSE
  OBVIOUS
<1>1. PICK k \in T : \A j \in T : k <= j
  BY LeastNumber
<1>2. CASE k = 0
  <2>1. Partials(seqs, 0, [i \in 1 .. 0 |-> {}])
    BY DEF Partials
  <2> QED BY <1>1, <1>2, <2>1
<1>3. CASE k # 0
  <2>1. k - 1 \in Nat /\ k - 1 \notin T
    BY <1>1, <1>3
  <2>2. PICK f : Partials(seqs, k - 1, f)
    BY <2>1
  <2> DEFINE g == [i \in 1 .. k |-> IF i = 1 THEN seqs[i] ELSE f[i - 1] \o seqs[i]]
  <2>3. \A i \in 1 .. k - 1 : g[i] = f[i]
    <3>1. \A i \in 1 .. k - 1 : f[i] = IF i = 1 THEN seqs[i] ELSE f[i - 1] \o seqs[i]
      BY <2>2, Zenon DEF Partials
    <3> QED BY <1>1, <3>1
  <2>4. \A i \in 1 .. k : i # 1 => g[i - 1] = f[i - 1]
    <3>1. k \in Nat
      BY <1>1
    <3>2. \A i \in 1 .. k : i # 1 => i - 1 \in 1 .. k - 1
      BY <3>1
    <3> HIDE DEF g
    <3> QED BY <2>3, <3>2
  <2> HIDE DEF T
  <2>5. g = [i \in 1 .. k |-> IF i = 1 THEN seqs[i] ELSE g[i - 1] \o seqs[i]]
    BY <2>4
  <2>6. Partials(seqs, k, g)
    BY <2>5, Zenon DEF Partials
  <2> QED BY <1>1, <2>6 DEF T
<1> QED BY <1>2, <1>3

(* FlattenSeq is the last of them.                                         *)
LEMMA FlattenIsPartial ==
  ASSUME NEW S, NEW seqs \in Seq(Seq(S)), seqs # <<>>
  PROVE  \E f : /\ \A i \in 1 .. Len(seqs) : f[i] \in Seq(S)
                /\ f[1] = seqs[1]
                /\ \A i \in 2 .. Len(seqs) : f[i] = f[i - 1] \o seqs[i]
                /\ FlattenSeq(seqs) = f[Len(seqs)]
<1>1. Len(seqs) \in Nat \ {0}
  BY EmptySeq
<1> DEFINE f == CHOOSE f : Partials(seqs, Len(seqs), f)
<1>2. Partials(seqs, Len(seqs), f)
  <2>1. \E g : Partials(seqs, Len(seqs), g)
    BY <1>1, PartialsExist
  <2> QED BY <2>1, Zenon
<1>3. FlattenSeq(seqs) = f[Len(seqs)]
  BY <1>1 DEF FlattenSeq, Partials
<1> HIDE DEF f
<1>4. \A i \in 1 .. Len(seqs) : f[i] = IF i = 1 THEN seqs[i] ELSE f[i - 1] \o seqs[i]
  BY <1>2, Zenon DEF Partials
<1>5. f[1] = seqs[1] /\ \A i \in 2 .. Len(seqs) : f[i] = f[i - 1] \o seqs[i]
  <2>1. 1 \in 1 .. Len(seqs) /\ (\A i \in 2 .. Len(seqs) : i \in 1 .. Len(seqs) /\ i # 1)
    BY <1>1
  <2> QED BY <1>4, <2>1
<1>6. \A i \in 1 .. Len(seqs) : f[i] \in Seq(S)
  <2> DEFINE T == {i \in 1 .. Len(seqs) : f[i] \notin Seq(S)}
  <2> SUFFICES ASSUME T # {} PROVE FALSE
    OBVIOUS
  <2>1. T \in SUBSET Nat
    BY <1>1
  <2>2. PICK i \in T : \A j \in T : i <= j
    BY <2>1, LeastNumber
  <2>3. seqs[i] \in Seq(S)
    BY <1>1, ElementOfSeq
  <2>4. CASE i = 1
    BY <1>5, <2>2, <2>3, <2>4
  <2>5. CASE i # 1
    <3>1. i - 1 \in 1 .. Len(seqs) /\ i - 1 \notin T /\ i \in 2 .. Len(seqs)
      BY <1>1, <2>2, <2>5
    <3>2. f[i - 1] \in Seq(S) /\ f[i] = f[i - 1] \o seqs[i]
      BY <1>5, <3>1
    <3>3. f[i] \in Seq(S)
      BY <2>3, <3>2, ConcatProperties
    <3> QED BY <2>2, <3>3
  <2> QED BY <2>4, <2>5
<1> QED BY <1>3, <1>5, <1>6

(***************************************************************************)
(* Forests and tours.                                                      *)
(***************************************************************************)

(* The nodes of D, each with the children a pass visits of it: no node is  *)
(* visited from two places, and a rank falls from a node to its children,  *)
(* which is why the recursion ends.                                        *)
Forest(D, visits, rank, m) ==
  /\ m \in Nat /\ rank \in [D -> 0 .. m] /\ visits \in [D -> Seq(D)]
  /\ \A n \in D : \A i \in 1 .. Len(visits[n]) : rank[visits[n][i]] < rank[n]
  /\ \A n, o \in D : \A i \in 1 .. Len(visits[n]) : \A j \in 1 .. Len(visits[o]) :
       visits[n][i] = visits[o][j] => n = o /\ i = j

(* A node is visited from another.                                         *)
Visits(visits, n, x) == \E i \in 1 .. Len(visits[n]) : visits[n][i] = x

(* A tour of the trees below A: every node once, its children before it,   *)
(* and nothing but the nodes of A and what is visited from a later node.   *)
Tour(D, visits, A, s) ==
  /\ s \in Seq(D)
  /\ \A p \in 1 .. Len(s) : \A x \in D :
       Visits(visits, s[p], x) => \E q \in 1 .. p - 1 : s[q] = x
  /\ \A p \in 1 .. Len(s) : s[p] \notin A =>
       \E q \in p + 1 .. Len(s) : Visits(visits, s[q], s[p])
  /\ \A a \in A : \E p \in 1 .. Len(s) : s[p] = a
  /\ \A p, q \in 1 .. Len(s) : s[p] = s[q] => p = q

(* The ranks of a tour are those of its trees' roots and lower ones.       *)
LEMMA TourRank ==
  ASSUME NEW D, NEW visits, NEW rank, NEW m, Forest(D, visits, rank, m),
         NEW A, NEW s, Tour(D, visits, A, s), NEW r \in Nat,
         \A a \in A : a \in D => rank[a] < r
  PROVE  \A p \in 1 .. Len(s) : rank[s[p]] < r
<1> DEFINE T == {p \in 1 .. Len(s) : ~(rank[s[p]] < r)}
<1> SUFFICES ASSUME T # {} PROVE FALSE
  OBVIOUS
<1>1. s \in Seq(D) /\ Len(s) \in Nat
  BY DEF Tour
<1>2. T \in SUBSET (0 .. Len(s))
  BY <1>1
<1>3. PICK p \in T : \A q \in T : q <= p
  BY <1>1, <1>2, GreatestNumber
<1>4. s[p] \in D /\ s[p] \notin A /\ p \in 1 .. Len(s)
  BY <1>1, <1>3, ElementOfSeq
<1>5. PICK q \in p + 1 .. Len(s) : Visits(visits, s[q], s[p])
  BY <1>4 DEF Tour
<1>6. q \in 1 .. Len(s) /\ q > p /\ s[q] \in D
  <2>1. q \in 1 .. Len(s) /\ q > p
    BY <1>1, <1>4
  <2> QED BY <1>1, <2>1, ElementOfSeq
<1>7. rank[s[p]] < rank[s[q]]
  BY <1>5, <1>6 DEF Visits, Forest
<1>8. rank[s[p]] \in Nat /\ rank[s[q]] \in Nat
  BY <1>4, <1>6 DEF Forest
<1>9. q \in T
  BY <1>3, <1>6, <1>7, <1>8
<1> QED BY <1>3, <1>6, <1>9

(* Tours of trees none of which is visited from another do not meet.       *)
LEMMA ToursDisjoint ==
  ASSUME NEW D, NEW visits, NEW rank, NEW m, Forest(D, visits, rank, m),
         NEW A, NEW B, A \cap B = {},
         NEW s, Tour(D, visits, A, s), NEW t, Tour(D, visits, B, t),
         \A x \in A \cup B :
           /\ \A p \in 1 .. Len(s) : ~Visits(visits, s[p], x)
           /\ \A p \in 1 .. Len(t) : ~Visits(visits, t[p], x)
  PROVE  \A p \in 1 .. Len(s) : \A q \in 1 .. Len(t) : s[p] # t[q]
<1> DEFINE T == {p \in 1 .. Len(s) : \E q \in 1 .. Len(t) : s[p] = t[q]}
<1> SUFFICES ASSUME T # {} PROVE FALSE
  OBVIOUS
<1>1. s \in Seq(D) /\ Len(s) \in Nat /\ t \in Seq(D) /\ Len(t) \in Nat
  BY DEF Tour
<1>2. T \in SUBSET (0 .. Len(s))
  BY <1>1
<1>3. PICK p \in T : \A q \in T : q <= p
  BY <1>1, <1>2, GreatestNumber
<1>4. PICK q \in 1 .. Len(t) : s[p] = t[q]
  BY <1>3
<1>5. p \in 1 .. Len(s) /\ s[p] \in D
  BY <1>1, <1>3, ElementOfSeq
<1>6. s[p] \notin A \cup B
  <2>1. CASE s[p] \in A
    <3>1. t[q] \notin B
      BY <1>4, <2>1
    <3>2. \E o \in q + 1 .. Len(t) : Visits(visits, t[o], t[q])
      BY <3>1 DEF Tour
    <3>3. \A o \in q + 1 .. Len(t) : o \in 1 .. Len(t)
      BY <1>1
    <3> QED BY <1>4, <2>1, <3>2, <3>3
  <2>2. CASE s[p] \in B
    <3>1. s[p] \notin A
      BY <2>2
    <3>2. \E o \in p + 1 .. Len(s) : Visits(visits, s[o], s[p])
      BY <1>5, <3>1 DEF Tour
    <3>3. \A o \in p + 1 .. Len(s) : o \in 1 .. Len(s)
      BY <1>1, <1>5
    <3> QED BY <2>2, <3>2, <3>3
  <2> QED BY <2>1, <2>2
<1>7. PICK o \in p + 1 .. Len(s) : Visits(visits, s[o], s[p])
  BY <1>5, <1>6 DEF Tour
<1>8. PICK u \in q + 1 .. Len(t) : Visits(visits, t[u], t[q])
  BY <1>4, <1>6 DEF Tour
<1>9. o \in 1 .. Len(s) /\ o > p /\ u \in 1 .. Len(t)
  BY <1>1, <1>5
<1>10. s[o] \in D /\ t[u] \in D
  BY <1>1, <1>9, ElementOfSeq
<1>11. s[o] = t[u]
  <2>1. PICK i \in 1 .. Len(visits[s[o]]) : visits[s[o]][i] = s[p]
    BY <1>7 DEF Visits
  <2>2. PICK j \in 1 .. Len(visits[t[u]]) : visits[t[u]][j] = t[q]
    BY <1>8 DEF Visits
  <2>3. visits[s[o]][i] = visits[t[u]][j]
    BY <1>4, <2>1, <2>2
  <2>4. \A n, l \in D : \A a \in 1 .. Len(visits[n]) : \A b \in 1 .. Len(visits[l]) :
          visits[n][a] = visits[l][b] => n = l /\ a = b
    BY DEF Forest
  <2> QED BY <1>10, <2>3, <2>4, SMTT(30)
<1>12. o \in T
  BY <1>9, <1>11
<1> QED BY <1>3, <1>9, <1>12

(* Two such tours, one after the other, are a tour.                        *)
LEMMA TourJoin ==
  ASSUME NEW D, NEW visits, NEW rank, NEW m, Forest(D, visits, rank, m),
         NEW A, NEW B, A \cap B = {},
         NEW s, Tour(D, visits, A, s), NEW t, Tour(D, visits, B, t),
         \A x \in A \cup B :
           /\ \A p \in 1 .. Len(s) : ~Visits(visits, s[p], x)
           /\ \A p \in 1 .. Len(t) : ~Visits(visits, t[p], x)
  PROVE  Tour(D, visits, A \cup B, s \o t)
<1>1. s \in Seq(D) /\ Len(s) \in Nat /\ t \in Seq(D) /\ Len(t) \in Nat
  BY DEF Tour
<1>2. PICK w : w = s \o t
  OBVIOUS
<1>3. /\ w \in Seq(D) /\ Len(w) = Len(s) + Len(t)
      /\ \A i \in 1 .. Len(s) + Len(t) : w[i] = IF i <= Len(s) THEN s[i] ELSE t[i - Len(s)]
  BY <1>1, <1>2, ConcatProperties
<1>4. \A i \in 1 .. Len(s) : i \in 1 .. Len(w) /\ w[i] = s[i]
  BY <1>1, <1>3
<1>5. \A i \in 1 .. Len(t) : Len(s) + i \in 1 .. Len(w) /\ w[Len(s) + i] = t[i]
  <2> SUFFICES ASSUME NEW i \in 1 .. Len(t)
               PROVE  Len(s) + i \in 1 .. Len(w) /\ w[Len(s) + i] = t[i]
    OBVIOUS
  <2>1. /\ Len(s) + i \in 1 .. Len(w) /\ Len(s) + i \in 1 .. Len(s) + Len(t)
        /\ ~(Len(s) + i <= Len(s)) /\ (Len(s) + i) - Len(s) = i
    BY <1>1, <1>3
  <2> QED BY <1>3, <2>1
<1>6. ASSUME NEW p \in 1 .. Len(w)
      PROVE  p \in 1 .. Len(s) \/ \E i \in 1 .. Len(t) : p = Len(s) + i
  <2>1. p > Len(s) => p - Len(s) \in 1 .. Len(t) /\ p = Len(s) + (p - Len(s))
    BY <1>1, <1>3
  <2> QED BY <1>1, <1>3, <2>1
<1>7. ASSUME NEW p \in 1 .. Len(w), NEW x \in D, Visits(visits, w[p], x)
      PROVE  \E q \in 1 .. p - 1 : w[q] = x
  <2>1. CASE p \in 1 .. Len(s)
    <3>1. PICK q \in 1 .. p - 1 : s[q] = x
      BY <1>4, <1>7, <2>1 DEF Tour
    <3>2. q \in 1 .. Len(s)
      BY <1>1, <2>1
    <3> QED BY <1>4, <3>1, <3>2
  <2>2. ASSUME NEW i \in 1 .. Len(t), p = Len(s) + i
        PROVE  \E q \in 1 .. p - 1 : w[q] = x
    <3>1. PICK q \in 1 .. i - 1 : t[q] = x
      BY <1>5, <1>7, <2>2 DEF Tour
    <3>2. q \in 1 .. Len(t) /\ Len(s) + q \in 1 .. p - 1
      BY <1>1, <2>2
    <3> QED BY <1>5, <3>1, <3>2
  <2> QED BY <1>6, <2>1, <2>2
<1>8. ASSUME NEW p \in 1 .. Len(w), w[p] \notin A \cup B
      PROVE  \E q \in p + 1 .. Len(w) : Visits(visits, w[q], w[p])
  <2>1. CASE p \in 1 .. Len(s)
    <3>1. w[p] = s[p]
      BY <1>4, <2>1
    <3>2. PICK q \in p + 1 .. Len(s) : Visits(visits, s[q], s[p])
      BY <1>8, <2>1, <3>1 DEF Tour
    <3>3. q \in 1 .. Len(s) /\ q \in p + 1 .. Len(w)
      BY <1>1, <1>3, <2>1
    <3> QED BY <1>4, <3>1, <3>2, <3>3
  <2>2. ASSUME NEW i \in 1 .. Len(t), p = Len(s) + i
        PROVE  \E q \in p + 1 .. Len(w) : Visits(visits, w[q], w[p])
    <3>1. w[p] = t[i]
      BY <1>5, <2>2
    <3>2. PICK q \in i + 1 .. Len(t) : Visits(visits, t[q], t[i])
      BY <1>8, <3>1 DEF Tour
    <3>3. q \in 1 .. Len(t) /\ Len(s) + q \in p + 1 .. Len(w)
      BY <1>1, <1>3, <2>2
    <3> QED BY <1>5, <3>1, <3>2, <3>3
  <2> QED BY <1>6, <2>1, <2>2
<1>9. ASSUME NEW a \in A \cup B
      PROVE  \E p \in 1 .. Len(w) : w[p] = a
  <2>1. CASE a \in A
    <3>1. PICK p \in 1 .. Len(s) : s[p] = a
      BY <2>1 DEF Tour
    <3> QED BY <1>4, <3>1
  <2>2. CASE a \in B
    <3>1. PICK p \in 1 .. Len(t) : t[p] = a
      BY <2>2 DEF Tour
    <3> QED BY <1>5, <3>1
  <2> QED BY <2>1, <2>2
<1>10. ASSUME NEW p \in 1 .. Len(w), NEW q \in 1 .. Len(w), w[p] = w[q]
       PROVE  p = q
  <2>1. \A i \in 1 .. Len(s) : \A j \in 1 .. Len(t) : s[i] # t[j]
    BY ToursDisjoint
  <2>2. CASE p \in 1 .. Len(s) /\ q \in 1 .. Len(s)
    BY <1>4, <1>10, <2>2 DEF Tour
  <2>3. ASSUME NEW i \in 1 .. Len(t), p = Len(s) + i, NEW j \in 1 .. Len(t), q = Len(s) + j
        PROVE  p = q
    <3>1. t[i] = t[j]
      BY <1>5, <1>10, <2>3
    <3> QED BY <2>3, <3>1 DEF Tour
  <2>4. ASSUME NEW i \in 1 .. Len(s), NEW j \in 1 .. Len(t)
        PROVE  w[i] # w[Len(s) + j]
    BY <1>4, <1>5, <2>1
  <2>5. CASE p \in 1 .. Len(s)
    BY <1>6, <1>10, <2>2, <2>4, <2>5
  <2>6. CASE q \in 1 .. Len(s)
    BY <1>6, <1>10, <2>2, <2>4, <2>6
  <2>7. CASE (\E i \in 1 .. Len(t) : p = Len(s) + i) /\ (\E j \in 1 .. Len(t) : q = Len(s) + j)
    BY <2>3, <2>7
  <2> QED BY <1>6, <2>5, <2>6, <2>7
<1>11. Tour(D, visits, A \cup B, w)
  BY <1>3, <1>7, <1>8, <1>9, <1>10, Zenon DEF Tour
<1> QED BY <1>2, <1>11

(* The node itself, behind the trees below its children.                   *)
LEMMA TourClose ==
  ASSUME NEW D, NEW visits, NEW rank, NEW m, Forest(D, visits, rank, m),
         NEW n \in D, NEW s, NEW K, K = {visits[n][i] : i \in 1 .. Len(visits[n])},
         Tour(D, visits, K, s), \A p \in 1 .. Len(s) : rank[s[p]] < rank[n]
  PROVE  Tour(D, visits, {n}, s \o <<n>>)
<1>1. s \in Seq(D) /\ Len(s) \in Nat
  BY DEF Tour
<1>2. PICK w : w = s \o <<n>>
  OBVIOUS
<1>3. /\ w \in Seq(D) /\ Len(w) = Len(s) + 1
      /\ \A i \in 1 .. Len(s) : i \in 1 .. Len(w) /\ w[i] = s[i]
      /\ Len(s) + 1 \in 1 .. Len(w) /\ w[Len(s) + 1] = n
  <2>1. <<n>> \in Seq(D) /\ Len(<<n>>) = 1 /\ <<n>>[1] = n
    OBVIOUS
  <2>2. /\ s \o <<n>> \in Seq(D) /\ Len(s \o <<n>>) = Len(s) + Len(<<n>>)
        /\ \A i \in 1 .. Len(s) + Len(<<n>>) :
             (s \o <<n>>)[i] = IF i <= Len(s) THEN s[i] ELSE <<n>>[i - Len(s)]
    BY <1>1, <2>1, ConcatProperties
  <2>3. w \in Seq(D) /\ Len(w) = Len(s) + 1
    BY <1>2, <2>1, <2>2
  <2>4. \A i \in 1 .. Len(s) + 1 : w[i] = IF i <= Len(s) THEN s[i] ELSE <<n>>[i - Len(s)]
    BY <1>2, <2>1, <2>2
  <2>5. \A i \in 1 .. Len(s) : i \in 1 .. Len(s) + 1 /\ i <= Len(s)
    BY <1>1
  <2>6. Len(s) + 1 \in 1 .. Len(s) + 1 /\ ~(Len(s) + 1 <= Len(s)) /\ (Len(s) + 1) - Len(s) = 1
    BY <1>1
  <2>7. w[Len(s) + 1] = n
    BY <2>1, <2>4, <2>6
  <2> QED BY <2>3, <2>4, <2>5, <2>6, <2>7
<1>4. \A p \in 1 .. Len(w) : p \in 1 .. Len(s) \/ p = Len(s) + 1
  BY <1>1, <1>3
<1>5. ASSUME NEW x \in D
      PROVE  Visits(visits, n, x) <=> x \in K
  BY DEF Visits
<1>6. ASSUME NEW p \in 1 .. Len(w), NEW x \in D, Visits(visits, w[p], x)
      PROVE  \E q \in 1 .. p - 1 : w[q] = x
  <2>1. CASE p \in 1 .. Len(s)
    <3>1. PICK q \in 1 .. p - 1 : s[q] = x
      BY <1>3, <1>6, <2>1 DEF Tour
    <3>2. q \in 1 .. Len(s)
      BY <1>1, <2>1
    <3> QED BY <1>3, <3>1, <3>2
  <2>2. CASE p = Len(s) + 1
    <3>1. x \in K
      BY <1>3, <1>5, <1>6, <2>2
    <3>2. PICK q \in 1 .. Len(s) : s[q] = x
      BY <3>1 DEF Tour
    <3>3. q \in 1 .. p - 1
      BY <1>1, <2>2
    <3> QED BY <1>3, <3>2, <3>3
  <2> QED BY <1>4, <2>1, <2>2
<1>7. ASSUME NEW p \in 1 .. Len(w), w[p] \notin {n}
      PROVE  \E q \in p + 1 .. Len(w) : Visits(visits, w[q], w[p])
  <2>1. p \in 1 .. Len(s) /\ w[p] = s[p] /\ s[p] \in D
    <3>1. p \in 1 .. Len(s)
      BY <1>3, <1>4, <1>7
    <3> QED BY <1>1, <1>3, <3>1, ElementOfSeq
  <2>2. CASE s[p] \in K
    <3>1. Visits(visits, w[Len(s) + 1], w[p])
      BY <1>3, <1>5, <2>1, <2>2
    <3>2. Len(s) + 1 \in p + 1 .. Len(w)
      BY <1>1, <1>3, <2>1
    <3> QED BY <3>1, <3>2
  <2>3. CASE s[p] \notin K
    <3>1. PICK q \in p + 1 .. Len(s) : Visits(visits, s[q], s[p])
      BY <2>1, <2>3 DEF Tour
    <3>2. q \in 1 .. Len(s) /\ q \in p + 1 .. Len(w)
      BY <1>1, <1>3, <2>1
    <3> QED BY <1>3, <2>1, <3>1, <3>2
  <2> QED BY <2>2, <2>3
<1>8. \A a \in {n} : \E p \in 1 .. Len(w) : w[p] = a
  BY <1>3
<1>9. ASSUME NEW p \in 1 .. Len(w), NEW q \in 1 .. Len(w), w[p] = w[q]
      PROVE  p = q
  <2>1. \A i \in 1 .. Len(s) : s[i] # n
    <3>1. \A i \in 1 .. Len(s) : s[i] \in D /\ rank[s[i]] < rank[n]
      BY <1>1, ElementOfSeq
    <3>2. rank[n] \in Nat
      BY DEF Forest
    <3> QED BY <3>1, <3>2
  <2>2. CASE p \in 1 .. Len(s) /\ q \in 1 .. Len(s)
    BY <1>3, <1>9, <2>2 DEF Tour
  <2> QED BY <1>3, <1>4, <1>9, <2>1, <2>2
<1>10. Tour(D, visits, {n}, w)
  BY <1>3, <1>6, <1>7, <1>8, <1>9, Zenon DEF Tour
<1> QED BY <1>2, <1>10

(* Tours of several trees, flattened.                                      *)
LEMMA TourFlatten ==
  ASSUME NEW D, NEW visits, NEW rank, NEW m, Forest(D, visits, rank, m),
         NEW c \in Seq(D), \A i, j \in 1 .. Len(c) : c[i] = c[j] => i = j,
         NEW seqs \in Seq(Seq(D)), Len(seqs) = Len(c),
         \A i \in 1 .. Len(c) : Tour(D, visits, {c[i]}, seqs[i]),
         \A i, j \in 1 .. Len(c) : \A p \in 1 .. Len(seqs[i]) : ~Visits(visits, seqs[i][p], c[j]),
         NEW K, K = {c[i] : i \in 1 .. Len(c)}
  PROVE  Tour(D, visits, K, FlattenSeq(seqs))
<1>1. Len(c) \in Nat
  OBVIOUS
<1>2. CASE seqs = <<>>
  <2>1. FlattenSeq(seqs) = <<>>
    BY <1>2 DEF FlattenSeq
  <2>2. Len(c) = 0
    BY <1>2
  <2>3. Tour(D, visits, {}, <<>>)
    BY DEF Tour
  <2>4. {c[i] : i \in 1 .. Len(c)} = {}
    BY <2>2
  <2> QED BY <2>1, <2>3, <2>4
<1>3. CASE seqs # <<>>
  <2>1. PICK f : /\ \A i \in 1 .. Len(seqs) : f[i] \in Seq(D)
                 /\ f[1] = seqs[1]
                 /\ \A i \in 2 .. Len(seqs) : f[i] = f[i - 1] \o seqs[i]
                 /\ FlattenSeq(seqs) = f[Len(seqs)]
    BY <1>3, FlattenIsPartial
  <2> DEFINE C(k)    == {c[i] : i \in 1 .. k}
             Good(k) == /\ Tour(D, visits, C(k), f[k])
                        /\ \A j \in 1 .. Len(c) : \A p \in 1 .. Len(f[k]) : ~Visits(visits, f[k][p], c[j])
             T       == {k \in 1 .. Len(c) : ~Good(k)}
  <2>2. T = {}
    <3> SUFFICES ASSUME T # {} PROVE FALSE
      OBVIOUS
    <3>1. T \in SUBSET Nat
      BY <1>1
    <3>2. PICK k \in T : \A l \in T : k <= l
      BY <3>1, LeastNumber
    <3>3. k \in 1 .. Len(c) /\ ~Good(k)
      BY <3>2
    <3>4. CASE k = 1
      <4>1. f[k] = seqs[k] /\ C(k) = {c[k]}
        BY <2>1, <3>4
      <4> QED BY <3>3, <4>1
    <3>5. CASE k # 1
      <4>1. k - 1 \in 1 .. Len(c) /\ k - 1 \notin T /\ k \in 2 .. Len(seqs)
        <5>1. k - 1 \in 1 .. Len(c) /\ k \in 2 .. Len(seqs) /\ ~(k <= k - 1)
          BY <1>1, <3>3, <3>5
        <5> HIDE DEF T
        <5> QED BY <3>2, <5>1
      <4>2. Good(k - 1)
        BY <4>1
      <4>3. f[k] = f[k - 1] \o seqs[k]
        BY <2>1, <4>1
      <4>4. PICK A, B, s, t : A = C(k - 1) /\ B = {c[k]} /\ s = f[k - 1] /\ t = seqs[k]
        OBVIOUS
      <4>5. A \cap B = {} /\ A \cup B = C(k)
        <5>1. \A i : i \in 1 .. k <=> i \in 1 .. k - 1 \/ i = k
          BY <1>1, <3>3
        <5>2. \A i \in 1 .. k - 1 : i \in 1 .. Len(c) /\ i # k
          BY <1>1, <3>3
        <5> QED BY <3>3, <4>4, <5>1, <5>2
      <4>6. Tour(D, visits, A, s) /\ Tour(D, visits, B, t)
        BY <3>3, <4>2, <4>4
      <4>7. \A x \in A \cup B : \E j \in 1 .. Len(c) : x = c[j]
        <5>1. \A i \in 1 .. k - 1 : i \in 1 .. Len(c)
          BY <1>1, <3>3
        <5> QED BY <3>3, <4>4, <5>1
      <4>8. \A j \in 1 .. Len(c) : /\ \A p \in 1 .. Len(s) : ~Visits(visits, s[p], c[j])
                                   /\ \A p \in 1 .. Len(t) : ~Visits(visits, t[p], c[j])
        BY <3>3, <4>2, <4>4
      <4>9. \A x \in A \cup B : /\ \A p \in 1 .. Len(s) : ~Visits(visits, s[p], x)
                                /\ \A p \in 1 .. Len(t) : ~Visits(visits, t[p], x)
        BY <4>7, <4>8
      <4>10. Tour(D, visits, A \cup B, s \o t)
        BY <4>5, <4>6, <4>9, TourJoin
      <4>11. Tour(D, visits, C(k), f[k])
        BY <4>3, <4>4, <4>5, <4>10
      <4>12. ASSUME NEW j \in 1 .. Len(c), NEW p \in 1 .. Len(f[k])
             PROVE  ~Visits(visits, f[k][p], c[j])
        <5>1. s \in Seq(D) /\ t \in Seq(D)
          BY <4>6 DEF Tour
        <5>2. /\ Len(s \o t) = Len(s) + Len(t) /\ Len(s) \in Nat /\ Len(t) \in Nat
              /\ \A i \in 1 .. Len(s) + Len(t) :
                   (s \o t)[i] = IF i <= Len(s) THEN s[i] ELSE t[i - Len(s)]
          BY <5>1, ConcatProperties
        <5>3. f[k] = s \o t
          BY <4>3, <4>4
        <5>4. p \in 1 .. Len(s) + Len(t)
          BY <5>2, <5>3
        <5>5. CASE p <= Len(s)
          <6>1. p \in 1 .. Len(s) /\ f[k][p] = s[p]
            BY <5>2, <5>3, <5>4, <5>5
          <6> QED BY <4>8, <6>1
        <5>6. CASE ~(p <= Len(s))
          <6>1. p - Len(s) \in 1 .. Len(t) /\ f[k][p] = t[p - Len(s)]
            BY <5>2, <5>3, <5>4, <5>6
          <6> QED BY <4>8, <6>1
        <5> QED BY <5>5, <5>6
      <4>13. Good(k)
        BY <4>11, <4>12
      <4> QED BY <3>3, <4>13
    <3> QED BY <3>4, <3>5
  <2>3. Len(c) \in 1 .. Len(c)
    <3>1. Len(seqs) # 0
      BY <1>3
    <3> QED BY <1>1, <3>1
  <2>4. Good(Len(c))
    BY <2>2, <2>3
  <2> QED BY <2>1, <2>4
<1> QED BY <1>2, <1>3

(***************************************************************************)
(* The recursion itself.                                                   *)
(***************************************************************************)

(* What LeaveOrder computes for the nodes of a rank below r.               *)
Leaves(D, visits, rank, r, f) ==
  f = [n \in {o \in D : rank[o] < r} |->
         FlattenSeq([i \in DOMAIN visits[n] |-> f[visits[n][i]]]) \o <<n>>]

(* It exists: a least rank without it has a predecessor.                   *)
LEMMA LeavesExist ==
  ASSUME NEW D, NEW visits, NEW rank, NEW m, Forest(D, visits, rank, m), NEW r \in Nat
  PROVE  \E f : Leaves(D, visits, rank, r, f)
<1> DEFINE T == {k \in Nat : ~ \E f : Leaves(D, visits, rank, k, f)}
<1> SUFFICES ASSUME T # {} PROVE FALSE
  OBVIOUS
<1>1. PICK k \in T : \A j \in T : k <= j
  BY LeastNumber
<1>2. \A o \in D : rank[o] \in Nat
  BY DEF Forest
<1>3. CASE k = 0
  <2>1. {o \in D : rank[o] < 0} = {}
    BY <1>2
  <2>2. Leaves(D, visits, rank, 0, [n \in {} |-> {}])
    BY <2>1 DEF Leaves
  <2> QED BY <1>1, <1>3, <2>2
<1>4. CASE k # 0
  <2>1. k \in Nat /\ k - 1 \in Nat /\ ~(k <= k - 1)
    BY <1>1, <1>4
  <2>2. k - 1 \notin T
    BY <1>1, <2>1
  <2>3. PICK f : Leaves(D, visits, rank, k - 1, f)
    BY <2>1, <2>2
  <2> DEFINE E(j) == {o \in D : rank[o] < j}
             g    == [n \in E(k) |-> FlattenSeq([i \in DOMAIN visits[n] |-> f[visits[n][i]]]) \o <<n>>]
  <2>4. f = [n \in E(k - 1) |-> FlattenSeq([i \in DOMAIN visits[n] |-> f[visits[n][i]]]) \o <<n>>]
    BY <2>3, Zenon DEF Leaves
  <2>5. \A n \in E(k - 1) : n \in E(k)
    BY <1>2, <2>1
  <2>6. \A n \in E(k - 1) : g[n] = f[n]
    <3>1. ASSUME NEW n \in E(k - 1)
          PROVE  f[n] = FlattenSeq([i \in DOMAIN visits[n] |-> f[visits[n][i]]]) \o <<n>>
      BY <2>4, Zenon
    <3>2. ASSUME NEW n \in E(k)
          PROVE  g[n] = FlattenSeq([i \in DOMAIN visits[n] |-> f[visits[n][i]]]) \o <<n>>
      BY Zenon
    <3> HIDE DEF E, g
    <3> QED BY <2>5, <3>1, <3>2
  <2>7. ASSUME NEW n \in E(k)
        PROVE  \A i \in DOMAIN visits[n] : visits[n][i] \in E(k - 1)
    <3>1. n \in D /\ rank[n] < k /\ visits[n] \in Seq(D)
      BY DEF Forest
    <3>2. \A i \in DOMAIN visits[n] : visits[n][i] \in D /\ rank[visits[n][i]] < rank[n]
      BY <3>1 DEF Forest
    <3> QED BY <1>2, <2>1, <3>1, <3>2
  <2>8. ASSUME NEW n \in E(k)
        PROVE  [i \in DOMAIN visits[n] |-> f[visits[n][i]]] = [i \in DOMAIN visits[n] |-> g[visits[n][i]]]
    <3> HIDE DEF E, g
    <3> QED BY <2>6, <2>7
  <2>9. g = [n \in E(k) |-> FlattenSeq([i \in DOMAIN visits[n] |-> g[visits[n][i]]]) \o <<n>>]
    <3> DEFINE h(n)  == FlattenSeq([i \in DOMAIN visits[n] |-> f[visits[n][i]]]) \o <<n>>
               h1(n) == FlattenSeq([i \in DOMAIN visits[n] |-> g[visits[n][i]]]) \o <<n>>
    <3>1. \A n \in E(k) : h(n) = h1(n)
      <4> HIDE DEF E, g
      <4> QED BY <2>8, Zenon
    <3>2. g = [n \in E(k) |-> h(n)]
      BY Zenon
    <3> HIDE DEF h, h1, g, E
    <3>3. g = [n \in E(k) |-> h1(n)]
      BY <3>1, <3>2
    <3> QED BY <3>3, Zenon DEF h1
  <2>10. Leaves(D, visits, rank, k, g)
    <3> HIDE DEF g
    <3> QED BY <2>9, Zenon DEF Leaves
  <2> QED BY <1>1, <2>10
<1> QED BY <1>3, <1>4

(* A recursion that starts at n tours the tree below n.                    *)
LEMMA LeavesTour ==
  ASSUME NEW D, NEW visits, NEW rank, NEW m, Forest(D, visits, rank, m), NEW f,
         \A n \in D : f[n] = FlattenSeq([i \in DOMAIN visits[n] |-> f[visits[n][i]]]) \o <<n>>
  PROVE  \A n \in D : Tour(D, visits, {n}, f[n])
<1> DEFINE T == {r \in Nat : \E n \in D : rank[n] = r /\ ~Tour(D, visits, {n}, f[n])}
<1>1. \A o \in D : rank[o] \in Nat
  BY DEF Forest
<1>2. ASSUME T # {} PROVE FALSE
  <2>1. PICK r \in T : \A j \in T : r <= j
    BY <1>2, LeastNumber
  <2>2. PICK n \in D : rank[n] = r /\ ~Tour(D, visits, {n}, f[n])
    BY <2>1
  <2> DEFINE c    == visits[n]
             seqs == [i \in DOMAIN visits[n] |-> f[visits[n][i]]]
             E    == {o \in D : rank[o] < rank[n]}
  <2>3. c \in Seq(D) /\ DOMAIN c = 1 .. Len(c) /\ Len(c) \in Nat
    BY DEF Forest
  <2>4. ASSUME NEW i \in 1 .. Len(c)
        PROVE  c[i] \in D /\ rank[c[i]] < rank[n] /\ Tour(D, visits, {c[i]}, f[c[i]])
    <3>1. c[i] \in D /\ rank[c[i]] < rank[n]
      <4>1. c[i] \in D
        <5> HIDE DEF c
        <5> QED BY <2>3, ElementOfSeq
      <4> QED BY <4>1 DEF Forest
    <3>2. rank[c[i]] \notin T
      <4>1. rank[c[i]] \in Nat /\ rank[n] \in Nat
        BY <1>1, <3>1
      <4> HIDE DEF T
      <4> QED BY <2>1, <2>2, <3>1, <4>1
    <3> QED BY <1>1, <3>1, <3>2
  <2>5. ASSUME NEW i \in 1 .. Len(c), NEW p \in 1 .. Len(f[c[i]])
        PROVE  rank[f[c[i]][p]] < rank[n]
    <3>1. PICK A, s : A = {c[i]} /\ s = f[c[i]]
      OBVIOUS
    <3>2. Tour(D, visits, A, s) /\ (\A a \in A : a \in D => rank[a] < rank[n]) /\ rank[n] \in Nat
      BY <1>1, <2>4, <3>1
    <3>3. \A q \in 1 .. Len(s) : rank[s[q]] < rank[n]
      BY <3>2, TourRank
    <3> QED BY <3>1, <3>3
  <2>6. seqs \in Seq(Seq(D)) /\ Len(seqs) = Len(c) /\ \A i \in 1 .. Len(c) : seqs[i] = f[c[i]]
    <3>1. \A i \in 1 .. Len(c) : f[c[i]] \in Seq(D)
      BY <2>4 DEF Tour
    <3>2. seqs = [i \in 1 .. Len(c) |-> f[c[i]]]
      BY <2>3
    <3> HIDE DEF c, seqs
    <3> QED BY <2>3, <3>1, <3>2
  <2>7. \A i, j \in 1 .. Len(c) : c[i] = c[j] => i = j
    BY DEF Forest
  <2>8. ASSUME NEW i \in 1 .. Len(c), NEW j \in 1 .. Len(c), NEW p \in 1 .. Len(seqs[i])
        PROVE  ~Visits(visits, seqs[i][p], c[j])
    <3>1. PICK y : y = seqs[i][p]
      OBVIOUS
    <3>2. y \in D /\ rank[y] < rank[n]
      <4>1. seqs[i] \in Seq(D)
        BY <2>6, ElementOfSeq
      <4> QED BY <2>5, <2>6, <3>1, <4>1, ElementOfSeq
    <3>3. SUFFICES ASSUME NEW k \in 1 .. Len(visits[y]), visits[y][k] = visits[n][j]
                   PROVE  FALSE
      BY <3>1 DEF Visits
    <3>4. y = n
      BY <3>2, <3>3 DEF Forest
    <3>5. rank[n] \in Nat
      BY <1>1
    <3> QED BY <3>2, <3>4, <3>5
  <2>9. \A i \in 1 .. Len(c) : Tour(D, visits, {c[i]}, seqs[i])
    BY <2>4, <2>6
  <2>10. PICK K, s : K = {c[i] : i \in 1 .. Len(c)} /\ s = FlattenSeq(seqs)
    OBVIOUS
  <2>11. Tour(D, visits, K, s)
    <3>1. \A i, j \in 1 .. Len(c) : \A p \in 1 .. Len(seqs[i]) : ~Visits(visits, seqs[i][p], c[j])
      BY <2>8
    <3> HIDE DEF c, seqs
    <3> QED BY <2>3, <2>6, <2>7, <2>9, <2>10, <3>1, TourFlatten
  <2>12. \A p \in 1 .. Len(s) : rank[s[p]] < rank[n]
    <3>1. \A a \in K : a \in D => rank[a] < rank[n]
      BY <2>4, <2>10
    <3>2. rank[n] \in Nat
      BY <1>1
    <3> QED BY <2>11, <3>1, <3>2, TourRank
  <2>13. Tour(D, visits, {n}, s \o <<n>>)
    BY <2>10, <2>11, <2>12, TourClose
  <2>14. f[n] = s \o <<n>>
    BY <2>10
  <2> QED BY <2>2, <2>13, <2>14
<1>3. ASSUME NEW n \in D
      PROVE  Tour(D, visits, {n}, f[n])
  BY <1>1, <1>2
<1> QED BY <1>3

(* LeaveOrder tours the trees of the statements: a pass leaves every node  *)
(* they reach once, its visited children before it.                        *)
LEMMA LeaveOrderTour ==
  ASSUME NEW visits, NEW rank, NEW m, Forest(DOMAIN heap, visits, rank, m),
         root \in Seq(DOMAIN heap), \A i, j \in 1 .. Len(root) : root[i] = root[j] => i = j,
         \A i \in 1 .. Len(root) : \A n \in DOMAIN heap : ~Visits(visits, n, root[i])
  PROVE  Tour(DOMAIN heap, visits, {root[i] : i \in 1 .. Len(root)}, LeaveOrder(visits))
<1> DEFINE leave == CHOOSE leave : leave = [n \in DOMAIN heap |->
             FlattenSeq([i \in DOMAIN visits[n] |-> leave[visits[n][i]]]) \o <<n>>]
<1>1. PICK D : D = DOMAIN heap
  OBVIOUS
<1>2. leave = [n \in D |-> FlattenSeq([i \in DOMAIN visits[n] |-> leave[visits[n][i]]]) \o <<n>>]
  <2>1. m + 1 \in Nat /\ {o \in D : rank[o] < m + 1} = D
    <3>1. m \in Nat /\ \A o \in D : rank[o] \in 0 .. m
      BY <1>1 DEF Forest
    <3> QED BY <3>1
  <2>2. PICK f : Leaves(D, visits, rank, m + 1, f)
    BY <1>1, <2>1, LeavesExist
  <2>3. f = [n \in D |-> FlattenSeq([i \in DOMAIN visits[n] |-> f[visits[n][i]]]) \o <<n>>]
    BY <2>1, <2>2 DEF Leaves
  <2>4. \E g : g = [n \in DOMAIN heap |->
                      FlattenSeq([i \in DOMAIN visits[n] |-> g[visits[n][i]]]) \o <<n>>]
    BY <1>1, <2>3
  <2> QED BY <1>1, <2>4, Zenon
<1>3. LeaveOrder(visits) = FlattenSeq([i \in DOMAIN root |-> leave[root[i]]])
  BY Zenon DEF LeaveOrder
<1> HIDE DEF leave
<1>4. \A n \in D : leave[n] = FlattenSeq([i \in DOMAIN visits[n] |-> leave[visits[n][i]]]) \o <<n>>
  BY <1>2, Zenon
<1>5. \A n \in D : Tour(D, visits, {n}, leave[n])
  BY <1>1, <1>4, LeavesTour
<1>6. root \in Seq(D) /\ DOMAIN root = 1 .. Len(root) /\ Len(root) \in Nat
  BY <1>1
<1>7. \A i \in 1 .. Len(root) : root[i] \in D
  BY <1>6, ElementOfSeq
<1> DEFINE seqs == [i \in 1 .. Len(root) |-> leave[root[i]]]
<1>8. seqs \in Seq(Seq(D)) /\ Len(seqs) = Len(root) /\ \A i \in 1 .. Len(root) : seqs[i] = leave[root[i]]
  <2>1. \A i \in 1 .. Len(root) : leave[root[i]] \in Seq(D)
    BY <1>5, <1>7 DEF Tour
  <2> QED BY <1>6, <2>1
<1>9. ASSUME NEW i \in 1 .. Len(root), NEW j \in 1 .. Len(root), NEW p \in 1 .. Len(seqs[i])
      PROVE  ~Visits(visits, seqs[i][p], root[j])
  <2>1. seqs[i] \in Seq(D)
    BY <1>8, ElementOfSeq
  <2>2. seqs[i][p] \in D
    BY <2>1, ElementOfSeq
  <2> QED BY <1>1, <2>2
<1>10. \A i \in 1 .. Len(root) : Tour(D, visits, {root[i]}, seqs[i])
  BY <1>5, <1>7, <1>8
<1>11. LeaveOrder(visits) = FlattenSeq(seqs)
  BY <1>3, <1>6
<1> HIDE DEF seqs
<1>12. Tour(D, visits, {root[i] : i \in 1 .. Len(root)}, FlattenSeq(seqs))
  <2>1. Forest(D, visits, rank, m) /\ (\A i, j \in 1 .. Len(root) : root[i] = root[j] => i = j)
    BY <1>1
  <2>2. \A i, j \in 1 .. Len(root) : \A p \in 1 .. Len(seqs[i]) : ~Visits(visits, seqs[i][p], root[j])
    BY <1>9
  <2>3. PICK c, K : c = root /\ K = {root[i] : i \in 1 .. Len(root)}
    OBVIOUS
  <2>4. c \in Seq(D) /\ (\A i, j \in 1 .. Len(c) : c[i] = c[j] => i = j)
    BY <1>6, <2>1, <2>3
  <2>5. /\ Len(seqs) = Len(c)
        /\ \A i \in 1 .. Len(c) : Tour(D, visits, {c[i]}, seqs[i])
        /\ \A i, j \in 1 .. Len(c) : \A p \in 1 .. Len(seqs[i]) : ~Visits(visits, seqs[i][p], c[j])
    BY <1>8, <1>10, <2>2, <2>3
  <2>6. K = {c[i] : i \in 1 .. Len(c)}
    BY <2>3
  <2>7. Tour(D, visits, K, FlattenSeq(seqs))
    BY <1>8, <2>1, <2>4, <2>5, <2>6, TourFlatten
  <2> QED BY <2>3, <2>7
<1> QED BY <1>1, <1>11, <1>12
=============================================================================
