------------------------------ MODULE CoseProofs -------------------------------
(***************************************************************************)
(* Proofs about the layout: what every step of runLayout keeps of the      *)
(* compound graph, up to the end, when everything is back where it         *)
(* belongs.                                                                *)
(***************************************************************************)
EXTENDS Cose, CompoundGraphProofs

(***************************************************************************)
(* The elements of a map.                                                  *)
(***************************************************************************)
Elements(c) == Spectral!NodesOf(c)

MapOK(c) ==
  /\ c.nodes \in Seq(Node) /\ IsInjective(c.nodes) /\ ToSet(c.nodes) = Elements(c)
  /\ Elements(c) \subseteq Node /\ RootNode \notin Elements(c) /\ Null \notin Elements(c)
  /\ IsFiniteSet(Elements(c)) /\ WellFounded(Elements(c), c.parent)
  /\ \A n \in Elements(c) : c.parent[n] \in Elements(c) \cup {Null}
  /\ c.edges \in Seq(Edge) /\ IsInjective(c.edges)
  /\ \A e \in ToSet(c.edges) : c.ends[e][1] \in Elements(c) /\ c.ends[e][2] \in Elements(c)

\* The dummies are nodes of their own, another one for each node.
DummiesOK(D) ==
  /\ \A p \in D \cup {RootNode} : Dummy(p) \in Node /\ Dummy(p) \notin D /\ Dummy(p) # RootNode
  /\ \A p, q \in D \cup {RootNode} : Dummy(p) = Dummy(q) => p = q

LEMMA DummyFacts ==
  ASSUME NEW c, c \in Maps
  PROVE  DummiesOK(Elements(c))
<1>1. \A p \in Elements(c) \cup {RootNode} : Dummy(p) \in Node \ (Elements(c) \cup {RootNode})
  BY MapAssumption DEF Elements
<1>2. ASSUME NEW p, NEW q, Dummy(p) = Dummy(q) PROVE p = q
  <2>1. <<"dummy", p>>[2] = <<"dummy", q>>[2]
    BY <1>2 DEF Dummy
  <2> QED
    BY <2>1
<1> QED
  BY <1>1, <1>2 DEF DummiesOK

LEMMA MapFacts ==
  ASSUME NEW c, c \in Maps
  PROVE  MapOK(c)
<1> DEFINE D == Elements(c)
<1>1. D = ToSet(c.nodes) /\ Spectral!EdgeIds(c) = ToSet(c.edges)
  BY DEF Elements, Spectral!NodesOf, Spectral!EdgeIds, ToSet, Spectral!ToSet
<1>2. /\ c.nodes \in Seq(Node) /\ IsInjective(c.nodes) /\ c.edges \in Seq(Edge) /\ IsInjective(c.edges)
      /\ \A n \in D : c.parent[n] \in D \cup {Null}
      /\ \A S \in (SUBSET D) \ {{}} : \E n \in S : c.parent[n] \notin S
      /\ \A e \in Spectral!EdgeIds(c) : c.ends[e] \in D \X D
      /\ RootNode \notin D
  BY MapAssumption DEF Elements
<1>3. D \subseteq Node
  BY <1>1, <1>2, Members
<1>4. WellFounded(D, c.parent)
  <2> HIDE DEF D
  <2> QED
    BY <1>2 DEF WellFounded
<1>5. \A e \in ToSet(c.edges) : c.ends[e][1] \in D /\ c.ends[e][2] \in D
  BY <1>1, <1>2
<1>6. IsFiniteSet(D) /\ Null \notin D
  BY <1>3, NodeAssumption, FS_Subset
<1> QED
  BY <1>1, <1>2, <1>3, <1>4, <1>5, <1>6 DEF MapOK

Kids(c) == [n \in Elements(c) |-> Spectral!ChildList(c, n)]

\* The children of a node, in the order of the elements.
LEMMA ChildListIsSublist ==
  ASSUME NEW c, MapOK(c), NEW p
  PROVE  Sublist(Spectral!ChildList(c, p), c.nodes, {n \in Elements(c) : c.parent[n] = p})
<1> DEFINE list == c.nodes
           T == {n \in Elements(c) : c.parent[n] = p}
           Q(f) == f = [k \in 0..Len(list) |-> IF k = 0 THEN <<>> ELSE
                          IF c.parent[list[k]] = p THEN Append(f[k - 1], list[k]) ELSE f[k - 1]]
           w == CHOOSE f : Q(f)
<1>1. list \in Seq(Node) /\ ToSet(list) = Elements(c) /\ T \subseteq ToSet(list)
  BY DEF MapOK
<1>2. \A f : IsSieve(f, list, T) <=> Q(f)
  <2>1. \A k \in 0..Len(list) : k # 0 => (list[k] \in T <=> c.parent[list[k]] = p)
    BY <1>1, SeenTurns
  <2> HIDE DEF T, list
  <2> QED
    BY <2>1 DEF IsSieve
<1>3. \E f : Q(f)
  <2> HIDE DEF Q
  <2> QED
    BY <1>1, <1>2, SieveExists
<1>4. IsSieve(w, list, T)
  <2> HIDE DEF Q
  <2> QED
    BY <1>2, <1>3
<1>5. Spectral!ChildList(c, p) = w[Len(list)]
  BY DEF Spectral!ChildList, Spectral!Those, Spectral!InTurn
<1> HIDE DEF w, list, T
<1> QED
  <2>1. Sublist(w[Len(list)], list, T)
    BY <1>1, <1>4, SieveIsSublist
  <2> QED
    BY <2>1, <1>5 DEF list, T

\* The elements are a forest.
LEMMA MapForest ==
  ASSUME NEW c, MapOK(c)
  PROVE  /\ \E h : Forest(Elements(c), Kids(c), c.parent, h)
         /\ \A n \in Elements(c) : /\ Kids(c)[n] = Spectral!ChildList(c, n)
                                   /\ c.parent[n] \in Elements(c) => n \in ToSet(Kids(c)[c.parent[n]])
<1> DEFINE D == Elements(c)
<1>1. \A n \in D : Kids(c)[n] = Spectral!ChildList(c, n)
  BY DEF Kids
<1>2. ASSUME NEW n \in D
      PROVE  Kids(c)[n] \in Seq(D) /\ ToSet(Kids(c)[n]) = {k \in D : c.parent[k] = n} /\ IsInjective(Kids(c)[n])
  <2> DEFINE T == {k \in D : c.parent[k] = n}
  <2>1. Sublist(Kids(c)[n], c.nodes, T)
    BY <1>1, ChildListIsSublist
  <2>2. IsInjective(c.nodes) /\ T \subseteq D
    BY DEF MapOK
  <2> HIDE DEF T, D
  <2>3. Kids(c)[n] \in Seq(T) /\ ToSet(Kids(c)[n]) = T /\ IsInjective(Kids(c)[n])
    BY <2>1, <2>2 DEF Sublist
  <2> QED
    BY <2>2, <2>3, WiderSeq DEF T
<1>3. PICK h : IsHeight(h, D, c.parent)
  BY HeightExists DEF MapOK
<1>4. WellFounded(D, c.parent) /\ Kids(c) = [n \in D |-> Kids(c)[n]]
  BY DEF MapOK, Kids
<1> HIDE DEF D
<1>5. Kids(c) \in [D -> Seq(D)]
  BY <1>2, <1>4
<1>6. ASSUME NEW n \in D, NEW k \in ToSet(Kids(c)[n]) PROVE c.parent[k] = n /\ h[k] < h[n]
  BY <1>2, <1>3 DEF IsHeight
<1>7. h \in [D -> Nat]
  BY <1>3 DEF IsHeight
<1>8. Forest(D, Kids(c), c.parent, h)
  BY <1>2, <1>4, <1>5, <1>6, <1>7 DEF Forest
<1>9. \A n \in D : c.parent[n] \in D => n \in ToSet(Kids(c)[c.parent[n]])
  BY <1>2
<1> QED
  BY <1>1, <1>8, <1>9 DEF D

\* Around a node are its compound and what is around that.
LEMMA AncestorsRule ==
  ASSUME NEW c, MapOK(c)
  PROVE  \A n \in Elements(c) :
            Spectral!Ancestors(c, n) =
              IF c.parent[n] = Null THEN {} ELSE {c.parent[n]} \cup Spectral!Ancestors(c, c.parent[n])
<1> DEFINE D == Elements(c)
           V == SUBSET D
           Q(f) == f = [k \in D |-> IF c.parent[k] = Null THEN {} ELSE {c.parent[k]} \cup f[c.parent[k]]]
           F == [f \in [D -> V] |-> [k \in D |-> IF c.parent[k] = Null THEN {} ELSE {c.parent[k]} \cup f[c.parent[k]]]]
           w == CHOOSE f : Q(f)
<1>1. WellFounded(D, c.parent) /\ IsFiniteSet(D) /\ Null \notin D /\ \A n \in D : c.parent[n] \in D \cup {Null}
  BY DEF MapOK
<1>2. PICK d : IsDepth(d, D, c.parent)
  BY <1>1, DepthExists
<1>3. \A k \in D : c.parent[k] # Null => c.parent[k] \in D /\ d[c.parent[k]] < d[k]
  BY <1>1, <1>2 DEF IsDepth
<1>4. OnLower(F, D, V, d)
  <2>1. d \in [D -> Nat] /\ V # {}
    BY <1>2 DEF IsDepth
  <2>2. F \in [[D -> V] -> [D -> V]]
    <3> SUFFICES ASSUME NEW f \in [D -> V], NEW k \in D
                 PROVE  (IF c.parent[k] = Null THEN {} ELSE {c.parent[k]} \cup f[c.parent[k]]) \in V
      OBVIOUS
    <3> QED
      BY <1>3
  <2>3. ASSUME NEW f \in [D -> V], NEW g \in [D -> V], NEW n \in D,
               \A k \in D : d[k] < d[n] => f[k] = g[k]
        PROVE  F[f][n] = F[g][n]
    BY <1>3, <2>3
  <2> HIDE DEF F, V
  <2> QED
    BY <2>1, <2>2, <2>3 DEF OnLower
<1>5. \E f : Q(f)
  <2>1. PICK f : f \in [D -> V] /\ f = F[f]
    <3> HIDE DEF F, V, D
    <3> QED
      BY <1>4, TreeRecursion
  <2>2. F[f] = [k \in D |-> IF c.parent[k] = Null THEN {} ELSE {c.parent[k]} \cup f[c.parent[k]]]
    <3> HIDE DEF V
    <3> QED
      BY <2>1
  <2> QED
    BY <2>1, <2>2
<1>6. Q(w)
  <2> HIDE DEF Q
  <2> QED
    BY <1>5
<1>7. \A n \in D : Spectral!Ancestors(c, n) = w[n]
  BY DEF Spectral!Ancestors, Elements
<1>8. \A n \in D : w[n] = IF c.parent[n] = Null THEN {} ELSE {c.parent[n]} \cup w[c.parent[n]]
  <2> HIDE DEF w
  <2> QED
    BY <1>6
<1> HIDE DEF w
<1> QED
  BY <1>3, <1>7, <1>8

\* The topmost nodes are those without a compound.
LEMMA TopMostNodes ==
  ASSUME NEW c, MapOK(c)
  PROVE  Spectral!TopMost(c, Elements(c)) = {n \in Elements(c) : c.parent[n] \notin Elements(c)}
<1> DEFINE D == Elements(c)
<1>1. Null \notin D /\ \A n \in D : c.parent[n] \in D \cup {Null}
  BY DEF MapOK
<1> HIDE DEF D
<1>2. \A n \in D : Spectral!Ancestors(c, n) \cap D = {} <=> c.parent[n] \notin D
  <2> SUFFICES ASSUME NEW n \in D
               PROVE  Spectral!Ancestors(c, n) \cap D = {} <=> c.parent[n] \notin D
    OBVIOUS
  <2>0. Spectral!Ancestors(c, n) =
          IF c.parent[n] = Null THEN {} ELSE {c.parent[n]} \cup Spectral!Ancestors(c, c.parent[n])
    BY AncestorsRule DEF D
  <2>1. CASE c.parent[n] = Null
    <3>1. Spectral!Ancestors(c, n) = {} /\ c.parent[n] \notin D
      BY <2>0, <2>1, <1>1
    <3> QED
      BY <3>1
  <2>2. CASE c.parent[n] # Null
    <3>1. c.parent[n] \in D
      BY <2>2, <1>1
    <3>2. c.parent[n] \in Spectral!Ancestors(c, n)
      BY <2>0, <2>2
    <3> QED
      BY <3>1, <3>2
  <2> QED
    BY <2>1, <2>2
<1> QED
  BY <1>2 DEF Spectral!TopMost, D

LEMMA PreorderFacts ==
  ASSUME NEW c, MapOK(c)
  PROVE  Whole(Preorder(c), Elements(c), c.parent, {Null})
<1> DEFINE D == Elements(c)
           kids == Kids(c)
           Q(f) == f = [n \in D |-> <<n>> \o FlattenSeq([i \in DOMAIN Spectral!ChildList(c, n) |->
                                                           f[Spectral!ChildList(c, n)[i]]])]
           w == CHOOSE f : Q(f)
           T == {n \in D : c.parent[n] \notin D}
           R(f) == f = [k \in 0..Len(c.nodes) |-> IF k = 0 THEN <<>> ELSE
                          IF c.nodes[k] \in Spectral!TopMost(c, Spectral!NodesOf(c))
                          THEN Append(f[k - 1], c.nodes[k]) ELSE f[k - 1]]
           v == CHOOSE f : R(f)
           tops == v[Len(c.nodes)]
           ss == [i \in DOMAIN tops |-> w[tops[i]]]
<1>1. PICK h : Forest(D, kids, c.parent, h)
  BY MapForest
<1>2. \A n \in D : kids[n] = Spectral!ChildList(c, n)
  BY MapForest
<1>3. \A f : Q(f) <=> IsPreWalk(f, D, kids)
  <2> HIDE DEF D, kids
  <2> QED
    BY <1>2 DEF IsPreWalk
<1>4. IsPreWalk(w, D, kids)
  <2>1. \E f : Q(f)
    <3> HIDE DEF Q, D, kids
    <3> QED
      BY <1>1, <1>3, PreWalkExists
  <2>2. Q(w)
    <3> HIDE DEF Q
    <3> QED
      BY <2>1
  <2> QED
    BY <2>2, <1>3
<1>5. c.nodes \in Seq(Node) /\ IsInjective(c.nodes) /\ ToSet(c.nodes) = D /\ T \subseteq ToSet(c.nodes)
  BY DEF MapOK
<1>6. Spectral!TopMost(c, Spectral!NodesOf(c)) = T
  BY TopMostNodes DEF Elements
<1>7. IsSieve(v, c.nodes, T)
  <2>1. \A f : IsSieve(f, c.nodes, T) <=> R(f)
    <3> HIDE DEF T
    <3> QED
      BY <1>6 DEF IsSieve
  <2>2. \E f : R(f)
    <3> HIDE DEF R, T
    <3> QED
      BY <2>1, <1>5, SieveExists
  <2>3. R(v)
    <3> HIDE DEF R
    <3> QED
      BY <2>2
  <2> QED
    BY <2>1, <2>3
<1>8. Tops(tops, D, c.parent)
  <2> HIDE DEF v, T
  <2>1. Sublist(tops, c.nodes, T)
    BY <1>5, <1>7, SieveIsSublist
  <2>2. tops \in Seq(T) /\ ToSet(tops) = T /\ IsInjective(tops)
    BY <2>1, <1>5 DEF Sublist
  <2>3. tops \in Seq(D)
    BY <2>2, WiderSeq DEF T
  <2> QED
    BY <2>2, <2>3 DEF Tops, T
<1>9. Preorder(c) = FlattenSeq(ss)
  BY DEF Preorder, Those, InTurn, Elements
<1>10. ss = [i \in DOMAIN tops |-> w[tops[i]]]
  OBVIOUS
<1>11. \A n \in D : c.parent[n] \in D => n \in ToSet(kids[c.parent[n]])
  BY MapForest
<1>12. \A t \in ToSet(tops) : c.parent[t] \in {Null}
  <2>1. \A n \in D : c.parent[n] \in D \cup {Null}
    BY DEF MapOK
  <2> HIDE DEF tops
  <2> QED
    BY <1>8, <2>1 DEF Tops
<1> HIDE DEF ss, tops, w, kids, D
<1>13. Whole(FlattenSeq(ss), D, c.parent, {Null})
  BY <1>1, <1>4, <1>8, <1>10, <1>11, <1>12, WholeWalk
<1> QED
  BY <1>9, <1>13 DEF D

(***************************************************************************)
(* processChildrenList: every node is put into the graph of its compound,  *)
(* which is there already.                                                 *)
(***************************************************************************)
Home(c, n) == IF c.parent[n] = Null THEN RootNode ELSE c.parent[n]

\* What a manager knows once the nodes of the set V have been dealt with.
Built(c, a, V) ==
  /\ Good(a) /\ Live(a) = V /\ Known(a) = {} /\ NoCaches(a)
  /\ Graphs(a) = {RootNode} \cup {p \in V : Spectral!IsParent(c, p)}
  /\ \A n \in Node : a.owner[n] = IF n \in V THEN Home(c, n) ELSE Null

LEMMA ProcessChildStep ==
  ASSUME NEW c, MapOK(c), NEW V, V \subseteq Elements(c), NEW a, Built(c, a, V),
         NEW n, n \in Elements(c), n \notin V, c.parent[n] \in V \cup {Null}
  PROVE  Built(c, ProcessChild(c, a, n), V \cup {n})
<1> DEFINE G == Home(c, n)
           b == AddNode(a, G, n)
           r == ProcessChild(c, a, n)
<1>1. /\ Good(a) /\ Live(a) = V /\ Known(a) = {} /\ NoCaches(a)
      /\ Graphs(a) = {RootNode} \cup {p \in V : Spectral!IsParent(c, p)}
      /\ \A k \in Node : a.owner[k] = IF k \in V THEN Home(c, k) ELSE Null
  BY DEF Built
<1>2. n \in Node /\ n # RootNode /\ V \subseteq Node /\ RootNode \notin V /\ a.root = RootNode
  BY <1>1, LiveFacts DEF MapOK
<1>3. G \in Graphs(a)
  <2>1. c.parent[n] # Null => Spectral!IsParent(c, c.parent[n])
    BY DEF Spectral!IsParent, Elements
  <2> QED
    BY <2>1, <1>1 DEF Home
<1>4. r = IF Spectral!IsParent(c, n) THEN AddGraph(b, n) ELSE b
  BY <1>2 DEF ProcessChild, Home
<1> HIDE DEF G, r
<1>5. /\ Good(b) /\ Live(b) = V \cup {n} /\ Known(b) = {} /\ NoCaches(b) /\ Graphs(b) = Graphs(a)
      /\ b.owner = [a.owner EXCEPT ![n] = G]
  <2>1. b = AddNode(a, G, n)
    OBVIOUS
  <2> HIDE DEF b
  <2>2. Entered(a, b, G, n)
    BY <2>1, <1>1, <1>2, <1>3, AddNodeGood
  <2> QED
    BY <2>2, <1>1 DEF Entered, SameCaches, NoCaches
<1>6. \A k \in Node : b.owner[k] = IF k \in V \cup {n} THEN Home(c, k) ELSE Null
  <2>1. a.owner \in [Node -> Maybe(Node)]
    BY <1>1, FieldTypes DEF Good
  <2> HIDE DEF b
  <2> QED
    BY <2>1, <1>1, <1>2, <1>5 DEF G
<1> HIDE DEF b
<1>7. CASE ~Spectral!IsParent(c, n)
  <2>1. r = b
    BY <1>4, <1>7
  <2>2. {p \in V \cup {n} : Spectral!IsParent(c, p)} = {p \in V : Spectral!IsParent(c, p)}
    BY <1>7
  <2>3. Built(c, b, V \cup {n})
    BY <2>2, <1>1, <1>5, <1>6 DEF Built
  <2> QED
    BY <2>1, <2>3 DEF r
<1>8. CASE Spectral!IsParent(c, n)
  <2>1. r = AddGraph(b, n) /\ n \notin Graphs(b)
    BY <1>1, <1>2, <1>4, <1>5, <1>8
  <2>2. Opened(b, r, n)
    BY <2>1, <1>2, <1>5, AddGraphGood
  <2>3. {p \in V \cup {n} : Spectral!IsParent(c, p)} = {p \in V : Spectral!IsParent(c, p)} \cup {n}
    BY <1>8
  <2>4. Built(c, r, V \cup {n})
    BY <2>2, <2>3, <1>1, <1>5, <1>6 DEF Opened, Built, SameCaches, NoCaches
  <2> QED
    BY <2>4 DEF r
<1> QED
  BY <1>7, <1>8

ChildrenAdded(c) ==
  InTurn(LAMBDA a, n : ProcessChild(c, a, n), AddRoot(NewManager), Preorder(c))

LEMMA ChildrenAreAdded ==
  ASSUME NEW c, MapOK(c)
  PROVE  Built(c, ChildrenAdded(c), Elements(c))
<1> DEFINE list == Preorder(c)
           N == Len(list)
           I == [k \in 0..N |-> {a \in Managers : Built(c, a, Seen(list, k))}]
           Q(f) == f = [k \in 0..N |-> IF k = 0 THEN AddRoot(NewManager) ELSE ProcessChild(c, f[k - 1], list[k])]
           w == CHOOSE f : Q(f)
<1>1. list \in Seq(Elements(c)) /\ IsInjective(list) /\ ToSet(list) = Elements(c) /\ UpFirst(list, c.parent, {Null})
  BY PreorderFacts DEF Whole
<1> HIDE DEF list
<1>2. N \in Nat /\ DOMAIN list = 1..N
  BY <1>1, Members
<1>3. AddRoot(NewManager) \in I[0]
  <2>1. Root(AddRoot(NewManager)) /\ 0 \in 0..N
    BY <1>2, AddRootGood
  <2>2. Seen(list, 0) = {}
    BY SeenTurns, <1>1
  <2>3. Built(c, AddRoot(NewManager), Seen(list, 0))
    BY <2>1, <2>2 DEF Root, Built
  <2> QED
    BY <2>1, <2>3 DEF Root, Good
<1>4. ASSUME NEW k \in 1..N, NEW a \in I[k - 1] PROVE ProcessChild(c, a, list[k]) \in I[k]
  <2>1. k \in 0..N /\ k - 1 \in 0..N
    BY <1>2
  <2>2. Built(c, a, Seen(list, k - 1))
    BY <2>1
  <2> HIDE DEF I, Q, w
  <2>3. /\ Seen(list, k) = Seen(list, k - 1) \cup {list[k]} /\ list[k] \notin Seen(list, k - 1)
        /\ list[k] \in Elements(c)
    BY <1>1, SeenTurns
  <2>4. Seen(list, k - 1) \subseteq Elements(c)
    BY <1>1, <2>1, SeenTurns
  <2>5. c.parent[list[k]] \in Seen(list, k - 1) \cup {Null}
    <3>1. c.parent[list[k]] \in {Null} \/ \E i \in 1..(k - 1) : list[i] = c.parent[list[k]]
      BY <1>1, <1>2 DEF UpFirst
    <3> QED
      BY <3>1 DEF Seen
  <2>6. Built(c, ProcessChild(c, a, list[k]), Seen(list, k))
    BY <2>2, <2>3, <2>4, <2>5, ProcessChildStep
  <2> QED
    BY <2>1, <2>6 DEF I, Built, Good
<1>5. \E f : Q(f)
  <2> DEFINE X == UNION {I[k] : k \in 0..N}
             F == [p \in X \X (1..N) |-> ProcessChild(c, p[1], list[p[2]])]
  <2>1. \A k \in 1..N : \A a \in I[k - 1] : F[<<a, k>>] = ProcessChild(c, a, list[k])
    <3> SUFFICES ASSUME NEW k \in 1..N, NEW a \in I[k - 1] PROVE F[<<a, k>>] = ProcessChild(c, a, list[k])
      OBVIOUS
    <3>1. k - 1 \in 0..N
      BY <1>2
    <3> HIDE DEF I
    <3>2. a \in X
      BY <3>1
    <3> HIDE DEF X
    <3> QED
      BY <3>2
  <2> HIDE DEF I, F
  <2>2. \A k \in 1..N : \A a \in I[k - 1] : F[<<a, k>>] \in I[k]
    BY <2>1, <1>4
  <2>3. PICK g : IsRun(g, N, AddRoot(NewManager), F, I)
    BY <1>2, <1>3, <2>2, RunExists
  <2>4. /\ g = [k \in 0..N |-> g[k]] /\ g[0] = AddRoot(NewManager)
        /\ \A k \in 1..N : g[k] = F[<<g[k - 1], k>>]
        /\ \A k \in 0..N : g[k] \in I[k]
    BY <2>3 DEF IsRun
  <2>5. ASSUME NEW k \in 1..N PROVE g[k] = ProcessChild(c, g[k - 1], list[k])
    <3>1. k - 1 \in 0..N
      BY <1>2
    <3> QED
      BY <3>1, <2>1, <2>4
  <2>6. ASSUME NEW k \in 0..N PROVE g[k] = IF k = 0 THEN AddRoot(NewManager) ELSE ProcessChild(c, g[k - 1], list[k])
    <3>1. k = 0 \/ k \in 1..N
      BY <1>2
    <3> QED
      BY <2>4, <2>5, <3>1
  <2>7. Q(g)
    <3> HIDE DEF N
    <3> QED
      BY <2>4, <2>6
  <2> QED
    BY <2>7
<1>6. Q(w)
  <2> HIDE DEF Q
  <2> QED
    BY <1>5
<1>7. w[N] \in I[N]
  <2> HIDE DEF w
  <2>1. w[0] = AddRoot(NewManager) /\ \A k \in 1..N : w[k] = ProcessChild(c, w[k - 1], list[k])
    BY <1>2, <1>6
  <2> HIDE DEF I, Q
  <2> QED
    BY <1>2, <1>3, <1>4, <2>1, Turns

<1>8. ChildrenAdded(c) = w[N]
  BY DEF ChildrenAdded, InTurn, list
<1>9. N \in 0..N /\ Seen(list, N) = ToSet(list)
  BY <1>1, <1>2, SeenTurns
<1> HIDE DEF w
<1> QED
  BY <1>1, <1>7, <1>8, <1>9

(***************************************************************************)
(* processEdges.                                                           *)
(***************************************************************************)
Placed(c, a) ==
  /\ Good(a) /\ Live(a) = Elements(c) /\ NoCaches(a)
  /\ Graphs(a) = {RootNode} \cup {p \in Elements(c) : Spectral!IsParent(c, p)}
  /\ \A n \in Node : a.owner[n] = IF n \in Elements(c) THEN Home(c, n) ELSE Null

LEMMA ProcessEdgeStep ==
  ASSUME NEW c, MapOK(c), NEW a, Placed(c, a), NEW e, e \in ToSet(c.edges), e \notin Known(a),
         NEW r, r = ProcessEdge(c, a, e)
  PROVE  Placed(c, r) /\ Known(r) \subseteq Known(a) \cup {e}
<1> DEFINE s == c.ends[e][1]
           t == c.ends[e][2]
<1>1. e \in Edge /\ s \in Elements(c) /\ t \in Elements(c)
  BY Members DEF MapOK
<1>2. r = IF s # t /\ EdgesBetween(a, s, t) = {} THEN AddEdge(a, e, s, t) ELSE a
  BY DEF ProcessEdge
<1> HIDE DEF s, t
<1>3. Good(a) /\ Live(a) = Elements(c)
  BY DEF Placed
<1>4. CASE s # t /\ EdgesBetween(a, s, t) = {}
  <2>1. r = AddEdge(a, e, s, t)
    BY <1>2, <1>4
  <2>2. EdgeAdded(a, r, e, s, t)
    BY <2>1, <1>1, <1>3, <1>4, AddEdgeGood
  <2>3. Live(r) = Live(a) /\ Graphs(r) = Graphs(a) /\ r.owner = a.owner
    BY <2>2 DEF EdgeAdded, SameTree, SameGraphs, Live, Graphs
  <2> QED
    BY <2>2, <2>3 DEF Placed, EdgeAdded, NoCaches, SameCaches
<1>5. CASE ~(s # t /\ EdgesBetween(a, s, t) = {})
  BY <1>2, <1>5
<1> QED
  BY <1>4, <1>5

\* processChildrenList and processEdges turn every map into a compound graph
\* that has each of its nodes, in the compound the map has it in.
THEOREM TransferredIsPlaced ==
  ASSUME NEW c, MapOK(c)
  PROVE  Placed(c, Transferred(c))
<1> DEFINE base == ChildrenAdded(c)
           list == c.edges
           N == Len(list)
           I == [k \in 0..N |-> {a \in Managers : Placed(c, a) /\ Known(a) \subseteq Seen(list, k)}]
           Q(f) == f = [k \in 0..N |-> IF k = 0 THEN base ELSE ProcessEdge(c, f[k - 1], list[k])]
           w == CHOOSE f : Q(f)
<1>0. Built(c, base, Elements(c))
  BY ChildrenAreAdded
<1>1. Transferred(c) = InTurn(LAMBDA a, e : ProcessEdge(c, a, e), base, list)
  BY DEF Transferred, ChildrenAdded
<1>2. list \in Seq(Edge) /\ IsInjective(list) /\ N \in Nat
  <2>1. list \in Seq(Edge) /\ IsInjective(list)
    BY DEF MapOK
  <2> QED
    BY <2>1, Members
<1> HIDE DEF base
<1>3. base \in I[0]
  <2>1. Placed(c, base) /\ Known(base) = {} /\ base \in Managers
    BY <1>0 DEF Built, Placed, Good
  <2> QED
    BY <2>1, <1>2
<1>4. ASSUME NEW k \in 1..N, NEW a \in I[k - 1] PROVE ProcessEdge(c, a, list[k]) \in I[k]
  <2> DEFINE r == ProcessEdge(c, a, list[k])
  <2>1. k \in 0..N /\ k - 1 \in 0..N
    BY <1>2
  <2>2. Placed(c, a) /\ Known(a) \subseteq Seen(list, k - 1)
    BY <2>1
  <2> HIDE DEF I, Q, w
  <2>3. /\ Seen(list, k) = Seen(list, k - 1) \cup {list[k]} /\ list[k] \notin Seen(list, k - 1)
        /\ list[k] \in ToSet(list)
    BY <1>2, SeenTurns
  <2>4. Placed(c, r) /\ Known(r) \subseteq Known(a) \cup {list[k]}
    BY <2>2, <2>3, ProcessEdgeStep
  <2> HIDE DEF r
  <2>5. Placed(c, r) /\ Known(r) \subseteq Seen(list, k) /\ r \in Managers
    BY <2>2, <2>3, <2>4 DEF Placed, Good
  <2> QED
    BY <2>1, <2>5 DEF I, r
<1>5. \E f : Q(f)
  <2> DEFINE X == UNION {I[k] : k \in 0..N}
             F == [p \in X \X (1..N) |-> ProcessEdge(c, p[1], list[p[2]])]
  <2>1. \A k \in 1..N : \A a \in I[k - 1] : F[<<a, k>>] = ProcessEdge(c, a, list[k])
    <3> SUFFICES ASSUME NEW k \in 1..N, NEW a \in I[k - 1] PROVE F[<<a, k>>] = ProcessEdge(c, a, list[k])
      OBVIOUS
    <3>1. k - 1 \in 0..N
      BY <1>2
    <3> HIDE DEF I
    <3>2. a \in X
      BY <3>1
    <3> HIDE DEF X
    <3> QED
      BY <3>2
  <2> HIDE DEF I, F
  <2>2. \A k \in 1..N : \A a \in I[k - 1] : F[<<a, k>>] \in I[k]
    BY <2>1, <1>4
  <2>3. PICK g : IsRun(g, N, base, F, I)
    BY <1>2, <1>3, <2>2, RunExists
  <2>4. /\ g = [k \in 0..N |-> g[k]] /\ g[0] = base
        /\ \A k \in 1..N : g[k] = F[<<g[k - 1], k>>]
        /\ \A k \in 0..N : g[k] \in I[k]
    BY <2>3 DEF IsRun
  <2>5. ASSUME NEW k \in 1..N PROVE g[k] = ProcessEdge(c, g[k - 1], list[k])
    <3>1. k - 1 \in 0..N
      BY <1>2
    <3> QED
      BY <3>1, <2>1, <2>4
  <2>6. ASSUME NEW k \in 0..N PROVE g[k] = IF k = 0 THEN base ELSE ProcessEdge(c, g[k - 1], list[k])
    <3>1. k = 0 \/ k \in 1..N
      BY <1>2
    <3> QED
      BY <2>4, <2>5, <3>1
  <2>7. Q(g)
    <3> HIDE DEF N
    <3> QED
      BY <2>4, <2>6
  <2> QED
    BY <2>7
<1>6. Q(w)
  <2> HIDE DEF Q
  <2> QED
    BY <1>5
<1>7. w[N] \in I[N]
  <2> HIDE DEF w
  <2>1. w[0] = base /\ \A k \in 1..N : w[k] = ProcessEdge(c, w[k - 1], list[k])
    BY <1>2, <1>6
  <2> HIDE DEF I, Q
  <2> QED
    BY <1>2, <1>3, <1>4, <2>1, Turns

<1>8. Transferred(c) = w[N]
  BY <1>1 DEF InTurn
<1>9. N \in 0..N
  BY <1>2
<1> HIDE DEF w
<1> QED
  BY <1>7, <1>8, <1>9

\* The elements are one tree below the root, and something is in it.
LEMMA PlacedTree ==
  ASSUME NEW c, MapOK(c), c.nodes # <<>>, NEW a, Placed(c, a)
  PROVE  /\ Good(a) /\ Ranked(a) /\ Rooted(a) /\ Filled(a) /\ NoCaches(a)
         /\ Live(a) = Elements(c) /\ \A n \in Elements(c) : a.owner[n] # Null
<1> DEFINE D == Elements(c)
           up == Up(a)
<1>1. /\ Good(a) /\ Live(a) = D /\ NoCaches(a) /\ D \subseteq Node /\ RootNode \notin D /\ Null \notin D
      /\ \A n \in Node : a.owner[n] = IF n \in D THEN Home(c, n) ELSE Null
      /\ Graphs(a) = {RootNode} \cup {p \in D : Spectral!IsParent(c, p)}
      /\ WellFounded(D, c.parent) /\ \A n \in D : c.parent[n] \in D \cup {Null}
  BY DEF Placed, MapOK
<1>2. RootNode \in Node /\ Null \notin Node
  BY NodeAssumption
<1>3. \A n \in Node : up[n] = IF n \in D THEN Home(c, n) ELSE Null
  <2> SUFFICES ASSUME NEW n \in Node PROVE up[n] = IF n \in D THEN Home(c, n) ELSE Null
    OBVIOUS
  <2>1. up[n] = ParentOf(a, n)
    BY DEF Up
  <2>2. CASE n \in D
    <3>1. ParentOf(a, n) = a.owner[n]
      BY <2>2, <1>1, LiveFacts
    <3> QED
      BY <2>1, <2>2, <3>1, <1>1
  <2>3. CASE n \notin D
    <3>1. a.owner[n] = Null
      BY <2>3, <1>1
    <3> QED
      BY <2>1, <2>3, <3>1 DEF ParentOf
  <2> QED
    BY <2>2, <2>3
<1> HIDE DEF up, D
<1>4. ASSUME NEW S \in SUBSET Node, S # {} PROVE \E n \in S : up[n] \notin S
  <2>1. CASE S \cap D = {}
    <3>1. PICK n \in S : n \notin D
      BY <2>1, <1>4
    <3> QED
      BY <3>1, <1>2, <1>3
  <2>2. CASE S \cap D # {}
    <3>1. S \cap D \in SUBSET D
      OBVIOUS
    <3>2. PICK n \in S \cap D : c.parent[n] \notin S \cap D
      BY <2>2, <3>1, <1>1 DEF WellFounded
    <3>3. CASE c.parent[n] = Null
      <4>1. up[n] = RootNode
        BY <3>2, <3>3, <1>3 DEF Home
      <4>2. RootNode \in S => up[RootNode] \notin S
        BY <1>1, <1>2, <1>3
      <4> QED
        BY <3>2, <4>1, <4>2
    <3>4. CASE c.parent[n] # Null
      <4>1. up[n] = c.parent[n] /\ c.parent[n] \in D
        BY <3>2, <3>4, <1>1, <1>3 DEF Home
      <4> QED
        BY <3>2, <4>1
    <3> QED
      BY <3>3, <3>4
  <2> QED
    BY <2>1, <2>2
<1>5. Ranked(a)
  BY <1>4 DEF Ranked, WellFounded, up
<1>6. Rooted(a)
  BY <1>1 DEF Rooted
<1>7. \A n \in D : a.owner[n] # Null
  BY <1>1, <1>2 DEF Home
<1>8. Filled(a)
  <2>1. D # {} /\ D \in SUBSET D
    BY Members DEF MapOK, D
  <2>2. PICK n \in D : c.parent[n] \notin D
    BY <2>1, <1>1 DEF WellFounded
  <2>3. a.owner[n] = RootNode /\ n \in Live(a)
    BY <2>2, <1>1 DEF Home
  <2>4. RootNode \in Node /\ n \in ToSet(a.nodes[RootNode])
    BY <2>3, <1>1, <1>2, LiveFacts
  <2>5. a.nodes[RootNode] \in Seq(Node)
    BY <1>1, <1>2, GoodLists DEF Good
  <2> QED
    BY <2>4, <2>5, Members DEF Filled
<1> QED
  BY <1>1, <1>5, <1>6, <1>7, <1>8 DEF D

(***************************************************************************)
(* A manager as a forest: what is in a node, and what is around it.        *)
(***************************************************************************)
\* A node whose edges all run from a node to itself has none.
LEMMA NoDegree ==
  ASSUME NEW a, Good(a), NEW n, n \in Node, ~HasDegree(a, n)
  PROVE  ToSet(a.inc[n]) = {}
<1> SUFFICES ASSUME NEW e \in ToSet(a.inc[n]) PROVE FALSE
  OBVIOUS
<1>1. e \in Known(a)
  BY IncFacts
<1>2. a.source[e] # a.target[e]
  BY <1>1, EdgeFacts
<1> QED
  BY <1>2 DEF HasDegree

LEMMA LooseWithChildren ==
  ASSUME NEW a, Good(a), Ranked(a), NEW n, n \in Node, ~HasDegreeWithChildren(a, n)
  PROVE  ToSet(a.inc[n]) = {}
<1>1. PICK b : IsBelow(b, Node, KidsOf(a)) /\ \A k \in Node : WithChildren(a, k) = b[k]
  BY WithChildrenBelow
<1>2. n \in WithChildren(a, n)
  BY <1>1 DEF IsBelow
<1> QED
  BY <1>2, NoDegree DEF HasDegreeWithChildren

(***************************************************************************)
(* groupZeroDegreeMembers: which nodes go into which dummy.                *)
(***************************************************************************)
Zero(a, n) ==
  ~HasDegreeWithChildren(a, n) /\ (ParentOf(a, n) = RootNode \/ ~ToBeTiled(a, ParentOf(a, n)))

LEMMA ZeroDegreeIsSublist ==
  ASSUME NEW a, AllNodes(a) \in Seq(Node)
  PROVE  Sublist(ZeroDegree(a), AllNodes(a), {n \in ToSet(AllNodes(a)) : Zero(a, n)})
<1>0. AllNodes(a) \in Seq(Node)
  OBVIOUS
<1> DEFINE list == AllNodes(a)
           T == {n \in ToSet(list) : Zero(a, n)}
           Q(f) == f = [k \in 0..Len(list) |-> IF k = 0 THEN <<>> ELSE
                          IF Zero(a, list[k]) THEN Append(f[k - 1], list[k]) ELSE f[k - 1]]
           w == CHOOSE f : Q(f)
<1>1. list \in Seq(Node) /\ T \subseteq ToSet(list)
  BY <1>0
<1>2. \A f : IsSieve(f, list, T) <=> Q(f)
  <2>0. list \in Seq(Node)
    BY <1>1
  <2> HIDE DEF list
  <2>1. \A k \in 0..Len(list) : k # 0 => (list[k] \in T <=> (Zero(a, list[k])))
    BY <2>0, SeenTurns
  <2> HIDE DEF T
  <2> QED
    BY <2>1 DEF IsSieve
<1>3. \E f : Q(f)
  <2> HIDE DEF Q, T, list
  <2> QED
    BY <1>1, <1>2, SieveExists
<1>4. IsSieve(w, list, T)
  <2> HIDE DEF Q
  <2> QED
    BY <1>2, <1>3
<1>5. ZeroDegree(a) = w[Len(list)]
  BY DEF ZeroDegree, Those, InTurn, Zero
<1> HIDE DEF w, list, T
<1> QED
  <2>1. Sublist(w[Len(list)], list, T)
    BY <1>1, <1>4, SieveIsSublist
  <2> QED
    BY <2>1, <1>5 DEF list, T

InGroup(zero, a, p) == Those(zero, LAMBDA n : ParentOf(a, n) = p)

LEMMA GroupIsSublist ==
  ASSUME NEW a, NEW zero, zero \in Seq(Node), NEW p
  PROVE  Sublist(InGroup(zero, a, p), zero, {n \in ToSet(zero) : ParentOf(a, n) = p})
<1>0. zero \in Seq(Node)
  OBVIOUS
<1> DEFINE list == zero
           T == {n \in ToSet(list) : ParentOf(a, n) = p}
           Q(f) == f = [k \in 0..Len(list) |-> IF k = 0 THEN <<>> ELSE
                          IF ParentOf(a, list[k]) = p THEN Append(f[k - 1], list[k]) ELSE f[k - 1]]
           w == CHOOSE f : Q(f)
<1>1. list \in Seq(Node) /\ T \subseteq ToSet(list)
  BY <1>0
<1>2. \A f : IsSieve(f, list, T) <=> Q(f)
  <2>0. list \in Seq(Node)
    BY <1>1
  <2> HIDE DEF list
  <2>1. \A k \in 0..Len(list) : k # 0 => (list[k] \in T <=> (ParentOf(a, list[k]) = p))
    BY <2>0, SeenTurns
  <2> HIDE DEF T
  <2> QED
    BY <2>1 DEF IsSieve
<1>3. \E f : Q(f)
  <2> HIDE DEF Q, T, list
  <2> QED
    BY <1>1, <1>2, SieveExists
<1>4. IsSieve(w, list, T)
  <2> HIDE DEF Q
  <2> QED
    BY <1>2, <1>3
<1>5. InGroup(zero, a, p) = w[Len(list)]
  BY DEF InGroup, Those, InTurn
<1> HIDE DEF w, list, T
<1> QED
  <2>1. Sublist(w[Len(list)], list, T)
    BY <1>1, <1>4, SieveIsSublist
  <2> QED
    BY <2>1, <1>5 DEF list, T

\* The groups of loose nodes, each inside one node.
GroupsOK(a, groups) ==
  /\ DOMAIN groups \subseteq Graphs(a)
  /\ \A p \in DOMAIN groups :
        /\ groups[p] \in Seq(Node) /\ IsInjective(groups[p]) /\ groups[p] # <<>>
        /\ \A n \in ToSet(groups[p]) : n \in Live(a) /\ a.owner[n] = p /\ ToSet(a.inc[n]) = {}

LEMMA GroupsFacts ==
  ASSUME NEW a, Good(a), Ranked(a), a.allNodes = Null
  PROVE  /\ GroupsOK(a, Groups(a))
         /\ \A p \in DOMAIN Groups(a) : \A n \in ToSet(Groups(a)[p]) : ~HasDegreeWithChildren(a, n)
<1> DEFINE zero == ZeroDegree(a)
           list == LiveNodes(a)
           Z == {n \in ToSet(list) : Zero(a, n)}
           P == {q \in {ParentOf(a, n) : n \in ToSet(zero)} : Len(InGroup(zero, a, q)) > 1}
<1>1. AllNodes(a) = list /\ list \in Seq(Node) /\ IsInjective(list) /\ ToSet(list) = Live(a)
  BY LiveLists DEF AllNodes
<1>2. Groups(a) = [p \in P |-> InGroup(zero, a, p)]
  BY DEF Groups, InGroup
<1>3. zero \in Seq(Node) /\ ToSet(zero) = Z /\ IsInjective(zero)
  <2>1. Sublist(zero, list, Z)
    <3>1. AllNodes(a) \in Seq(Node)
      BY <1>1
    <3>2. Sublist(zero, AllNodes(a), {n \in ToSet(AllNodes(a)) : Zero(a, n)})
      BY <3>1, ZeroDegreeIsSublist
    <3> QED
      BY <3>2, <1>1
  <2>2. zero \in Seq(Z) /\ ToSet(zero) = Z /\ IsInjective(zero)
    BY <2>1, <1>1 DEF Sublist
  <2>3. Z \subseteq Node
    BY <1>1, Members
  <2> HIDE DEF Z, zero
  <2> QED
    BY <2>2, <2>3, WiderSeq
<1> HIDE DEF zero
<1>4. \A n \in Z : /\ n \in Live(a) /\ ParentOf(a, n) = a.owner[n] /\ a.owner[n] \in Graphs(a)
                  /\ ToSet(a.inc[n]) = {} /\ ~HasDegreeWithChildren(a, n)
  <2> SUFFICES ASSUME NEW n \in Z
               PROVE  /\ n \in Live(a) /\ ParentOf(a, n) = a.owner[n] /\ a.owner[n] \in Graphs(a)
                      /\ ToSet(a.inc[n]) = {} /\ ~HasDegreeWithChildren(a, n)
    OBVIOUS
  <2>1. n \in Live(a) /\ ~HasDegreeWithChildren(a, n)
    BY <1>1 DEF Zero
  <2>2. n \in Node /\ ParentOf(a, n) = a.owner[n] /\ a.owner[n] \in Graphs(a)
    BY <2>1, LiveFacts
  <2> QED
    BY <2>1, <2>2, LooseWithChildren
<1> HIDE DEF Z
<1>5. ASSUME NEW p \in P
      PROVE  /\ p \in Graphs(a)
             /\ InGroup(zero, a, p) \in Seq(Node) /\ IsInjective(InGroup(zero, a, p)) /\ InGroup(zero, a, p) # <<>>
             /\ \A n \in ToSet(InGroup(zero, a, p)) : /\ n \in Live(a) /\ a.owner[n] = p /\ ToSet(a.inc[n]) = {}
                                                     /\ ~HasDegreeWithChildren(a, n)
  <2> DEFINE g == InGroup(zero, a, p)
             T == {n \in ToSet(zero) : ParentOf(a, n) = p}
  <2>1. p \in Graphs(a)
    BY <1>3, <1>4
  <2>2. Sublist(g, zero, T)
    BY <1>3, GroupIsSublist
  <2>3. g \in Seq(T) /\ ToSet(g) = T /\ IsInjective(g)
    BY <2>2, <1>3 DEF Sublist
  <2>4. T \subseteq Node
    BY <1>3, Members
  <2>5. Len(g) > 1
    OBVIOUS
  <2>6. \A n \in T : n \in Live(a) /\ a.owner[n] = p /\ ToSet(a.inc[n]) = {} /\ ~HasDegreeWithChildren(a, n)
    BY <1>3, <1>4
  <2> HIDE DEF g, T
  <2>7. g \in Seq(Node)
    BY <2>3, <2>4, WiderSeq
  <2>8. g # <<>>
    BY <2>5, NoMembers
  <2> QED
    BY <2>1, <2>3, <2>6, <2>7, <2>8 DEF g
<1> HIDE DEF P
<1>6. DOMAIN Groups(a) = P /\ \A p \in P : Groups(a)[p] = InGroup(zero, a, p)
  BY <1>2
<1>7. DOMAIN Groups(a) \subseteq Graphs(a)
  BY <1>5, <1>6
<1>8. ASSUME NEW p \in DOMAIN Groups(a)
      PROVE  /\ Groups(a)[p] \in Seq(Node) /\ IsInjective(Groups(a)[p]) /\ Groups(a)[p] # <<>>
             /\ \A n \in ToSet(Groups(a)[p]) : /\ n \in Live(a) /\ a.owner[n] = p /\ ToSet(a.inc[n]) = {}
                                               /\ ~HasDegreeWithChildren(a, n)
  <2>1. p \in P /\ Groups(a)[p] = InGroup(zero, a, p)
    BY <1>6
  <2> QED
    BY <2>1, <1>5
<1> QED
  BY <1>7, <1>8 DEF GroupsOK

(***************************************************************************)
(* A group moves into its dummy.                                           *)
(***************************************************************************)
\* b is a with a graph for node d in graph p, and the nodes V of p in that.
Shifted(a, b, p, d, V) ==
  /\ Good(b) /\ Graphs(b) = Graphs(a) \cup {d} /\ Live(b) = Live(a) \cup {d} /\ Known(b) = Known(a)
  /\ SameEnds(a, b) /\ SameCaches(a, b)
  /\ \A n \in Node : b.owner[n] = IF n \in V THEN d ELSE IF n = d THEN p ELSE a.owner[n]

MoveOne(b, p, n) == AddNode(RemoveNode(b, p, n), Dummy(p), n)

LEMMA MoveOneStep ==
  ASSUME NEW a, Good(a), NEW p, NEW d, d = Dummy(p), d \in Node, d \notin Live(a), NEW V, NEW b, Shifted(a, b, p, d, V),
         NEW n, n \in Live(a), n \notin V, a.owner[n] = p, ToSet(a.inc[n]) = {}, p \in Node
  PROVE  Shifted(a, MoveOne(b, p, n), p, d, V \cup {n})
<1> DEFINE u == RemoveNode(b, p, n)
           r == MoveOne(b, p, n)
<1>1. /\ Good(b) /\ Graphs(b) = Graphs(a) \cup {d} /\ Live(b) = Live(a) \cup {d} /\ Known(b) = Known(a)
      /\ SameEnds(a, b) /\ SameCaches(a, b)
      /\ \A k \in Node : b.owner[k] = IF k \in V THEN d ELSE IF k = d THEN p ELSE a.owner[k]
  BY DEF Shifted
<1>2. n \in Node /\ n # d /\ n # RootNode /\ n \in Live(b) /\ b.owner[n] = p
  BY <1>1, LiveFacts
<1>3. ToSet(b.inc[n]) = {}
  BY <1>1, <1>2, SameIncident
<1>4. NodeRemoved(b, u, n, {})
  <2>1. u = RemoveNode(b, p, n) /\ p = b.owner[n]
    BY <1>2
  <2> HIDE DEF u
  <2>2. NodeRemoved(b, u, n, ToSet(b.inc[n]))
    BY <2>1, <1>1, <1>2, RemoveNodeGood
  <2> QED
    BY <2>2, <1>3
<1>5. r = AddNode(u, d, n)
  BY DEF MoveOne
<1> HIDE DEF u, r
<1>6. /\ Good(u) /\ Live(u) = Live(b) \ {n} /\ Known(u) = Known(b) /\ u.owner = b.owner
      /\ Graphs(u) = Graphs(b) /\ SameEnds(b, u) /\ SameCaches(b, u)
  BY <1>4 DEF NodeRemoved, SameGraphs, Graphs
<1>7. Entered(u, r, d, n)
  <2>1. d \in Graphs(u) /\ n \notin Live(u)
    BY <1>1, <1>6
  <2> QED
    BY <2>1, <1>2, <1>5, <1>6, AddNodeGood
<1>8. /\ Good(r) /\ Live(r) = Live(u) \cup {n} /\ Known(r) = Known(u) /\ r.owner = [u.owner EXCEPT ![n] = d]
      /\ Graphs(r) = Graphs(u) /\ SameEnds(u, r) /\ SameCaches(u, r)
  BY <1>7 DEF Entered, SameEdges
<1>9. Live(r) = Live(a) \cup {d}
  BY <1>1, <1>2, <1>6, <1>8
<1>10. \A k \in Node : r.owner[k] = IF k \in V \cup {n} THEN d ELSE IF k = d THEN p ELSE a.owner[k]
  <2>1. u.owner \in [Node -> Maybe(Node)]
    BY <1>6, FieldTypes DEF Good
  <2> QED
    BY <2>1, <1>1, <1>6, <1>8
<1>11. SameEnds(a, r) /\ SameCaches(a, r)
  BY <1>1, <1>6, <1>8 DEF SameEnds, SameCaches
<1>12. Shifted(a, r, p, d, V \cup {n})
  BY <1>1, <1>6, <1>8, <1>9, <1>10, <1>11 DEF Shifted
<1> QED
  BY <1>12 DEF r

LEMMA MoveGood ==
  ASSUME NEW a, Good(a), NEW p, p \in Graphs(a), NEW d, d = Dummy(p), d \in Node, d # RootNode,
         d \notin Live(a), d \notin Graphs(a), NEW list, list \in Seq(Node), IsInjective(list),
         \A n \in ToSet(list) : n \in Live(a) /\ a.owner[n] = p /\ ToSet(a.inc[n]) = {}
  PROVE  Shifted(a, MoveIntoDummy(a, p, list), p, d, ToSet(list))
<1> DEFINE o  == AddGraph(a, d)
           b0 == AddNode(o, p, d)
           N == Len(list)
           I == [k \in 0..N |-> {b \in Managers : Shifted(a, b, p, d, Seen(list, k))}]
           Q(f) == f = [k \in 0..N |-> IF k = 0 THEN b0 ELSE MoveOne(f[k - 1], p, list[k])]
           w == CHOOSE f : Q(f)
<1>1. MoveIntoDummy(a, p, list) = InTurn(LAMBDA b, n : MoveOne(b, p, n), b0, list)
  BY DEF MoveIntoDummy, MoveOne
<1>2. N \in Nat /\ p \in Node
  BY Members, GoodLists DEF Good
<1>3. b0 \in I[0]
  <2>1. Opened(a, o, d)
    BY AddGraphGood
  <2>2. b0 = AddNode(o, p, d)
    OBVIOUS
  <2> HIDE DEF o, b0
  <2>3. Good(o) /\ p \in Graphs(o) /\ d \notin Live(o)
    BY <2>1 DEF Opened
  <2>4. Entered(o, b0, p, d)
    BY <2>2, <2>3, AddNodeGood
  <2>5. /\ Good(b0) /\ Graphs(b0) = Graphs(a) \cup {d} /\ Live(b0) = Live(a) \cup {d} /\ Known(b0) = Known(a)
        /\ SameEnds(a, b0) /\ SameCaches(a, b0) /\ b0.owner = [a.owner EXCEPT ![d] = p]
    BY <2>1, <2>4 DEF Opened, Entered, SameEdges, SameEnds, SameCaches
  <2>6. a.owner \in [Node -> Maybe(Node)]
    BY FieldTypes DEF Good
  <2>7. Seen(list, 0) = {}
    BY SeenTurns
  <2>8. \A n \in Node : b0.owner[n] = IF n \in {} THEN d ELSE IF n = d THEN p ELSE a.owner[n]
    BY <2>5, <2>6
  <2>9. Shifted(a, b0, p, d, Seen(list, 0)) /\ b0 \in Managers
    BY <2>5, <2>7, <2>8 DEF Shifted, Good
  <2> QED
    BY <2>9, <1>2
<1> HIDE DEF b0
<1>4. ASSUME NEW k \in 1..N, NEW b \in I[k - 1] PROVE MoveOne(b, p, list[k]) \in I[k]
  <2>1. k \in 0..N /\ k - 1 \in 0..N
    BY <1>2
  <2>2. Shifted(a, b, p, d, Seen(list, k - 1))
    BY <2>1
  <2> HIDE DEF I, Q, w
  <2>3. /\ Seen(list, k) = Seen(list, k - 1) \cup {list[k]} /\ list[k] \notin Seen(list, k - 1)
        /\ list[k] \in ToSet(list)
    BY <1>2, SeenTurns
  <2>4. Shifted(a, MoveOne(b, p, list[k]), p, d, Seen(list, k - 1) \cup {list[k]})
    <3>1. list[k] \in Live(a) /\ a.owner[list[k]] = p /\ ToSet(a.inc[list[k]]) = {}
      BY <2>3
    <3> QED
      BY <3>1, <2>2, <2>3, <1>2, MoveOneStep
  <2>5. Shifted(a, MoveOne(b, p, list[k]), p, d, Seen(list, k))
    BY <2>3, <2>4
  <2> QED
    BY <2>1, <2>5 DEF I, Shifted, Good
<1>5. \E f : Q(f)
  <2> DEFINE X == UNION {I[k] : k \in 0..N}
             F == [pr \in X \X (1..N) |-> MoveOne(pr[1], p, list[pr[2]])]
  <2>1. \A k \in 1..N : \A st \in I[k - 1] : F[<<st, k>>] = MoveOne(st, p, list[k])
    <3> SUFFICES ASSUME NEW k \in 1..N, NEW st \in I[k - 1] PROVE F[<<st, k>>] = MoveOne(st, p, list[k])
      OBVIOUS
    <3>1. k - 1 \in 0..N
      BY <1>2
    <3> HIDE DEF I
    <3>2. st \in X
      BY <3>1
    <3> HIDE DEF X
    <3> QED
      BY <3>2
  <2> HIDE DEF I, F
  <2>2. \A k \in 1..N : \A st \in I[k - 1] : F[<<st, k>>] \in I[k]
    BY <2>1, <1>4
  <2>3. PICK g : IsRun(g, N, b0, F, I)
    BY <1>2, <1>3, <2>2, RunExists
  <2>4. /\ g = [k \in 0..N |-> g[k]] /\ g[0] = b0
        /\ \A k \in 1..N : g[k] = F[<<g[k - 1], k>>]
        /\ \A k \in 0..N : g[k] \in I[k]
    BY <2>3 DEF IsRun
  <2>5. ASSUME NEW k \in 1..N PROVE g[k] = MoveOne(g[k - 1], p, list[k])
    <3>1. k - 1 \in 0..N
      BY <1>2
    <3> QED
      BY <3>1, <2>1, <2>4
  <2>6. ASSUME NEW k \in 0..N PROVE g[k] = IF k = 0 THEN b0 ELSE MoveOne(g[k - 1], p, list[k])
    <3>1. k = 0 \/ k \in 1..N
      BY <1>2
    <3> QED
      BY <2>4, <2>5, <3>1
  <2>7. Q(g)
    <3> HIDE DEF N
    <3> QED
      BY <2>4, <2>6
  <2> QED
    BY <2>7
<1>6. Q(w)
  <2> HIDE DEF Q
  <2> QED
    BY <1>5
<1>7. w[N] \in I[N]
  <2> HIDE DEF w
  <2>1. w[0] = b0 /\ \A k \in 1..N : w[k] = MoveOne(w[k - 1], p, list[k])
    BY <1>2, <1>6
  <2> HIDE DEF I, Q
  <2> QED
    BY <1>2, <1>3, <1>4, <2>1, Turns

<1>8. MoveIntoDummy(a, p, list) = w[N]
  BY <1>1 DEF InTurn
<1>9. N \in 0..N /\ Seen(list, N) = ToSet(list)
  BY <1>2, SeenTurns
<1> HIDE DEF w
<1> QED
  BY <1>7, <1>8, <1>9

(***************************************************************************)
(* All groups move into their dummies.                                     *)
(***************************************************************************)
\* The dummies of the nodes of P, and the nodes that move into them.
Dummies(P) == {Dummy(p) : p \in P}

Grouped(groups, P) == UNION {ToSet(groups[p]) : p \in P}

\* A manager all of whose nodes are in one tree, and no other node has been
\* in it.
Grown(a) ==
  /\ Good(a) /\ Ranked(a) /\ Rooted(a) /\ Filled(a) /\ DummiesOK(Live(a))
  /\ \A n \in Node : n \notin Live(a) => a.owner[n] = Null

\* b is a with the groups of the nodes of P in their dummies.
Moved(a, b, groups, P) ==
  /\ Good(b) /\ Graphs(b) = Graphs(a) \cup Dummies(P) /\ Live(b) = Live(a) \cup Dummies(P)
  /\ Known(b) = Known(a) /\ SameEnds(a, b) /\ SameCaches(a, b)
  /\ \A p \in P : b.owner[Dummy(p)] = p /\ \A n \in ToSet(groups[p]) : b.owner[n] = Dummy(p)
  /\ \A n \in Node : n \notin Dummies(P) \cup Grouped(groups, P) => b.owner[n] = a.owner[n]

LEMMA MovedStep ==
  ASSUME NEW a, Grown(a), NEW groups, GroupsOK(a, groups), NEW P, P \subseteq DOMAIN groups,
         NEW b, Moved(a, b, groups, P), NEW p, p \in DOMAIN groups, p \notin P
  PROVE  Moved(a, MoveIntoDummy(b, p, groups[p]), groups, P \cup {p})
<1> DEFINE d == Dummy(p)
           V == ToSet(groups[p])
           r == MoveIntoDummy(b, p, groups[p])
<1>1. /\ Good(a) /\ Graphs(a) \subseteq Live(a) \cup {RootNode} /\ DummiesOK(Live(a))
      /\ DOMAIN groups \subseteq Graphs(a)
  BY DEF Grown, Rooted, GroupsOK
<1>2. /\ Good(b) /\ Graphs(b) = Graphs(a) \cup Dummies(P) /\ Live(b) = Live(a) \cup Dummies(P)
      /\ Known(b) = Known(a) /\ SameEnds(a, b) /\ SameCaches(a, b)
      /\ \A q \in P : b.owner[Dummy(q)] = q /\ \A n \in ToSet(groups[q]) : b.owner[n] = Dummy(q)
      /\ \A n \in Node : n \notin Dummies(P) \cup Grouped(groups, P) => b.owner[n] = a.owner[n]
  BY DEF Moved
<1>3. /\ groups[p] \in Seq(Node) /\ IsInjective(groups[p])
      /\ \A q \in P \cup {p} : \A n \in ToSet(groups[q]) : n \in Live(a) /\ a.owner[n] = q /\ ToSet(a.inc[n]) = {}
  BY DEF GroupsOK
<1>4. \A q \in P \cup {p} : q \in Live(a) \cup {RootNode}
  BY <1>1
<1>5. /\ \A q \in P \cup {p} : Dummy(q) \in Node /\ Dummy(q) \notin Live(a) /\ Dummy(q) # RootNode
      /\ \A q \in P : Dummy(q) # d
  BY <1>1, <1>4 DEF DummiesOK
<1>6. d \in Node /\ d # RootNode /\ d \notin Live(b) /\ d \notin Graphs(b)
  BY <1>1, <1>2, <1>5 DEF Dummies
<1>7. \A n \in V : n \in Live(b) /\ b.owner[n] = p /\ ToSet(b.inc[n]) = {}
  <2> SUFFICES ASSUME NEW n \in V PROVE n \in Live(b) /\ b.owner[n] = p /\ ToSet(b.inc[n]) = {}
    OBVIOUS
  <2>1. n \in Live(a) /\ a.owner[n] = p /\ ToSet(a.inc[n]) = {} /\ n \in Node
    BY <1>1, <1>3, LiveFacts
  <2>2. n \notin Dummies(P)
    BY <2>1, <1>5 DEF Dummies
  <2>3. n \notin Grouped(groups, P)
    BY <2>1, <1>3 DEF Grouped
  <2>4. ToSet(b.inc[n]) = ToSet(a.inc[n])
    BY <2>1, <1>1, <1>2, SameIncident
  <2> QED
    BY <2>1, <2>2, <2>3, <2>4, <1>2
<1>8. Shifted(b, r, p, d, V)
  <2>1. p \in Graphs(b) /\ d = Dummy(p)
    BY <1>1, <1>2
  <2> HIDE DEF d
  <2> QED
    BY <2>1, <1>2, <1>3, <1>6, <1>7, MoveGood
<1> HIDE DEF r
<1>9. /\ Good(r) /\ Graphs(r) = Graphs(b) \cup {d} /\ Live(r) = Live(b) \cup {d} /\ Known(r) = Known(b)
      /\ SameEnds(b, r) /\ SameCaches(b, r)
      /\ \A n \in Node : r.owner[n] = IF n \in V THEN d ELSE IF n = d THEN p ELSE b.owner[n]
  BY <1>8 DEF Shifted
<1>10. Dummies(P \cup {p}) = Dummies(P) \cup {d} /\ Grouped(groups, P \cup {p}) = Grouped(groups, P) \cup V
  BY DEF Dummies, Grouped
<1>11. SameEnds(a, r) /\ SameCaches(a, r)
  BY <1>2, <1>9 DEF SameEnds, SameCaches
<1>12. ASSUME NEW q \in P \cup {p}
       PROVE  r.owner[Dummy(q)] = q /\ \A n \in ToSet(groups[q]) : r.owner[n] = Dummy(q)
  <2>1. Dummy(q) \in Node /\ Dummy(q) \notin V
    BY <1>3, <1>5
  <2>2. \A n \in ToSet(groups[q]) : n \in Node /\ n \in Live(a) /\ a.owner[n] = q
    BY <1>1, <1>3, LiveFacts
  <2>3. CASE q = p
    BY <2>1, <2>2, <2>3, <1>9
  <2>4. CASE q # p
    <3>1. q \in P /\ Dummy(q) # d
      BY <2>4, <1>5
    <3>2. r.owner[Dummy(q)] = q
      BY <3>1, <2>1, <1>2, <1>9
    <3>3. \A n \in ToSet(groups[q]) : n \notin V /\ n # d
      BY <2>2, <2>4, <1>3, <1>5
    <3> QED
      BY <3>1, <3>2, <3>3, <2>2, <1>2, <1>9
  <2> QED
    BY <2>3, <2>4
<1>13. \A n \in Node : n \notin Dummies(P \cup {p}) \cup Grouped(groups, P \cup {p}) => r.owner[n] = a.owner[n]
  BY <1>2, <1>9, <1>10
<1>14. Moved(a, r, groups, P \cup {p})
  BY <1>2, <1>9, <1>10, <1>11, <1>12, <1>13 DEF Moved
<1> QED
  BY <1>14 DEF r

\* What is moved into dummies stays in the tree.
LEMMA MovedTree ==
  ASSUME NEW a, Grown(a), NEW groups, GroupsOK(a, groups), NEW P, P \subseteq DOMAIN groups,
         NEW b, Moved(a, b, groups, P)
  PROVE  Ranked(b) /\ Rooted(b) /\ Filled(b)
<1> DEFINE E == Dummies(P)
<1>1. /\ Good(a) /\ Graphs(a) \subseteq Live(a) \cup {RootNode} /\ DummiesOK(Live(a))
      /\ DOMAIN groups \subseteq Graphs(a) /\ WellFounded(Node, Up(a)) /\ a.nodes[RootNode] # <<>>
      /\ \A n \in Node : n \notin Live(a) => a.owner[n] = Null
  BY DEF Grown, Rooted, GroupsOK, Ranked, Filled
<1>2. /\ Good(b) /\ Graphs(b) = Graphs(a) \cup E /\ Live(b) = Live(a) \cup E
      /\ \A p \in P : b.owner[Dummy(p)] = p /\ \A n \in ToSet(groups[p]) : b.owner[n] = Dummy(p)
      /\ \A n \in Node : n \notin E \cup Grouped(groups, P) => b.owner[n] = a.owner[n]
  BY DEF Moved
<1>3. \A p \in P : \A n \in ToSet(groups[p]) : n \in Live(a) /\ a.owner[n] = p
  BY DEF GroupsOK
<1>4. \A p \in P : p \in Live(a) \cup {RootNode} /\ Dummy(p) \in Node /\ Dummy(p) \notin Live(a) /\ Dummy(p) # RootNode
  BY <1>1 DEF DummiesOK
<1>5. E \cap (Live(a) \cup {RootNode}) = {} /\ E \subseteq Node /\ Null \notin Node
  BY <1>4, NodeAssumption DEF Dummies
<1>6. Rooted(b)
  BY <1>1, <1>2 DEF Rooted
<1>7. \A n \in Live(a) : n \in Node /\ Up(a)[n] = a.owner[n] /\ a.owner[n] \in Live(a) \cup {RootNode}
  BY <1>1, LiveFacts DEF Up
<1>8. \A n \in Node \ Live(a) : Up(a)[n] = Null
  BY <1>1 DEF Up, ParentOf
<1>9. \A n \in Live(b) : n \in Node /\ Up(b)[n] = b.owner[n]
  BY <1>2, LiveFacts DEF Up
<1>10. \A n \in Node : \/ n \in E /\ Up(b)[n] \in Live(a) \cup {RootNode}
                       \/ Up(b)[n] = Up(a)[n]
                       \/ \E p \in P : Up(b)[n] = Dummy(p) /\ Up(a)[n] = p
  <2> SUFFICES ASSUME NEW n \in Node
               PROVE  \/ n \in E /\ Up(b)[n] \in Live(a) \cup {RootNode}
                      \/ Up(b)[n] = Up(a)[n]
                      \/ \E p \in P : Up(b)[n] = Dummy(p) /\ Up(a)[n] = p
    OBVIOUS
  <2>1. CASE n \in E
    BY <2>1, <1>2, <1>4, <1>9 DEF Dummies
  <2>2. CASE n \in Grouped(groups, P)
    BY <2>2, <1>2, <1>3, <1>7, <1>9 DEF Grouped
  <2>3. CASE n \notin E /\ n \notin Grouped(groups, P) /\ n \in Live(a)
    BY <2>3, <1>2, <1>7, <1>9
  <2>4. CASE n \notin E /\ n \notin Grouped(groups, P) /\ n \notin Live(a)
    <3>1. b.owner[n] = Null
      BY <2>4, <1>1, <1>2
    <3>2. Up(b)[n] = Null
      BY <3>1 DEF Up, ParentOf
    <3> QED
      BY <3>2, <2>4, <1>8
  <2> QED
    BY <2>1, <2>2, <2>3, <2>4
<1>11. ASSUME NEW S, S \subseteq Node, S # {} PROVE \E n \in S : Up(b)[n] \notin S
  <2> DEFINE S0 == S \ E
  <2>1. CASE S0 = {}
    <3>1. PICK n \in S : n \in E
      BY <2>1, <1>11
    <3>2. PICK p \in P : n = Dummy(p)
      BY <3>1 DEF Dummies
    <3>3. Up(b)[n] = p /\ p \in Live(a) \cup {RootNode}
      BY <3>1, <3>2, <1>2, <1>4, <1>9
    <3>4. p \notin E
      BY <3>3, <1>5
    <3> QED
      BY <3>1, <3>3, <3>4, <2>1
  <2>2. CASE S0 # {}
    <3>1. PICK n \in S0 : Up(a)[n] \notin S0
      BY <2>2, <1>1, <1>11 DEF WellFounded
    <3>2. Up(a)[n] \notin E /\ Up(a)[n] \notin S
      <4>1. Up(a)[n] \in Live(a) \cup {RootNode, Null}
        BY <3>1, <1>7, <1>8, <1>11
      <4>2. Up(a)[n] \notin E
        BY <4>1, <1>5
      <4> QED
        BY <4>2, <3>1
    <3>3. CASE Up(b)[n] = Up(a)[n]
      BY <3>1, <3>2, <3>3
    <3>4. CASE \E p \in P : Up(b)[n] = Dummy(p) /\ Up(a)[n] = p
      <4>1. PICK p \in P : Up(b)[n] = Dummy(p) /\ Up(a)[n] = p
        BY <3>4
      <4>2. Dummy(p) \in E
        BY DEF Dummies
      <4>3. Up(b)[Dummy(p)] = p
        BY <4>2, <1>2, <1>9
      <4> QED
        BY <4>1, <4>3, <3>1, <3>2
    <3> QED
      BY <3>1, <3>3, <3>4, <1>10, <1>11
  <2> QED
    BY <2>1, <2>2
<1>12. Ranked(b)
  BY <1>11 DEF Ranked, WellFounded
<1>13. Filled(b)
  <2>1. RootNode \in Node /\ a.nodes[RootNode] \in Seq(Node) /\ b.nodes[RootNode] \in Seq(Node)
    BY <1>1, <1>2, GoodLists, LiveFacts DEF Good
  <2>2. PICK n \in ToSet(a.nodes[RootNode]) : TRUE
    BY <2>1, <1>1, Members
  <2>3. n \in Live(a) /\ a.owner[n] = RootNode
    BY <2>1, <2>2, <1>1, LiveFacts
  <2>4. \E k \in Live(b) : b.owner[k] = RootNode
    <3>1. CASE n \in Grouped(groups, P)
      <4>1. PICK p \in P : n \in ToSet(groups[p])
        BY <3>1 DEF Grouped
      <4>2. p = RootNode
        BY <4>1, <2>3, <1>3
      <4>3. Dummy(p) \in Live(b) /\ b.owner[Dummy(p)] = p
        BY <1>2 DEF Dummies
      <4> QED
        BY <4>2, <4>3
    <3>2. CASE n \notin Grouped(groups, P)
      <4>1. n \in Node /\ n \notin E
        BY <2>3, <1>5, <1>7
      <4> QED
        BY <4>1, <3>2, <2>3, <1>2
    <3> QED
      BY <3>1, <3>2
  <2>5. PICK k \in Live(b) : b.owner[k] = RootNode
    BY <2>4
  <2>6. k \in ToSet(b.nodes[RootNode])
    BY <2>5, <1>2, LiveFacts
  <2> QED
    BY <2>1, <2>6, NoMembers DEF Filled
<1> QED
  BY <1>6, <1>12, <1>13

LEMMA MovedAll ==
  ASSUME NEW a, Grown(a), NEW groups, GroupsOK(a, groups), NEW list, list \in Seq(Node),
         IsInjective(list), ToSet(list) = DOMAIN groups
  PROVE  Moved(a, InTurn(LAMBDA b, p : MoveIntoDummy(b, p, groups[p]), a, list), groups, DOMAIN groups)
<1> DEFINE N == Len(list)
           I == [k \in 0..N |-> {b \in Managers : Moved(a, b, groups, Seen(list, k))}]
           Q(f) == f = [k \in 0..N |-> IF k = 0 THEN a ELSE MoveIntoDummy(f[k - 1], list[k], groups[list[k]])]
           w == CHOOSE f : Q(f)
<1>2. N \in Nat
  BY Members
<1>3. a \in I[0]
  <2>1. Seen(list, 0) = {} /\ 0 \in 0..N
    BY <1>2, SeenTurns
  <2>2. Dummies({}) = {} /\ Grouped(groups, {}) = {}
    BY DEF Dummies, Grouped
  <2>3. Moved(a, a, groups, {})
    BY <2>2 DEF Moved, Grown, SameEnds, SameCaches
  <2>4. a \in Managers
    BY DEF Grown, Good
  <2> QED
    BY <2>1, <2>3, <2>4
<1>4. ASSUME NEW k \in 1..N, NEW st \in I[k - 1] PROVE MoveIntoDummy(st, list[k], groups[list[k]]) \in I[k]
  <2>1. k \in 0..N /\ k - 1 \in 0..N
    BY <1>2
  <2>2. Moved(a, st, groups, Seen(list, k - 1))
    BY <2>1
  <2> HIDE DEF I, Q, w
  <2>3. /\ Seen(list, k) = Seen(list, k - 1) \cup {list[k]} /\ list[k] \notin Seen(list, k - 1)
        /\ list[k] \in DOMAIN groups /\ Seen(list, k - 1) \subseteq DOMAIN groups
    BY <1>2, <2>1, SeenTurns
  <2>4. Moved(a, MoveIntoDummy(st, list[k], groups[list[k]]), groups, Seen(list, k - 1) \cup {list[k]})
    BY <2>2, <2>3, MovedStep
  <2>5. Moved(a, MoveIntoDummy(st, list[k], groups[list[k]]), groups, Seen(list, k))
    BY <2>3, <2>4
  <2>6. MoveIntoDummy(st, list[k], groups[list[k]]) \in Managers
    BY <2>5 DEF Moved, Good
  <2> QED
    BY <2>1, <2>5, <2>6 DEF I
<1>5. \E f : Q(f)
  <2> DEFINE X == UNION {I[k] : k \in 0..N}
             F == [pr \in X \X (1..N) |-> MoveIntoDummy(pr[1], list[pr[2]], groups[list[pr[2]]])]
  <2>1. \A k \in 1..N : \A st \in I[k - 1] : F[<<st, k>>] = MoveIntoDummy(st, list[k], groups[list[k]])
    <3> SUFFICES ASSUME NEW k \in 1..N, NEW st \in I[k - 1] PROVE F[<<st, k>>] = MoveIntoDummy(st, list[k], groups[list[k]])
      OBVIOUS
    <3>1. k - 1 \in 0..N
      BY <1>2
    <3> HIDE DEF I
    <3>2. st \in X
      BY <3>1
    <3> HIDE DEF X
    <3> QED
      BY <3>2
  <2> HIDE DEF I, F
  <2>2. \A k \in 1..N : \A st \in I[k - 1] : F[<<st, k>>] \in I[k]
    BY <2>1, <1>4
  <2>3. PICK g : IsRun(g, N, a, F, I)
    BY <1>2, <1>3, <2>2, RunExists
  <2>4. /\ g = [k \in 0..N |-> g[k]] /\ g[0] = a
        /\ \A k \in 1..N : g[k] = F[<<g[k - 1], k>>]
        /\ \A k \in 0..N : g[k] \in I[k]
    BY <2>3 DEF IsRun
  <2>5. ASSUME NEW k \in 1..N PROVE g[k] = MoveIntoDummy(g[k - 1], list[k], groups[list[k]])
    <3>1. k - 1 \in 0..N
      BY <1>2
    <3> QED
      BY <3>1, <2>1, <2>4
  <2>6. ASSUME NEW k \in 0..N PROVE g[k] = IF k = 0 THEN a ELSE MoveIntoDummy(g[k - 1], list[k], groups[list[k]])
    <3>1. k = 0 \/ k \in 1..N
      BY <1>2
    <3> QED
      BY <2>4, <2>5, <3>1
  <2>7. Q(g)
    <3> HIDE DEF N
    <3> QED
      BY <2>4, <2>6
  <2> QED
    BY <2>7
<1>6. Q(w)
  <2> HIDE DEF Q
  <2> QED
    BY <1>5
<1>7. w[N] \in I[N]
  <2> HIDE DEF w
  <2>1. w[0] = a /\ \A k \in 1..N : w[k] = MoveIntoDummy(w[k - 1], list[k], groups[list[k]])
    BY <1>2, <1>6
  <2> HIDE DEF I, Q
  <2> QED
    BY <1>2, <1>3, <1>4, <2>1, Turns

<1>8. InTurn(LAMBDA b, p : MoveIntoDummy(b, p, groups[p]), a, list) = w[N]
  BY DEF InTurn
<1>9. N \in 0..N /\ Seen(list, N) = DOMAIN groups
  BY <1>2, SeenTurns
<1> HIDE DEF w
<1> QED
  BY <1>7, <1>8, <1>9

\* The compounds whose loose nodes are grouped, outer ones in no order.
Level(c, groups) == Those(<<RootNode>> \o c.nodes, LAMBDA p : p \in DOMAIN groups)

LEMMA LevelIsSublist ==
  ASSUME NEW c, MapOK(c), NEW groups
  PROVE  Sublist(Level(c, groups), <<RootNode>> \o c.nodes, {x \in ToSet(<<RootNode>> \o c.nodes) : x \in DOMAIN groups})
<1>0. <<RootNode>> \o c.nodes \in Seq(Node)
  BY NodeAssumption, Singleton, ConcatMembers DEF MapOK
<1> DEFINE list == <<RootNode>> \o c.nodes
           T == {x \in ToSet(list) : x \in DOMAIN groups}
           Q(f) == f = [k \in 0..Len(list) |-> IF k = 0 THEN <<>> ELSE
                          IF list[k] \in DOMAIN groups THEN Append(f[k - 1], list[k]) ELSE f[k - 1]]
           w == CHOOSE f : Q(f)
<1>1. list \in Seq(Node) /\ T \subseteq ToSet(list)
  BY <1>0
<1>2. \A f : IsSieve(f, list, T) <=> Q(f)
  <2>0. list \in Seq(Node)
    BY <1>1
  <2> HIDE DEF list
  <2>1. \A k \in 0..Len(list) : k # 0 => (list[k] \in T <=> (list[k] \in DOMAIN groups))
    BY <2>0, SeenTurns
  <2> HIDE DEF T
  <2> QED
    BY <2>1 DEF IsSieve
<1>3. \E f : Q(f)
  <2> HIDE DEF Q, T, list
  <2> QED
    BY <1>1, <1>2, SieveExists
<1>4. IsSieve(w, list, T)
  <2> HIDE DEF Q
  <2> QED
    BY <1>2, <1>3
<1>5. Level(c, groups) = w[Len(list)]
  BY DEF Level, Those, InTurn
<1> HIDE DEF w, list, T
<1> QED
  <2>1. Sublist(w[Len(list)], list, T)
    BY <1>1, <1>4, SieveIsSublist
  <2> QED
    BY <2>1, <1>5 DEF list, T

LEMMA LevelFacts ==
  ASSUME NEW c, MapOK(c), NEW groups, DOMAIN groups \subseteq Elements(c) \cup {RootNode}
  PROVE  Level(c, groups) \in Seq(Node) /\ IsInjective(Level(c, groups)) /\ ToSet(Level(c, groups)) = DOMAIN groups
<1> DEFINE r == <<RootNode>>
           t == r \o c.nodes
           T == {x \in ToSet(t) : x \in DOMAIN groups}
           l == Level(c, groups)
<1>1. r \in Seq(Node) /\ ToSet(r) = {RootNode} /\ IsInjective(r)
  BY NodeAssumption, Singleton
<1>2. /\ c.nodes \in Seq(Node) /\ IsInjective(c.nodes) /\ ToSet(c.nodes) = Elements(c)
      /\ RootNode \notin Elements(c) /\ Elements(c) \subseteq Node
  BY DEF MapOK
<1>3. Sublist(l, t, T)
  BY LevelIsSublist
<1> HIDE DEF r, l
<1>4. ToSet(t) = {RootNode} \cup Elements(c) /\ IsInjective(t)
  BY <1>1, <1>2, ConcatMembers
<1>5. T = DOMAIN groups
  BY <1>4
<1>6. l \in Seq(T) /\ ToSet(l) = T /\ IsInjective(l)
  BY <1>3, <1>4 DEF Sublist
<1>7. T \subseteq Node
  BY <1>2, <1>5, NodeAssumption
<1> HIDE DEF T
<1>8. l \in Seq(Node)
  BY <1>6, <1>7, WiderSeq
<1> QED
  BY <1>5, <1>6, <1>8 DEF l

(***************************************************************************)
(* What renews a cache changes nothing else.                               *)
(***************************************************************************)
LEMMA AlikeGrown ==
  ASSUME NEW a, Grown(a), NEW b, Alike(a, b)
  PROVE  Grown(b)
<1>1. b.owner = a.owner
  BY DEF Alike, SameTree
<1> QED
  BY <1>1, AlikeGood DEF Grown

LEMMA AlikeGroups ==
  ASSUME NEW a, NEW groups, GroupsOK(a, groups), NEW b, Alike(a, b)
  PROVE  GroupsOK(b, groups)
<1>1. b.owner = a.owner /\ b.nodes = a.nodes /\ b.graphs = a.graphs /\ b.inc = a.inc
  BY DEF Alike, SameTree, SameGraphs, SameEdges
<1>2. Live(b) = Live(a) /\ Graphs(b) = Graphs(a)
  BY <1>1 DEF Live, Graphs
<1> QED
  BY <1>1, <1>2 DEF GroupsOK

(***************************************************************************)
(* The compounds that are to be tiled.                                     *)
(***************************************************************************)
LEMMA ToBeTiledRule ==
  ASSUME NEW a, Good(a), Ranked(a)
  PROVE  /\ \A n \in Node : ToBeTiled(a, n) \in BOOLEAN
         /\ \A n \in Node : ToBeTiled(a, n) <=>
              /\ a.child[n] # Null
              /\ \A c \in ToSet(Children(a, n)) : ~HasDegree(a, c) /\ (a.child[c] = Null \/ ToBeTiled(a, c))
<1> DEFINE T(f, k) == /\ a.child[k] # Null
                      /\ \A c \in ToSet(Children(a, k)) : ~HasDegree(a, c) /\ (a.child[c] = Null \/ f[c])
           Q(f) == f = [k \in Node |-> T(f, k)]
           w == CHOOSE f : Q(f)
           V == BOOLEAN
           F == [f \in [Node -> V] |-> [k \in Node |-> T(f, k)]]
<1>1. PICK h : Forest(Node, KidsOf(a), Up(a), h)
  BY TreeForest
<1>2. h \in [Node -> Nat] /\ \A n \in Node : \A k \in ToSet(Children(a, n)) : k \in Node /\ h[k] < h[n]
  <2>1. \A n \in Node : KidsOf(a)[n] = Children(a, n)
    BY DEF KidsOf
  <2>2. \A n \in Node : ToSet(Children(a, n)) \subseteq Node
    BY <2>1, <1>1, KidsAreNodes
  <2> QED
    BY <1>1, <2>1, <2>2 DEF Forest
<1>3. OnLower(F, Node, V, h)
  <2>1. F \in [[Node -> V] -> [Node -> V]]
    OBVIOUS
  <2> SUFFICES ASSUME NEW f \in [Node -> V], NEW g \in [Node -> V], NEW n \in Node,
                      \A k \in Node : h[k] < h[n] => f[k] = g[k]
               PROVE  F[f][n] = F[g][n]
    <3> HIDE DEF F
    <3> QED
      BY <1>2, <2>1 DEF OnLower
  <2>2. \A c \in ToSet(Children(a, n)) : f[c] = g[c]
    BY <1>2
  <2>3. T(f, n) = T(g, n)
    BY <2>2
  <2> HIDE DEF T
  <2> QED
    BY <2>3
<1>4. \E f : Q(f)
  <2>1. PICK f : f \in [Node -> V] /\ f = F[f]
    <3> HIDE DEF F, V
    <3> QED
      BY <1>3, TreeRecursion
  <2>2. F[f] = [k \in Node |-> T(f, k)]
    <3> HIDE DEF T
    <3> QED
      BY <2>1
  <2> HIDE DEF T, F
  <2> QED
    BY <2>1, <2>2
<1>5. Q(w)
  <2> HIDE DEF Q
  <2> QED
    BY <1>4
<1>6. \A n \in Node : ToBeTiled(a, n) = w[n]
  BY DEF ToBeTiled
<1> HIDE DEF w
<1>7. \A n \in Node : w[n] = T(w, n)
  <2> HIDE DEF T
  <2> QED
    BY <1>5
<1>8. \A n \in Node : \A c \in ToSet(Children(a, n)) : ToBeTiled(a, c) = w[c]
  BY <1>2, <1>6
<1>9. ASSUME NEW n \in Node
      PROVE  /\ ToBeTiled(a, n) \in BOOLEAN
             /\ ToBeTiled(a, n) <=> /\ a.child[n] # Null
                  /\ \A c \in ToSet(Children(a, n)) : ~HasDegree(a, c) /\ (a.child[c] = Null \/ ToBeTiled(a, c))
  <2>1. ToBeTiled(a, n) = T(w, n)
    BY <1>6, <1>7
  <2>2. T(w, n) <=> /\ a.child[n] # Null
                    /\ \A c \in ToSet(Children(a, n)) : ~HasDegree(a, c) /\ (a.child[c] = Null \/ w[c])
    OBVIOUS
  <2>3. T(w, n) \in BOOLEAN
    OBVIOUS
  <2> HIDE DEF T
  <2> QED
    BY <2>1, <2>2, <2>3, <1>8
<1> QED
  BY <1>9

\* What performDFSOnCompounds lists: compounds of loose nodes, with all the
\* compounds in them.
OrderOK(a, order) ==
  /\ order \in Seq(Node) /\ IsInjective(order) /\ RootNode \notin ToSet(order) /\ KidFirst(order, Up(a))
  /\ \A c \in ToSet(order) :
        /\ c \in Graphs(a)
        /\ \A n \in ToSet(a.nodes[c]) : ToSet(a.inc[n]) = {} /\ (n \in Graphs(a) => n \in ToSet(order))

LEMMA OrderFacts ==
  ASSUME NEW a, Good(a), Ranked(a)
  PROVE  OrderOK(a, CompoundOrder(a))
<1> DEFINE kids == KidsOf(a)
           post == [n \in Node |-> IF ToBeTiled(a, n) THEN <<n>> ELSE <<>>]
           Q(f) == f = [n \in Node |->
                          FlattenSeq([i \in DOMAIN Children(a, n) |-> f[Children(a, n)[i]]])
                            \o (IF ToBeTiled(a, n) THEN <<n>> ELSE <<>>)]
           w == CHOOSE f : Q(f)
           ss == [i \in DOMAIN a.nodes[a.root] |-> w[a.nodes[a.root][i]]]
           order == FlattenSeq(ss)
           K == ToSet(a.nodes[RootNode])
<1>1. PICK h : Forest(Node, kids, Up(a), h)
  BY TreeForest
<1>2. PICK b : IsBelow(b, Node, kids)
  BY <1>1, BelowExists
<1>3. \A n \in Node : kids[n] = Children(a, n)
  BY DEF KidsOf
<1>4. a.root = RootNode /\ RootNode \in Node /\ kids[RootNode] = a.nodes[RootNode]
  BY <1>3, LiveFacts, ChildrenFacts
<1>5. \A f : Q(f) <=> IsPostWalk(f, Node, kids, post)
  <2>1. \A n \in Node : post[n] = IF ToBeTiled(a, n) THEN <<n>> ELSE <<>>
    OBVIOUS
  <2> HIDE DEF kids, post
  <2> QED
    BY <1>3, <2>1 DEF IsPostWalk
<1>6. PostNotes(post, Node) /\ \A n \in Node : post[n] = <<n>> <=> ToBeTiled(a, n)
  <2>1. \A n \in Node : <<n>> # <<>>
    OBVIOUS
  <2>2. \A n \in Node : post[n] = IF ToBeTiled(a, n) THEN <<n>> ELSE <<>>
    OBVIOUS
  <2> HIDE DEF post
  <2> QED
    BY <2>1, <2>2 DEF PostNotes
<1>7. IsPostWalk(w, Node, kids, post)
  <2>1. \E f : Q(f)
    <3> HIDE DEF Q, kids, post
    <3> QED
      BY <1>1, <1>5, <1>6, PostWalkExists
  <2>2. Q(w)
    <3> HIDE DEF Q
    <3> QED
      BY <2>1
  <2> QED
    BY <2>2, <1>5
<1>8. CompoundOrder(a) = order
  BY DEF CompoundOrder
<1>9. w[RootNode] = order \o post[RootNode]
  <2>1. w[RootNode] = FlattenSeq([i \in DOMAIN kids[RootNode] |-> w[kids[RootNode][i]]]) \o post[RootNode]
    <3> HIDE DEF w, kids, post
    <3> QED
      BY <1>4, <1>7 DEF IsPostWalk
  <2> HIDE DEF w, kids, post
  <2> QED
    BY <2>1, <1>4
<1>10. ss = [i \in DOMAIN kids[RootNode] |-> w[kids[RootNode][i]]]
  <2> HIDE DEF w, kids
  <2> QED
    BY <1>4
<1> HIDE DEF w, kids, post, ss, Q
<1> DEFINE T == {k \in Node : post[k] = <<k>>}
<1>11. \A n \in Node : w[n] \in Seq(Node) /\ IsInjective(w[n]) /\ ToSet(w[n]) = b[n] \cap T
  BY <1>1, <1>2, <1>6, <1>7, PostWalkMembers
<1>12. /\ ss \in Seq(Seq(Node)) /\ order \in Seq(Node) /\ DOMAIN ss = DOMAIN kids[RootNode]
       /\ \A i \in DOMAIN ss : /\ ss[i] = w[kids[RootNode][i]] /\ kids[RootNode][i] \in Node
                               /\ h[kids[RootNode][i]] < h[RootNode]
  <2>1. \A k \in Node : h[k] < h[RootNode] => w[k] \in Seq(Node)
    BY <1>11
  <2>2. RootNode \in Node /\ ss = [i \in DOMAIN kids[RootNode] |-> w[kids[RootNode][i]]]
    BY <1>4, <1>10
  <2> HIDE DEF T
  <2>3. /\ ss \in Seq(Seq(Node)) /\ FlattenSeq(ss) \in Seq(Node) /\ DOMAIN ss = DOMAIN kids[RootNode]
        /\ \A i \in DOMAIN ss : /\ ss[i] = w[kids[RootNode][i]] /\ kids[RootNode][i] \in Node
                                /\ h[kids[RootNode][i]] < h[RootNode]
    <3> DEFINE U == Up(a)
               z == RootNode
    <3>1. /\ Forest(Node, kids, U, h) /\ z \in Node /\ ss = [i \in DOMAIN kids[z] |-> w[kids[z][i]]]
          /\ \A k \in Node : h[k] < h[z] => w[k] \in Seq(Node)
      BY <2>1, <2>2, <1>1
    <3> HIDE DEF U, z
    <3>2. /\ ss \in Seq(Seq(Node)) /\ FlattenSeq(ss) \in Seq(Node) /\ DOMAIN ss = DOMAIN kids[z]
          /\ \A i \in DOMAIN ss : /\ ss[i] = w[kids[z][i]] /\ kids[z][i] \in Node
                                  /\ U[kids[z][i]] = z /\ h[kids[z][i]] < h[z]
      BY ONLY <3>1, ChildrenLists
    <3> QED
      BY <3>2 DEF z
  <2> QED
    BY <2>3
<1>13. IsInjective(order)
  <2>1. post[RootNode] \in Seq(Node) /\ IsInjective(w[RootNode])
    <3>1. post[RootNode] \in {<<>>, <<RootNode>>}
      BY <1>4, <1>6 DEF PostNotes
    <3>2. <<>> \in Seq(Node) /\ <<RootNode>> \in Seq(Node)
      BY <1>4, EmptySeq, Singleton
    <3> QED
      BY <3>1, <3>2, <1>4, <1>11
  <2> HIDE DEF order
  <2> QED
    BY <2>1, <1>9, <1>12, InjectivePart
<1>14. ToSet(order) = UNION {ToSet(ss[i]) : i \in DOMAIN ss}
  BY <1>12, FlattenMembers
<1> HIDE DEF order
<1>18. KidFirst(order, Up(a))
  <2>1. KidFirst(w[RootNode], Up(a))
    BY <1>1, <1>2, <1>4, <1>6, <1>7, PostWalkKidFirst
  <2>2. post[RootNode] \in Seq(Node)
    <3>1. post[RootNode] \in {<<>>, <<RootNode>>}
      BY <1>4, <1>6 DEF PostNotes
    <3>2. <<>> \in Seq(Node) /\ <<RootNode>> \in Seq(Node)
      BY <1>4, EmptySeq, Singleton
    <3> QED
      BY <3>1, <3>2
  <2> QED
    BY <2>1, <2>2, <1>9, <1>12, KidFirstPart
<1>15. \A c \in ToSet(order) : \E k \in Node : /\ h[k] < h[RootNode] /\ c \in b[k] /\ c \in T
                                             /\ b[k] \cap T \subseteq ToSet(order)
  <2> SUFFICES ASSUME NEW c \in ToSet(order)
               PROVE  \E k \in Node : /\ h[k] < h[RootNode] /\ c \in b[k] /\ c \in T
                                      /\ b[k] \cap T \subseteq ToSet(order)
    OBVIOUS
  <2>1. PICK i \in DOMAIN ss : c \in ToSet(ss[i])
    BY <1>14
  <2>2. ToSet(ss[i]) \subseteq ToSet(order)
    BY <1>14
  <2> DEFINE k == kids[RootNode][i]
  <2>3. k \in Node /\ h[k] < h[RootNode] /\ ss[i] = w[k]
    BY <1>12
  <2> HIDE DEF k, T
  <2>4. ToSet(w[k]) = b[k] \cap T
    BY <2>3, <1>11
  <2> QED
    BY <2>1, <2>2, <2>3, <2>4
<1>16. ASSUME NEW c \in ToSet(order)
       PROVE  /\ c # RootNode /\ c \in Graphs(a)
              /\ \A n \in ToSet(a.nodes[c]) : ToSet(a.inc[n]) = {} /\ (n \in Graphs(a) => n \in ToSet(order))
  <2>1. PICK k \in Node : h[k] < h[RootNode] /\ c \in b[k] /\ c \in T /\ b[k] \cap T \subseteq ToSet(order)
    BY <1>15
  <2>2. b[k] \subseteq Node /\ \A x \in b[k] : h[x] <= h[k] /\ ToSet(kids[x]) \subseteq b[k]
    BY <1>1, <1>2, BelowFacts
  <2>3. h \in [Node -> Nat]
    BY <1>1 DEF Forest
  <2>4. c # RootNode
    BY <2>1, <2>2, <2>3, <1>4
  <2>5. c \in Node /\ ToBeTiled(a, c)
    BY <2>1, <1>6
  <2>6. a.child[c] # Null /\ \A n \in ToSet(Children(a, c)) : ~HasDegree(a, n) /\ (a.child[n] = Null \/ ToBeTiled(a, n))
    BY <2>5, ToBeTiledRule
  <2>7. c \in Graphs(a)
    BY <2>5, <2>6, LiveFacts
  <2>8. Children(a, c) = a.nodes[c] /\ kids[c] = Children(a, c)
    BY <2>5, <2>7, <1>3, ChildrenFacts
  <2>9. ASSUME NEW n \in ToSet(a.nodes[c]) PROVE ToSet(a.inc[n]) = {} /\ (n \in Graphs(a) => n \in ToSet(order))
    <3>1. n \in b[k] /\ n \in Node /\ ~HasDegree(a, n) /\ (a.child[n] = Null \/ ToBeTiled(a, n))
      BY <2>1, <2>2, <2>6, <2>8
    <3>2. n \in Graphs(a) => a.child[n] = n /\ n # Null
      BY <3>1, LiveFacts, NodeAssumption
    <3>3. n \in Graphs(a) => n \in T
      BY <3>1, <3>2, <1>6
    <3>4. ToSet(a.inc[n]) = {}
      BY <3>1, NoDegree
    <3> QED
      BY <3>1, <3>3, <3>4, <2>1
  <2> QED
    BY <2>4, <2>7, <2>9
<1>17. RootNode \notin ToSet(order)
  BY <1>16
<1> QED
  BY <1>8, <1>12, <1>13, <1>16, <1>17, <1>18 DEF OrderOK

(***************************************************************************)
(* What is in the tiled compounds is taken out.                            *)
(***************************************************************************)
\* b is a without the graphs of the nodes of P and what is in them.
Cleared(a, b, P) ==
  /\ Good(b) /\ Graphs(b) = Graphs(a) \ P /\ Known(b) = Known(a) /\ SameEnds(a, b) /\ SameCaches(a, b)
  /\ b.owner = a.owner
  /\ \A H \in Node : ToSet(b.nodes[H]) = IF H \in P THEN {} ELSE ToSet(a.nodes[H])

LEMMA ClearStep ==
  ASSUME NEW a, Good(a), NEW order, OrderOK(a, order), NEW P, NEW b, Cleared(a, b, P),
         NEW c, c \in ToSet(order), c \notin P
  PROVE  Cleared(a, ClearCompound(b, c), P \cup {c})
<1> DEFINE r == ClearCompound(b, c)
<1>1. /\ Good(b) /\ Graphs(b) = Graphs(a) \ P /\ Known(b) = Known(a) /\ SameEnds(a, b) /\ SameCaches(a, b)
      /\ b.owner = a.owner
      /\ \A H \in Node : ToSet(b.nodes[H]) = IF H \in P THEN {} ELSE ToSet(a.nodes[H])
  BY DEF Cleared
<1>2. /\ c \in Graphs(a) /\ c # RootNode
      /\ \A n \in ToSet(a.nodes[c]) : ToSet(a.inc[n]) = {}
  BY DEF OrderOK
<1>3. c \in Node /\ c \in Graphs(b) /\ b.child[c] = c
  <2>1. Graphs(a) \subseteq Node
    BY GoodLists DEF Good
  <2> QED
    BY <2>1, <1>1, <1>2, LiveFacts
<1>4. ToSet(b.nodes[c]) = ToSet(a.nodes[c])
  BY <1>1, <1>3
<1>5. \A n \in ToSet(b.nodes[c]) : ToSet(b.inc[n]) = {}
  <2>1. \A n \in ToSet(a.nodes[c]) : n \in Node
    BY <1>3, GoodLists DEF Good
  <2>2. \A n \in Node : ToSet(b.inc[n]) = ToSet(a.inc[n])
    BY <1>1, SameIncident
  <2> QED
    BY <2>1, <2>2, <1>2, <1>4
<1>6. r = [RemoveGraph(b, c) EXCEPT !.child[c] = Null]
  BY <1>3 DEF ClearCompound
<1> HIDE DEF r
<1>7. GraphRemoved(b, r, c)
  BY <1>1, <1>2, <1>3, <1>5, <1>6, RemoveGraphGood
<1>8. /\ Good(r) /\ Graphs(r) = Graphs(b) \ {c}
      /\ Known(r) = Known(b) /\ SameEnds(b, r) /\ SameCaches(b, r)
      /\ \A H \in Node : ToSet(r.nodes[H]) = IF H = c THEN {} ELSE ToSet(b.nodes[H])
      /\ r.owner = b.owner
  BY <1>7 DEF GraphRemoved
<1>9. SameEnds(a, r) /\ SameCaches(a, r)
  BY <1>1, <1>8 DEF SameEnds, SameCaches
<1>10. Graphs(r) = Graphs(a) \ (P \cup {c})
  BY <1>1, <1>8
<1>11. \A H \in Node : ToSet(r.nodes[H]) = IF H \in P \cup {c} THEN {} ELSE ToSet(a.nodes[H])
  BY <1>1, <1>8
<1>12. Cleared(a, r, P \cup {c})
  BY <1>1, <1>8, <1>9, <1>10, <1>11 DEF Cleared
<1> QED
  BY <1>12 DEF r

LEMMA AllCleared ==
  ASSUME NEW a, Good(a), NEW list, OrderOK(a, list)
  PROVE  Cleared(a, InTurn(ClearCompound, a, list), ToSet(list))
<1> DEFINE N == Len(list)
           I == [k \in 0..N |-> {b \in Managers : Cleared(a, b, Seen(list, k))}]
           Q(f) == f = [k \in 0..N |-> IF k = 0 THEN a ELSE ClearCompound(f[k - 1], list[k])]
           w == CHOOSE f : Q(f)
<1>1. list \in Seq(Node) /\ IsInjective(list)
  BY DEF OrderOK
<1>2. N \in Nat
  BY <1>1, Members
<1>3. a \in I[0]
  <2>1. Seen(list, 0) = {} /\ 0 \in 0..N
    BY <1>1, <1>2, SeenTurns
  <2>2. Cleared(a, a, {})
    BY DEF Cleared, SameEnds, SameCaches
  <2>3. a \in Managers
    BY DEF Good
  <2> QED
    BY <2>1, <2>2, <2>3
<1>4. ASSUME NEW k \in 1..N, NEW st \in I[k - 1] PROVE ClearCompound(st, list[k]) \in I[k]
  <2>1. k \in 0..N /\ k - 1 \in 0..N
    BY <1>2
  <2>2. Cleared(a, st, Seen(list, k - 1))
    BY <2>1
  <2> HIDE DEF I, Q, w
  <2>3. /\ Seen(list, k) = Seen(list, k - 1) \cup {list[k]} /\ list[k] \notin Seen(list, k - 1)
        /\ list[k] \in ToSet(list)
    BY <1>1, <1>2, <2>1, SeenTurns
  <2>4. Cleared(a, ClearCompound(st, list[k]), Seen(list, k - 1) \cup {list[k]})
    BY <2>2, <2>3, ClearStep
  <2>5. Cleared(a, ClearCompound(st, list[k]), Seen(list, k))
    BY <2>3, <2>4
  <2>6. ClearCompound(st, list[k]) \in Managers
    BY <2>5 DEF Cleared, Good
  <2> QED
    BY <2>1, <2>5, <2>6 DEF I
<1>5. \E f : Q(f)
  <2> DEFINE X == UNION {I[k] : k \in 0..N}
             F == [pr \in X \X (1..N) |-> ClearCompound(pr[1], list[pr[2]])]
  <2>1. \A k \in 1..N : \A st \in I[k - 1] : F[<<st, k>>] = ClearCompound(st, list[k])
    <3> SUFFICES ASSUME NEW k \in 1..N, NEW st \in I[k - 1] PROVE F[<<st, k>>] = ClearCompound(st, list[k])
      OBVIOUS
    <3>1. k - 1 \in 0..N
      BY <1>2
    <3> HIDE DEF I
    <3>2. st \in X
      BY <3>1
    <3> HIDE DEF X
    <3> QED
      BY <3>2
  <2> HIDE DEF I, F
  <2>2. \A k \in 1..N : \A st \in I[k - 1] : F[<<st, k>>] \in I[k]
    BY <2>1, <1>4
  <2>3. PICK g : IsRun(g, N, a, F, I)
    BY <1>2, <1>3, <2>2, RunExists
  <2>4. /\ g = [k \in 0..N |-> g[k]] /\ g[0] = a
        /\ \A k \in 1..N : g[k] = F[<<g[k - 1], k>>]
        /\ \A k \in 0..N : g[k] \in I[k]
    BY <2>3 DEF IsRun
  <2>5. ASSUME NEW k \in 1..N PROVE g[k] = ClearCompound(g[k - 1], list[k])
    <3>1. k - 1 \in 0..N
      BY <1>2
    <3> QED
      BY <3>1, <2>1, <2>4
  <2>6. ASSUME NEW k \in 0..N PROVE g[k] = IF k = 0 THEN a ELSE ClearCompound(g[k - 1], list[k])
    <3>1. k = 0 \/ k \in 1..N
      BY <1>2
    <3> QED
      BY <2>4, <2>5, <3>1
  <2>7. Q(g)
    <3> HIDE DEF N
    <3> QED
      BY <2>4, <2>6
  <2> QED
    BY <2>7
<1>6. Q(w)
  <2> HIDE DEF Q
  <2> QED
    BY <1>5
<1>7. w[N] \in I[N]
  <2> HIDE DEF w
  <2>1. w[0] = a /\ \A k \in 1..N : w[k] = ClearCompound(w[k - 1], list[k])
    BY <1>2, <1>6
  <2> HIDE DEF I, Q
  <2> QED
    BY <1>2, <1>3, <1>4, <2>1, Turns

<1>8. InTurn(ClearCompound, a, list) = w[N]
  BY DEF InTurn
<1>9. N \in 0..N /\ Seen(list, N) = ToSet(list)
  BY <1>1, <1>2, SeenTurns
<1> HIDE DEF w
<1> QED
  BY <1>7, <1>8, <1>9

LEMMA ClearedTree ==
  ASSUME NEW a, Good(a), Ranked(a), Rooted(a), Filled(a), NEW order, OrderOK(a, order),
         NEW b, Cleared(a, b, ToSet(order))
  PROVE  Ranked(b) /\ Rooted(b) /\ Filled(b)
<1> DEFINE P == ToSet(order)
<1>1. /\ Good(b) /\ Graphs(b) = Graphs(a) \ P /\ b.owner = a.owner
      /\ \A H \in Node : ToSet(b.nodes[H]) = IF H \in P THEN {} ELSE ToSet(a.nodes[H])
  BY DEF Cleared
<1>2. /\ RootNode \notin P
      /\ \A c \in P : \A n \in ToSet(a.nodes[c]) : n \in Graphs(a) => n \in P
  BY DEF OrderOK
<1>3. /\ Graphs(a) \subseteq Live(a) \cup {RootNode} /\ WellFounded(Node, Up(a)) /\ a.nodes[RootNode] # <<>>
      /\ RootNode \in Node /\ Null \notin Node
  BY NodeAssumption DEF Rooted, Ranked, Filled
<1> HIDE DEF P
<1>4. Rooted(b)
  <2>1. ASSUME NEW G \in Graphs(b), G # RootNode PROVE G \in Live(b)
    <3>1. G \in Graphs(a) /\ G \notin P /\ G \in Live(a)
      BY <2>1, <1>1, <1>3
    <3>2. PICK H \in Node : G \in ToSet(a.nodes[H])
      BY <3>1 DEF Live
    <3>3. H \notin P
      BY <3>1, <3>2, <1>2
    <3>4. G \in ToSet(b.nodes[H])
      BY <3>2, <3>3, <1>1
    <3> QED
      BY <3>4 DEF Live
  <2> QED
    BY <2>1 DEF Rooted
<1>5. Filled(b)
  <2>1. a.nodes[RootNode] \in Seq(Node) /\ b.nodes[RootNode] \in Seq(Node)
    BY <1>1, <1>3, GoodLists DEF Good
  <2>2. ToSet(a.nodes[RootNode]) # {}
    BY <2>1, <1>3, Members
  <2>3. ToSet(b.nodes[RootNode]) = ToSet(a.nodes[RootNode])
    BY <1>1, <1>2, <1>3
  <2> QED
    BY <2>2, <2>3, NoMembers DEF Filled
<1>6. \A n \in Node : Up(b)[n] = Up(a)[n] \/ Up(b)[n] = Null
  <2> SUFFICES ASSUME NEW n \in Node PROVE Up(b)[n] = Up(a)[n] \/ Up(b)[n] = Null
    OBVIOUS
  <2>1. a.owner[n] \in Node \cup {Null}
    BY FieldTypes DEF Good, Maybe
  <2>2. /\ \A G \in Node : a.parent[G] = IF G \in Graphs(a) THEN G ELSE Null
        /\ \A G \in Node : b.parent[G] = IF G \in Graphs(b) THEN G ELSE Null
    BY <1>1, LiveFacts
  <2>3. Up(a)[n] = (IF a.owner[n] = Null THEN Null ELSE a.parent[a.owner[n]])
        /\ Up(b)[n] = (IF a.owner[n] = Null THEN Null ELSE b.parent[a.owner[n]])
    BY <1>1 DEF Up, ParentOf
  <2> QED
    BY <2>1, <2>2, <2>3, <1>1
<1>7. Ranked(b)
  <2> SUFFICES ASSUME NEW S \in SUBSET Node, S # {} PROVE \E n \in S : Up(b)[n] \notin S
    BY DEF Ranked, WellFounded
  <2>1. PICK n \in S : Up(a)[n] \notin S
    BY <1>3 DEF WellFounded
  <2>2. Null \notin S
    BY <1>3
  <2> QED
    BY <2>1, <2>2, <1>6
<1> QED
  BY <1>4, <1>5, <1>7

(***************************************************************************)
(* tilingPreLayout as a whole.                                             *)
(***************************************************************************)
\* What there is before the layout of map c: all of it is in one tree.
Planted(c, a) ==
  /\ Good(a) /\ Ranked(a) /\ Rooted(a) /\ Filled(a) /\ NoCaches(a) /\ Live(a) = Elements(c)
  /\ \A n \in Node : n \in Elements(c) <=> a.owner[n] # Null

\* And when the loose nodes have been taken out.
Tiled(c, a) ==
  /\ Good(a) /\ Ranked(a) /\ Rooted(a) /\ Filled(a) /\ NoCaches(a)
  /\ \A n \in Elements(c) : a.owner[n] # Null

\* The manager with the groups in their dummies, and the one after tiling.
Regrouped(c, a) ==
  InTurn(LAMBDA b, p : MoveIntoDummy(b, p, Groups(a)[p]), GetAllNodes(a), Level(c, Groups(a)))

Untiled(c, a) == [InTurn(ClearCompound, Regrouped(c, a), CompoundOrder(Regrouped(c, a))) EXCEPT !.allNodes = Null]

LEMMA RegroupedFacts ==
  ASSUME NEW c, MapOK(c), DummiesOK(Elements(c)), NEW a, Planted(c, a)
  PROVE  /\ Grown(GetAllNodes(a)) /\ GroupsOK(GetAllNodes(a), Groups(a)) /\ Alike(a, GetAllNodes(a))
         /\ GetAllNodes(a).allEdges = Null /\ GetAllNodes(a).gravity = Null
         /\ Moved(GetAllNodes(a), Regrouped(c, a), Groups(a), DOMAIN Groups(a))
<1> DEFINE groups == Groups(a)
           g == GetAllNodes(a)
           level == Level(c, groups)
<1>1. Grown(a) /\ Good(a) /\ Fresh(a) /\ a.allNodes = Null /\ a.allEdges = Null /\ a.gravity = Null /\ Ranked(a)
  BY DEF Planted, Grown, NoCaches, Fresh
<1>2. Alike(a, g) /\ g.allEdges = Null /\ g.gravity = Null
  BY <1>1, GetAll
<1>3. GroupsOK(a, groups)
  BY <1>1, GroupsFacts
<1> HIDE DEF g, groups
<1>4. Grown(g) /\ GroupsOK(g, groups)
  BY <1>1, <1>2, <1>3, AlikeGrown, AlikeGroups
<1>5. DOMAIN groups \subseteq Elements(c) \cup {RootNode}
  BY <1>3 DEF GroupsOK, Planted, Rooted
<1>6. level \in Seq(Node) /\ IsInjective(level) /\ ToSet(level) = DOMAIN groups
  BY <1>5, LevelFacts
<1>7. Regrouped(c, a) = InTurn(LAMBDA b, p : MoveIntoDummy(b, p, groups[p]), g, level)
  BY DEF Regrouped, g, groups
<1> HIDE DEF level
<1>8. Moved(g, InTurn(LAMBDA b, p : MoveIntoDummy(b, p, groups[p]), g, level), groups, DOMAIN groups)
  BY <1>4, <1>6, MovedAll
<1>9. Moved(g, Regrouped(c, a), groups, DOMAIN groups)
  BY <1>7, <1>8
<1> QED
  BY <1>2, <1>4, <1>9 DEF g, groups

TiledFrom(b, order, r) ==
  /\ Good(b) /\ Ranked(b) /\ Rooted(b) /\ OrderOK(b, order)
  /\ Good(r) /\ Ranked(r) /\ Rooted(r) /\ Filled(r)
  /\ r.owner = b.owner /\ Known(r) = Known(b) /\ SameEnds(b, r) /\ Graphs(r) = Graphs(b) \ ToSet(order)
  /\ \A H \in Node : ToSet(r.nodes[H]) = IF H \in ToSet(order) THEN {} ELSE ToSet(b.nodes[H])

LEMMA TilingParts ==
  ASSUME NEW c, MapOK(c), DummiesOK(Elements(c)), NEW a, Planted(c, a)
  PROVE  /\ TiledFrom(Regrouped(c, a), CompoundOrder(Regrouped(c, a)), Untiled(c, a))
         /\ NoCaches(Untiled(c, a))
<1> DEFINE g == GetAllNodes(a)
           groups == Groups(a)
           b == Regrouped(c, a)
           order == CompoundOrder(b)
           d == InTurn(ClearCompound, b, order)
           r == Untiled(c, a)
<1>1. /\ Grown(g) /\ GroupsOK(g, groups) /\ g.allEdges = Null /\ g.gravity = Null
      /\ Moved(g, b, groups, DOMAIN groups)
  BY RegroupedFacts
<1> HIDE DEF g, groups, b
<1>2. Ranked(b) /\ Rooted(b) /\ Filled(b)
  BY <1>1, MovedTree
<1>3. Good(b) /\ SameCaches(g, b)
  BY <1>1 DEF Moved
<1>4. OrderOK(b, order)
  BY <1>2, <1>3, OrderFacts
<1>5. r = [d EXCEPT !.allNodes = Null]
  BY DEF Untiled, b
<1> HIDE DEF order, r
<1>6. Cleared(b, d, ToSet(order))
  BY <1>3, <1>4, AllCleared
<1> HIDE DEF d
<1>7. /\ Good(d) /\ SameCaches(b, d) /\ d.owner = b.owner /\ Known(d) = Known(b) /\ SameEnds(b, d)
      /\ Graphs(d) = Graphs(b) \ ToSet(order)
      /\ \A H \in Node : ToSet(d.nodes[H]) = IF H \in ToSet(order) THEN {} ELSE ToSet(b.nodes[H])
  BY <1>6 DEF Cleared
<1>8. Ranked(d) /\ Rooted(d) /\ Filled(d)
  BY <1>2, <1>3, <1>4, <1>6, ClearedTree
<1>9. Cached(d, r, Null, d.allEdges, d.gravity)
  <2>1. d \in Managers /\ Null \in Maybe(NodeLists) /\ d.allEdges \in Maybe(EdgeLists)
    BY <1>7, ManagerFields DEF Good, Maybe, FieldsOK
  <2> QED
    BY <2>1, <1>5, CacheForms
<1>10. Alike(d, r) /\ NoCaches(r)
  BY <1>1, <1>3, <1>7, <1>9 DEF Cached, NoCaches, SameCaches
<1>11. Good(r) /\ Ranked(r) /\ Rooted(r) /\ Filled(r) /\ Known(r) = Known(d) /\ Graphs(r) = Graphs(d)
  BY <1>7, <1>8, <1>10, AlikeGood
<1>12. r.owner = b.owner /\ r.nodes = d.nodes /\ SameEnds(d, r)
  BY <1>7, <1>10 DEF Alike, SameTree, SameEdges
<1>13. SameEnds(b, r)
  BY <1>7, <1>12 DEF SameEnds
<1>14. TiledFrom(b, order, r)
  BY <1>2, <1>3, <1>4, <1>7, <1>11, <1>12, <1>13 DEF TiledFrom
<1> QED
  BY <1>10, <1>14 DEF b, order, r

LEMMA TilingGood ==
  ASSUME NEW c, MapOK(c), DummiesOK(Elements(c)), NEW a, Planted(c, a)
  PROVE  Tiled(c, Untiled(c, a))
<1> DEFINE g == GetAllNodes(a)
           groups == Groups(a)
           b == Regrouped(c, a)
           r == Untiled(c, a)
<1>1. /\ Grown(g) /\ GroupsOK(g, groups) /\ Alike(a, g)
      /\ Moved(g, b, groups, DOMAIN groups)
  BY RegroupedFacts
<1>11. Good(r) /\ Ranked(r) /\ Rooted(r) /\ Filled(r) /\ r.owner = b.owner /\ NoCaches(r)
  BY TilingParts DEF TiledFrom
<1> HIDE DEF g, groups, b, r
<1>13. ASSUME NEW n \in Elements(c) PROVE b.owner[n] # Null
  <2>1. n \in Node /\ g.owner[n] # Null
    BY <1>1 DEF MapOK, Planted, Alike, SameTree
  <2>2. Graphs(a) \subseteq Elements(c) \cup {RootNode} /\ Graphs(g) = Graphs(a) /\ Null \notin Node
    BY <1>1, AlikeGood, NodeAssumption DEF Planted, Rooted
  <2>3. \A p \in DOMAIN groups : Dummy(p) \in Node /\ Dummy(p) # n
    BY <2>2, <1>1 DEF DummiesOK, GroupsOK
  <2>4. n \notin Dummies(DOMAIN groups)
    BY <2>3 DEF Dummies
  <2>5. CASE n \in Grouped(groups, DOMAIN groups)
    <3>1. PICK p \in DOMAIN groups : n \in ToSet(groups[p])
      BY <2>5 DEF Grouped
    <3>2. b.owner[n] = Dummy(p)
      BY <3>1, <1>1 DEF Moved
    <3> QED
      BY <3>2, <2>2, <2>3
  <2>6. CASE n \notin Grouped(groups, DOMAIN groups)
    <3>1. b.owner[n] = g.owner[n]
      BY <2>1, <2>4, <2>6, <1>1 DEF Moved
    <3> QED
      BY <3>1, <2>1
  <2> QED
    BY <2>5, <2>6
<1>14. Tiled(c, r)
  BY <1>11, <1>13 DEF Tiled
<1> QED
  BY <1>14 DEF r

(***************************************************************************)
(* Gravity.                                                                *)
(***************************************************************************)
LEMMA NodesWithGravityList ==
  ASSUME NEW a, Good(a)
  PROVE  /\ NodesWithGravity(a) \in Seq(Node)
         /\ ToSet(NodesWithGravity(a)) = UNION {ToSet(a.nodes[G]) : G \in {H \in Graphs(a) : ~IsConnectedGraph(a, H)}}
<1> DEFINE ss == [i \in DOMAIN a.graphs |->
                    IF IsConnectedGraph(a, a.graphs[i]) THEN <<>> ELSE a.nodes[a.graphs[i]]]
           X == UNION {ToSet(a.nodes[G]) : G \in {H \in Graphs(a) : ~IsConnectedGraph(a, H)}}
<1>1. a.graphs \in Seq(Node) /\ \A n \in Node : a.nodes[n] \in Seq(Node)
  BY GoodLists DEF Good
<1>2. Len(a.graphs) \in Nat /\ DOMAIN a.graphs = 1..Len(a.graphs) /\ \A i \in DOMAIN a.graphs : a.graphs[i] \in Node
  BY <1>1
<1>3. ss \in Seq(Seq(Node)) /\ DOMAIN ss = DOMAIN a.graphs
  <2>1. \A i \in DOMAIN a.graphs : ss[i] \in Seq(Node)
    BY <1>1, <1>2, EmptySeq
  <2>2. ss = [i \in 1..Len(a.graphs) |-> ss[i]]
    BY <1>2
  <2> HIDE DEF ss
  <2>3. DOMAIN ss = 1..Len(a.graphs)
    BY <2>2
  <2>4. ss \in [1..Len(a.graphs) -> Seq(Node)]
    BY <2>1, <2>2, <1>2
  <2> QED
    BY <2>3, <2>4, <1>2
<1>4. \A i \in DOMAIN ss : ss[i] = IF IsConnectedGraph(a, a.graphs[i]) THEN <<>> ELSE a.nodes[a.graphs[i]]
  OBVIOUS
<1>5. NodesWithGravity(a) = FlattenSeq(ss)
  BY DEF NodesWithGravity
<1> HIDE DEF ss
<1>6. FlattenSeq(ss) \in Seq(Node) /\ ToSet(FlattenSeq(ss)) = UNION {ToSet(ss[i]) : i \in DOMAIN ss}
  BY <1>3, FlattenMembers
<1>7. Graphs(a) = {a.graphs[i] : i \in DOMAIN a.graphs}
  BY DEF Graphs, ToSet
<1>8. UNION {ToSet(ss[i]) : i \in DOMAIN ss} \subseteq X
  <2> SUFFICES ASSUME NEW i \in DOMAIN ss, NEW n \in ToSet(ss[i]) PROVE n \in X
    OBVIOUS
  <2>1. ~IsConnectedGraph(a, a.graphs[i])
    BY <1>4, NoMembers
  <2>2. ss[i] = a.nodes[a.graphs[i]] /\ a.graphs[i] \in Graphs(a)
    BY <2>1, <1>3, <1>4, <1>7
  <2> QED
    BY <2>1, <2>2
<1>9. X \subseteq UNION {ToSet(ss[i]) : i \in DOMAIN ss}
  <2> SUFFICES ASSUME NEW G \in Graphs(a), ~IsConnectedGraph(a, G), NEW n \in ToSet(a.nodes[G])
               PROVE  n \in UNION {ToSet(ss[i]) : i \in DOMAIN ss}
    OBVIOUS
  <2>1. PICK i \in DOMAIN a.graphs : G = a.graphs[i]
    BY <1>7
  <2>2. i \in DOMAIN ss /\ ss[i] = a.nodes[G]
    BY <2>1, <1>3, <1>4
  <2> QED
    BY <2>2
<1> QED
  BY <1>5, <1>6, <1>8, <1>9

(***************************************************************************)
(* reduceTrees: one layer of leaves.                                       *)
(***************************************************************************)
LeavesOK(b, list) ==
  /\ list \in Seq(Node) /\ IsInjective(list) /\ ToSet(list) \subseteq Live(b)
  /\ \A n \in ToSet(list) : IsLeaf(b, n)

\* A leaf that still is one.
LEMMA LeafFacts ==
  ASSUME NEW b, Good(b), NEW n, n \in Live(b), IsLeaf(b, n), NEW a, Good(a), a.owner = b.owner, SameGraphs(b, a),
         SameEnds(b, a), Known(a) \subseteq Known(b), n \in Live(a), Len(a.inc[n]) = 1,
         NEW e, e = a.inc[n][1], NEW x, x = [node |-> n, edge |-> e, graph |-> a.owner[n]]
  PROVE  Leafing(a, b, n, e, x)
<1>1. n \in Node /\ n # Null /\ a.owner[n] \in Node
  BY LiveFacts, NodeAssumption
<1>2. a.inc[n] \in Seq(Edge) /\ b.inc[n] \in Seq(Edge)
  BY <1>1, GoodLists DEF Good
<1>3. ToSet(a.inc[n]) = {e}
  BY <1>2, OnlyMember
<1>4. e \in Known(a) /\ n \in Ends(a, e)
  BY <1>1, <1>3, IncFacts
<1>5. Len(b.inc[n]) = 1 /\ ~b.isInter[b.inc[n][1]] /\ b.child[n] = Null
  BY DEF IsLeaf
<1>6. e \in ToSet(b.inc[n])
  <2>1. ToSet(a.inc[n]) \subseteq ToSet(b.inc[n])
    BY <1>1, IncShrinks
  <2> QED
    BY <2>1, <1>3
<1>7. ToSet(b.inc[n]) = {e} /\ b.inc[n][1] = e
  <2>1. ToSet(b.inc[n]) = {b.inc[n][1]}
    BY <1>2, <1>5, OnlyMember
  <2> QED
    BY <2>1, <1>6
<1>8. ~a.isInter[e]
  BY <1>5, <1>7 DEF SameEnds
<1>9. n \notin Graphs(a)
  <2>1. n \notin Graphs(b)
    BY <1>1, <1>5, LiveFacts
  <2> QED
    BY <2>1 DEF SameGraphs, Graphs
<1>10. /\ e \in Edge /\ a.source[e] \in Live(a) /\ a.target[e] \in Live(a) /\ a.source[e] # a.target[e]
       /\ a.owner[a.source[e]] = a.owner[a.target[e]]
  BY <1>4, <1>8, EdgeFacts
<1>11. Other(a, x) = IF a.source[e] = n THEN a.target[e] ELSE a.source[e]
  BY DEF Other, OtherEnd
<1>12. n = a.source[e] \/ n = a.target[e]
  BY <1>4 DEF Ends
<1>13. x \in Entries
  BY <1>1, <1>10 DEF Entries
<1>14. /\ Other(a, x) \in Live(a) /\ Other(a, x) # n /\ Ends(a, e) = {n, Other(a, x)}
       /\ a.owner[Other(a, x)] = a.owner[n]
  BY <1>10, <1>11, <1>12 DEF Ends
<1> QED
  BY <1>3, <1>4, <1>7, <1>8, <1>9, <1>10, <1>13, <1>14 DEF Leafing

LEMMA PruneStep ==
  ASSUME NEW b, Good(b), NEW list, LeavesOK(b, list), NEW k, k \in 1..Len(list),
         NEW a, NEW layer, Peeled(b, list, k - 1, a, layer), Len(a.inc[list[k]]) = 1,
         NEW e, e = a.inc[list[k]][1],
         NEW x, x = [node |-> list[k], edge |-> e, graph |-> a.owner[list[k]]],
         NEW d, d = RemoveNode(a, a.owner[list[k]], list[k])
  PROVE  Peeled(b, list, k, d, Append(layer, x))
<1> DEFINE n == list[k]
           X == ToSet(layer)
           o == Other(a, x)
<1>1. /\ list \in Seq(Node) /\ IsInjective(list) /\ ToSet(list) \subseteq Live(b)
      /\ \A z \in ToSet(list) : IsLeaf(b, z)
  BY DEF LeavesOK
<1>2. /\ Good(a) /\ a.owner = b.owner /\ SameGraphs(b, a) /\ SameEnds(b, a) /\ SameCaches(b, a) /\ Filled(a)
      /\ Live(a) = Live(b) \ NodesIn(X) /\ Known(a) = Known(b) \ EdgesIn(X) /\ ApartOK(X)
      /\ NodesIn(X) \subseteq Live(b) /\ EdgesIn(X) \subseteq Known(b)
  BY DEF Peeled, PeeledTo
<1>3. /\ layer \in Seq(Entries) /\ IsInjective(layer)
      /\ \A y \in X : /\ EntryOK(a, y) /\ y.node \in Seen(list, k - 1) /\ Other(a, y) \in Live(a)
                      /\ \A j \in ((k - 1) + 1)..Len(list) : list[j] = Other(a, y) => ToSet(a.inc[list[j]]) = {}
  BY DEF Peeled
<1>4. /\ Seen(list, k) = Seen(list, k - 1) \cup {n} /\ n \notin Seen(list, k - 1) /\ n \in ToSet(list)
      /\ Len(list) \in Nat
  BY <1>1, SeenTurns, Members
<1>5. n \in Live(b) /\ IsLeaf(b, n) /\ n \in Live(a) /\ n \in Node /\ n # RootNode
  <2>1. n \in Live(b) /\ IsLeaf(b, n)
    BY <1>1, <1>4
  <2>2. n \notin NodesIn(X)
    BY <1>3, <1>4 DEF NodesIn
  <2> QED
    BY <2>1, <2>2, <1>2, LiveFacts
<1>6. /\ ToSet(a.inc[n]) = {e} /\ e \in Known(a) /\ n \in Ends(a, e) /\ ToSet(b.inc[n]) = {e}
      /\ ~a.isInter[e] /\ n \notin Graphs(a) /\ x \in Entries /\ a.source[e] # a.target[e]
      /\ o \in Live(a) /\ o # n /\ Ends(a, e) = {n, o} /\ a.owner[o] = a.owner[n]
  <2>1. Known(a) \subseteq Known(b) /\ Len(a.inc[n]) = 1 /\ e = a.inc[n][1] /\ x = [node |-> n, edge |-> e, graph |-> a.owner[n]]
    BY <1>2
  <2> HIDE DEF n, X
  <2>2. Leafing(a, b, n, e, x)
    BY ONLY Good(b), <2>1, <1>2, <1>5, LeafFacts
  <2> QED
    BY <2>2 DEF Leafing
<1>7. x.node = n /\ x.edge = e /\ x.graph = a.owner[n]
  OBVIOUS
<1>8. NodeRemoved(a, d, n, {e})
  <2>1. NodeRemoved(a, d, n, ToSet(a.inc[n]))
    BY <1>2, <1>5, RemoveNodeGood
  <2> QED
    BY <2>1, <1>6
<1> HIDE DEF n, X, o
<1>9. /\ Good(d) /\ Live(d) = Live(a) \ {n} /\ Known(d) = Known(a) \ {e}
      /\ \A H \in Node : ToSet(d.nodes[H]) = ToSet(a.nodes[H]) \ {n}
      /\ d.owner = a.owner /\ SameGraphs(a, d) /\ SameEnds(a, d) /\ SameCaches(a, d)
  BY <1>8 DEF NodeRemoved
<1>10. Graphs(d) = Graphs(a)
  BY <1>9 DEF SameGraphs, Graphs
<1> DEFINE layer2 == Append(layer, x)
           X2 == ToSet(layer2)
<1>11. \A y \in X : y.node # n /\ y.edge # e /\ y \in Entries
  <2>1. \A y \in X : y.edge \notin Known(a)
    BY <1>3 DEF EntryOK
  <2>2. X \subseteq Entries
    BY <1>3, Members DEF X
  <2> QED
    BY <2>1, <2>2, <1>3, <1>4, <1>6
<1>12. X2 = X \cup {x} /\ layer2 \in Seq(Entries) /\ IsInjective(layer2)
  <2>1. x \notin X
    BY <1>7, <1>11
  <2>2. ToSet(Append(layer, x)) = ToSet(layer) \cup {x} /\ Append(layer, x) \in Seq(Entries)
    <3>1. layer \in Seq(Entries) /\ x \in Entries
      BY <1>3, <1>6
    <3> QED
      BY ONLY <3>1, AppendMembers
  <2>3. IsInjective(Append(layer, x))
    BY <2>1, <1>3, <1>6, AppendMembers DEF X
  <2> QED
    BY <2>2, <2>3 DEF X
<1> HIDE DEF layer2, X2
<1>13. NodesIn(X2) = NodesIn(X) \cup {n} /\ EdgesIn(X2) = EdgesIn(X) \cup {e}
  BY <1>7, <1>12 DEF NodesIn, EdgesIn
<1>14. ApartOK(X2)
  BY <1>2, <1>7, <1>11, <1>12 DEF ApartOK
<1>15. SameGraphs(b, d) /\ SameEnds(b, d) /\ SameCaches(b, d)
  BY <1>2, <1>9 DEF SameGraphs, SameEnds, SameCaches
<1>16. Filled(d)
  <2>1. RootNode \in Node /\ a.nodes[RootNode] \in Seq(Node) /\ d.nodes[RootNode] \in Seq(Node)
    BY <1>2, <1>9, GoodLists, NodeAssumption DEF Good
  <2>2. a.nodes[RootNode] # <<>>
    BY <1>2 DEF Filled
  <2>6. ToSet(a.nodes[RootNode]) # {}
    <3> DEFINE s == a.nodes[RootNode]
    <3>1. s \in Seq(Node) /\ s # <<>>
      BY <2>1, <2>2
    <3> HIDE DEF s
    <3>2. ToSet(s) # {}
      BY ONLY <3>1, Members
    <3> QED
      BY <3>2 DEF s
  <2>3. PICK q : q \in ToSet(a.nodes[RootNode])
    BY ONLY <2>6
  <2>4. \E z \in ToSet(a.nodes[RootNode]) : z # n
    <3>1. CASE q # n
      BY <2>3, <3>1
    <3>2. CASE q = n
      <4>1. a.owner[n] = RootNode
        BY <2>1, <2>3, <3>2, <1>2, LiveFacts
      <4>2. o \in ToSet(a.nodes[RootNode])
        BY <4>1, <1>2, <1>6, LiveFacts
      <4> QED
        BY <4>2, <1>6
    <3> QED
      BY <3>1, <3>2
  <2>5. ToSet(d.nodes[RootNode]) # {}
    BY <2>1, <2>4, <1>9
  <2> QED
    BY <2>5, NoMembers DEF Filled
<1>17. PeeledTo(b, d, X2)
  <2>1. Live(d) = Live(b) \ NodesIn(X2) /\ Known(d) = Known(b) \ EdgesIn(X2)
    BY <1>2, <1>9, <1>13
  <2>2. NodesIn(X2) \subseteq Live(b) /\ EdgesIn(X2) \subseteq Known(b)
    BY <1>2, <1>5, <1>6, <1>13
  <2> QED
    BY <2>1, <2>2, <1>2, <1>9, <1>14, <1>15, <1>16 DEF PeeledTo
<1>18. ASSUME NEW y \in X
       PROVE  /\ EntryOK(d, y) /\ y.node \in Seen(list, k) /\ Other(d, y) \in Live(d)
              /\ \A j \in (k + 1)..Len(list) : list[j] = Other(d, y) => ToSet(d.inc[list[j]]) = {}
  <2>1. /\ EntryOK(a, y) /\ y.node \in Seen(list, k - 1) /\ Other(a, y) \in Live(a)
        /\ \A j \in k..Len(list) : list[j] = Other(a, y) => ToSet(a.inc[list[j]]) = {}
    <3>1. (k - 1) + 1 = k
      OBVIOUS
    <3> QED
      BY <3>1, <1>3
  <2>2. y.node \notin Live(d) /\ y.edge \notin Known(d)
    BY <2>1, <1>9 DEF EntryOK
  <2>3. EntryOK(d, y) /\ Other(d, y) = Other(a, y)
    BY <2>1, <2>2, <1>9, <1>10, EntryKept
  <2>4. Other(a, y) # n
    <3>1. k \in k..Len(list)
      BY <1>4
    <3> QED
      BY <3>1, <2>1, <1>6 DEF n
  <2>5. ASSUME NEW j \in (k + 1)..Len(list), list[j] = Other(d, y) PROVE ToSet(d.inc[list[j]]) = {}
    <3>1. j \in k..Len(list) /\ j \in 1..Len(list)
      BY <2>5, <1>4
    <3>2. ToSet(a.inc[list[j]]) = {}
      BY <3>1, <2>1, <2>3, <2>5
    <3>3. list[j] \in Node
      BY <3>1, <1>1
    <3>4. ToSet(d.inc[list[j]]) \subseteq ToSet(a.inc[list[j]])
      BY <3>3, <1>2, <1>9, IncShrinks
    <3> QED
      BY <3>2, <3>4
  <2> QED
    BY <2>1, <2>3, <2>4, <2>5, <1>4, <1>9
<1>19. /\ EntryOK(d, x) /\ x.node \in Seen(list, k) /\ Other(d, x) \in Live(d)
       /\ \A j \in (k + 1)..Len(list) : list[j] = Other(d, x) => ToSet(d.inc[list[j]]) = {}
  <2>1. d.source = a.source /\ d.target = a.target /\ d.isInter = a.isInter
    BY <1>9 DEF SameEnds
  <2>2. Other(d, x) = o /\ Ends(d, e) = Ends(a, e)
    BY <2>1 DEF Other, OtherEnd, Ends, o
  <2>3. a.owner[n] \in Graphs(a) /\ o \in Node /\ e \in Known(b)
    BY <1>2, <1>5, <1>6, LiveFacts
  <2>4. EntryOK(d, x)
    BY <2>1, <2>2, <2>3, <1>5, <1>6, <1>7, <1>9, <1>10 DEF EntryOK
  <2>5. ASSUME NEW j \in (k + 1)..Len(list), list[j] = Other(d, x) PROVE ToSet(d.inc[list[j]]) = {}
    <3>1. j \in 1..Len(list) /\ list[j] = o
      BY <2>2, <2>5, <1>4
    <3>2. o \in ToSet(list)
      BY <3>1, <1>1, SeenTurns
    <3>3. Len(b.inc[o]) = 1 /\ b.inc[o] \in Seq(Edge)
      BY <2>3, <3>2, <1>1, GoodLists DEF IsLeaf, Good
    <3>4. ToSet(b.inc[o]) = {b.inc[o][1]}
      BY <3>3, OnlyMember
    <3>5. e \in ToSet(a.inc[o])
      BY <1>2, <1>6, EdgeFacts
    <3>6. ToSet(a.inc[o]) \subseteq ToSet(b.inc[o]) /\ ToSet(d.inc[o]) \subseteq ToSet(a.inc[o])
      BY <2>3, <1>2, <1>9, IncShrinks
    <3>7. e \notin ToSet(d.inc[o])
      BY <2>3, <1>9, IncFacts
    <3>8. ToSet(d.inc[o]) = {}
      BY <3>4, <3>5, <3>6, <3>7
    <3> QED
      BY <3>1, <3>8
  <2> QED
    BY <2>2, <2>4, <2>5, <1>4, <1>6, <1>7, <1>9
<1>20. Peeled(b, list, k, d, layer2)
  BY <1>12, <1>17, <1>18, <1>19 DEF Peeled, X2
<1> QED
  BY <1>20 DEF layer2

(***************************************************************************)
(* reduceTrees: the layers of leaves, one below the other.                 *)
(***************************************************************************)
Leaves(a) == Those(AllNodes(a), LAMBDA n : IsLeaf(a, n))

LEMMA LeavesIsSublist ==
  ASSUME NEW a, AllNodes(a) \in Seq(Node)
  PROVE  Sublist(Leaves(a), AllNodes(a), {x \in ToSet(AllNodes(a)) : IsLeaf(a, x)})
<1>0. AllNodes(a) \in Seq(Node)
  OBVIOUS
<1> DEFINE list == AllNodes(a)
           T == {x \in ToSet(list) : IsLeaf(a, x)}
           Q(f) == f = [k \in 0..Len(list) |-> IF k = 0 THEN <<>> ELSE
                          IF IsLeaf(a, list[k]) THEN Append(f[k - 1], list[k]) ELSE f[k - 1]]
           w == CHOOSE f : Q(f)
<1>1. list \in Seq(Node) /\ T \subseteq ToSet(list)
  BY <1>0
<1>2. \A f : IsSieve(f, list, T) <=> Q(f)
  <2>0. list \in Seq(Node)
    BY <1>1
  <2> HIDE DEF list
  <2>1. \A k \in 0..Len(list) : k # 0 => (list[k] \in T <=> (IsLeaf(a, list[k])))
    BY <2>0, SeenTurns
  <2> HIDE DEF T
  <2> QED
    BY <2>1 DEF IsSieve
<1>3. \E f : Q(f)
  <2> HIDE DEF Q, T, list
  <2> QED
    BY <1>1, <1>2, SieveExists
<1>4. IsSieve(w, list, T)
  <2> HIDE DEF Q
  <2> QED
    BY <1>2, <1>3
<1>5. Leaves(a) = w[Len(list)]
  BY DEF Leaves, Those, InTurn
<1> HIDE DEF w, list, T
<1> QED
  <2>1. Sublist(w[Len(list)], list, T)
    BY <1>1, <1>4, SieveIsSublist
  <2> QED
    BY <2>1, <1>5 DEF list, T

LEMMA LeavesFacts ==
  ASSUME NEW a, Good(a), Fresh(a)
  PROVE  /\ LeavesOK(a, Leaves(a)) /\ ToSet(Leaves(a)) = {n \in Live(a) : IsLeaf(a, n)}
         /\ ToSet(AllNodes(a)) = Live(a)
<1> DEFINE l == Leaves(a)
           T == {n \in Live(a) : IsLeaf(a, n)}
<1>1. AllNodes(a) \in Seq(Node) /\ IsInjective(AllNodes(a)) /\ ToSet(AllNodes(a)) = Live(a)
  BY FreshLists, LiveLists
<1>2. Sublist(l, AllNodes(a), T)
  BY <1>1, LeavesIsSublist
<1>3. T \subseteq Node
  BY LiveFacts
<1> HIDE DEF l
<1>4. l \in Seq(T) /\ ToSet(l) = T /\ IsInjective(l)
  BY <1>1, <1>2 DEF Sublist
<1> HIDE DEF T
<1>5. l \in Seq(Node)
  BY <1>3, <1>4, WiderSeq
<1>6. LeavesOK(a, l)
  BY <1>4, <1>5 DEF LeavesOK, T
<1> QED
  BY <1>1, <1>4, <1>6 DEF l, T

\* One turn of the loop over the leaves.
LEMMA PruneTurn ==
  ASSUME NEW b, Good(b), NEW list, LeavesOK(b, list), NEW k, k \in 1..Len(list),
         NEW a, NEW layer, Peeled(b, list, k - 1, a, layer), NEW r, r = Prune(a, list[k], layer)
  PROVE  r \in [m : Managers, layer : Seq(Entries)] /\ Peeled(b, list, k, r.m, r.layer)
<1>1. CASE Len(a.inc[list[k]]) # 1
  <2>1. r = [m |-> a, layer |-> layer]
    BY <1>1 DEF Prune
  <2>2. r.m = a /\ r.layer = layer
    BY <2>1
  <2>3. a \in Managers /\ layer \in Seq(Entries)
    BY DEF Peeled, PeeledTo, Good
  <2>4. Seen(list, k - 1) \subseteq Seen(list, k)
    BY SeenTurns DEF LeavesOK
  <2>5. Len(list) \in Nat
    BY Members DEF LeavesOK
  <2>6. \A j \in (k + 1)..Len(list) : j \in ((k - 1) + 1)..Len(list)
    BY <2>5
  <2>7. Peeled(b, list, k, a, layer)
    BY <2>4, <2>6 DEF Peeled
  <2> QED
    BY <2>1, <2>2, <2>3, <2>7
<1>2. CASE Len(a.inc[list[k]]) = 1
  <2> DEFINE n == list[k]
             e == a.inc[n][1]
             x == [node |-> n, edge |-> e, graph |-> a.owner[n]]
             d == RemoveNode(a, a.owner[n], n)
             l2 == Append(layer, x)
  <2>1. r = [m |-> d, layer |-> l2]
    BY <1>2 DEF Prune
  <2>2. Peeled(b, list, k, d, l2)
    BY <1>2, PruneStep
  <2> HIDE DEF d, l2
  <2>3. r.m = d /\ r.layer = l2
    BY <2>1
  <2>4. d \in Managers /\ l2 \in Seq(Entries)
    BY <2>2 DEF Peeled, PeeledTo, Good
  <2> QED
    BY <2>1, <2>2, <2>3, <2>4
<1> QED
  BY <1>1, <1>2

LEMMA PruneBegins ==
  ASSUME NEW b, Good(b), Filled(b), NEW list, LeavesOK(b, list), NEW s, s = <<>>
  PROVE  Peeled(b, list, 0, b, s)
<1>1. ToSet(s) = {} /\ IsInjective(s) /\ s \in Seq(Entries)
  BY NoMembers
<1>2. PeeledTo(b, b, {})
  BY DEF PeeledTo, SameGraphs, SameEnds, SameCaches, NodesIn, EdgesIn, ApartOK
<1> QED
  BY <1>1, <1>2 DEF Peeled

PrunedBy(b, list) == InTurn(LAMBDA st, n : Prune(st.m, n, st.layer), [m |-> b, layer |-> <<>>], list)

LEMMA PruneAll ==
  ASSUME NEW b, Good(b), Filled(b), NEW list, LeavesOK(b, list)
  PROVE  Peeled(b, list, Len(list), PrunedBy(b, list).m, PrunedBy(b, list).layer)
<1> DEFINE N == Len(list)
           b0 == [m |-> b, layer |-> <<>>]
           R == [m : Managers, layer : Seq(Entries)]
           I == [k \in 0..N |-> {st \in R : Peeled(b, list, k, st.m, st.layer)}]
           Q(f) == f = [k \in 0..N |-> IF k = 0 THEN b0 ELSE Prune(f[k - 1].m, list[k], f[k - 1].layer)]
           w == CHOOSE f : Q(f)
<1>2. N \in Nat
  BY Members DEF LeavesOK
<1>3. b0 \in I[0]
  <2> DEFINE s == <<>>
             base == [m |-> b, layer |-> s]
  <2>1. s \in Seq(Entries) /\ b \in Managers /\ s = <<>>
    BY DEF Good
  <2> HIDE DEF s
  <2>2. Peeled(b, list, 0, b, s)
    BY <2>1, PruneBegins
  <2>3. base.m = b /\ base.layer = s /\ base \in R
    BY <2>1
  <2>4. 0 \in 0..N
    BY <1>2
  <2> HIDE DEF base, R
  <2>5. base \in I[0]
    BY <2>2, <2>3, <2>4
  <2> QED
    BY <2>5 DEF base, s
<1> HIDE DEF b0
<1>4. ASSUME NEW k \in 1..N, NEW st \in I[k - 1] PROVE Prune(st.m, list[k], st.layer) \in I[k]
  <2>1. k \in 0..N /\ k - 1 \in 0..N
    BY <1>2
  <2>2. Peeled(b, list, k - 1, st.m, st.layer)
    BY <2>1
  <2> DEFINE q == Prune(st.m, list[k], st.layer)
  <2>3. q \in R /\ Peeled(b, list, k, q.m, q.layer)
    <3> HIDE DEF I, Q, w
    <3> QED
      BY <2>2, PruneTurn
  <2> HIDE DEF q, R
  <2>4. q \in I[k]
    BY <2>1, <2>3
  <2> QED
    BY <2>4 DEF q
<1>5. \E f : Q(f)
  <2> DEFINE X == UNION {I[k] : k \in 0..N}
             F == [pr \in X \X (1..N) |-> Prune(pr[1].m, list[pr[2]], pr[1].layer)]
  <2>1. \A k \in 1..N : \A st \in I[k - 1] : F[<<st, k>>] = Prune(st.m, list[k], st.layer)
    <3> SUFFICES ASSUME NEW k \in 1..N, NEW st \in I[k - 1] PROVE F[<<st, k>>] = Prune(st.m, list[k], st.layer)
      OBVIOUS
    <3>1. k - 1 \in 0..N
      BY <1>2
    <3> HIDE DEF I
    <3>2. st \in X
      BY <3>1
    <3> HIDE DEF X
    <3> QED
      BY <3>2
  <2> HIDE DEF I, F
  <2>2. \A k \in 1..N : \A st \in I[k - 1] : F[<<st, k>>] \in I[k]
    BY <2>1, <1>4
  <2>3. PICK g : IsRun(g, N, b0, F, I)
    BY <1>2, <1>3, <2>2, RunExists
  <2>4. /\ g = [k \in 0..N |-> g[k]] /\ g[0] = b0
        /\ \A k \in 1..N : g[k] = F[<<g[k - 1], k>>]
        /\ \A k \in 0..N : g[k] \in I[k]
    BY <2>3 DEF IsRun
  <2>5. ASSUME NEW k \in 1..N PROVE g[k] = Prune(g[k - 1].m, list[k], g[k - 1].layer)
    <3>1. k - 1 \in 0..N
      BY <1>2
    <3> QED
      BY <3>1, <2>1, <2>4
  <2>6. ASSUME NEW k \in 0..N PROVE g[k] = IF k = 0 THEN b0 ELSE Prune(g[k - 1].m, list[k], g[k - 1].layer)
    <3>1. k = 0 \/ k \in 1..N
      BY <1>2
    <3> QED
      BY <2>4, <2>5, <3>1
  <2>7. Q(g)
    <3> HIDE DEF N
    <3> QED
      BY <2>4, <2>6
  <2> QED
    BY <2>7
<1>6. Q(w)
  <2> HIDE DEF Q
  <2> QED
    BY <1>5
<1>7. w[N] \in I[N]
  <2> HIDE DEF w
  <2>1. w[0] = b0 /\ \A k \in 1..N : w[k] = Prune(w[k - 1].m, list[k], w[k - 1].layer)
    BY <1>2, <1>6
  <2> HIDE DEF I, Q, N
  <2>2. \A k \in 1..N : w[k - 1] \in I[k - 1] => w[k] \in I[k]
    BY <1>4, <2>1
  <2>3. w[0] \in I[0]
    BY <1>3, <2>1
  <2> QED
    BY ONLY <1>2, <2>2, <2>3, Turns
<1>8. PrunedBy(b, list) = w[N]
  BY DEF PrunedBy, InTurn, b0
<1> HIDE DEF w, Q, R
<1> QED
  BY <1>2, <1>7, <1>8

LEMMA PruneLayerGood ==
  ASSUME NEW b, Good(b), Filled(b), Fresh(b)
  PROVE  Peeled(b, Leaves(b), Len(Leaves(b)), PruneLayer(b).m, PruneLayer(b).layer)
<1>1. LeavesOK(b, Leaves(b))
  BY LeavesFacts
<1>2. PruneLayer(b) = PrunedBy(b, Leaves(b))
  BY DEF PruneLayer, Leaves, PrunedBy
<1> QED
  BY <1>1, <1>2, PruneAll

(***************************************************************************)
(* reduceTrees: the pruned tree grows back into the graph it came from.    *)
(***************************************************************************)
\* One round of reduceTrees.
ReduceOnce(last) ==
  LET b == GetAllNodes(last.m)
      r == PruneLayer(b)
  IN IF ~\E n \in ToSet(AllNodes(b)) : IsLeaf(b, n) THEN [last EXCEPT !.m = b]
     ELSE [m |-> ResetLists(r.m), layers |-> Append(last.layers, r.layer)]

Rounds == [m : Managers, layers : Seq(Seq(Entries))]

ReducedTo(b0, r) ==
  r \in Rounds /\ Reduced(b0, r.m, r.layers) /\ Fresh(r.m) /\ r.m.gravity = b0.gravity

LEMMA ResetGood ==
  ASSUME NEW a, a \in Managers, NEW b, b = ResetLists(a)
  PROVE  Alike(a, b) /\ Fresh(b) /\ b.allNodes = Null /\ b.allEdges = Null /\ b.gravity = a.gravity
<1>1. Cached(a, [a EXCEPT !.allNodes = Null, !.allEdges = Null], Null, Null, a.gravity)
  BY CacheForms DEF Maybe
<1> QED
  BY <1>1 DEF Cached, ResetLists, Fresh

LEMMA ReduceStep ==
  ASSUME NEW b0, NEW last, ReducedTo(b0, last)
  PROVE  ReducedTo(b0, ReduceOnce(last))
<1> DEFINE a == last.m
           layers == last.layers
           b == GetAllNodes(a)
           r == PruneLayer(b)
           d == r.m
           L == r.layer
           d2 == ResetLists(d)
           l2 == Append(layers, L)
<1>1. last \in Rounds /\ Reduced(b0, a, layers) /\ Fresh(a) /\ a.gravity = b0.gravity
  BY DEF ReducedTo
<1>2. Good(a) /\ Filled(a) /\ layers \in Seq(Seq(Entries))
  BY <1>1 DEF Reduced, LayersOK
<1> HIDE DEF a, layers
<1>3. Alike(a, b) /\ Fresh(b) /\ b.gravity = a.gravity
  BY <1>1, <1>2, GetAll
<1>4. Good(b) /\ Filled(b) /\ b \in Managers
  BY <1>2, <1>3, AlikeGood DEF Good
<1>5. Reduced(b0, b, layers)
  BY <1>1, <1>3, AlikeReduced
<1>6. CASE ~\E n \in ToSet(AllNodes(b)) : IsLeaf(b, n)
  <2>1. ReduceOnce(last) = [last EXCEPT !.m = b]
    BY <1>6 DEF ReduceOnce, a
  <2> DEFINE q == [last EXCEPT !.m = b]
  <2> HIDE DEF b
  <2>2. q \in Rounds /\ q.m = b /\ q.layers = layers
    BY <1>1, <1>4 DEF Rounds, layers
  <2> HIDE DEF q
  <2>3. ReducedTo(b0, q)
    BY <2>2, <1>1, <1>3, <1>5 DEF ReducedTo
  <2> QED
    BY <2>1, <2>3 DEF q, b
<1>7. CASE \E n \in ToSet(AllNodes(b)) : IsLeaf(b, n)
  <2>1. ReduceOnce(last) = [m |-> d2, layers |-> l2]
    BY <1>7 DEF ReduceOnce, a, layers
  <2>2. Peeled(b, Leaves(b), Len(Leaves(b)), d, L)
    BY <1>3, <1>4, PruneLayerGood
  <2> HIDE DEF b, r
  <2>3. Good(d) /\ SameCaches(b, d) /\ L \in Seq(Entries)
    BY <2>2 DEF Peeled, PeeledTo
  <2>4. Reduced(b0, d, l2)
    BY <1>5, <2>2, PeelReduced
  <2>5. d \in Managers /\ l2 \in Seq(Seq(Entries))
    BY <2>3, <2>4 DEF Good, Reduced, LayersOK
  <2> HIDE DEF d, L, l2
  <2>6. Alike(d, d2) /\ Fresh(d2) /\ d2.gravity = d.gravity
    BY <2>5, ResetGood
  <2> HIDE DEF d2
  <2>7. Reduced(b0, d2, l2)
    BY <2>4, <2>6, AlikeReduced
  <2>8. d2.gravity = b0.gravity /\ d2 \in Managers
    BY <2>3, <2>6, <1>1, <1>3 DEF SameCaches, Alike
  <2> DEFINE q == [m |-> d2, layers |-> l2]
  <2>9. q \in Rounds /\ q.m = d2 /\ q.layers = l2
    BY <2>5, <2>8 DEF Rounds
  <2> HIDE DEF q
  <2>10. ReducedTo(b0, q)
    BY <2>6, <2>7, <2>8, <2>9 DEF ReducedTo
  <2> QED
    BY <2>1, <2>10 DEF q
<1> QED
  BY <1>6, <1>7

\* reduceTrees takes leaves out layer by layer, and what it keeps of them is
\* enough to put each back beside a node that is there by then.
THEOREM ReduceGood ==
  ASSUME NEW b0, Good(b0), Filled(b0), Fresh(b0)
  PROVE  ReducedTo(b0, ReduceTrees(b0))
<1> DEFINE N == Cardinality(Node)
           base == [m |-> b0, layers |-> <<>>]
           I == [k \in 0..N |-> {st \in Rounds : ReducedTo(b0, st)}]
           Q(f) == f = [k \in 0..N |-> IF k = 0 THEN base ELSE ReduceOnce(f[k - 1])]
           w == CHOOSE f : Q(f)
<1>2. N \in Nat
  BY FS_CardinalityType, NodeAssumption
<1>3. base \in I[0]
  <2> DEFINE s == <<>>
             c == [m |-> b0, layers |-> s]
  <2>1. s \in Seq(Seq(Entries)) /\ b0 \in Managers /\ s = <<>>
    BY DEF Good
  <2> HIDE DEF s
  <2>2. LayersOK(b0, s) /\ NodesIn(Out(s)) = {} /\ EdgesIn(Out(s)) = {}
    BY <2>1, NothingOut
  <2>3. Reduced(b0, b0, s)
    BY <2>2 DEF Reduced, SameGraphs, SameEnds
  <2>4. c.m = b0 /\ c.layers = s /\ c \in Rounds
    BY <2>1 DEF Rounds
  <2>5. 0 \in 0..N
    BY <1>2
  <2> HIDE DEF c
  <2>6. ReducedTo(b0, c)
    BY <2>3, <2>4 DEF ReducedTo
  <2>7. c \in I[0]
    BY <2>4, <2>5, <2>6
  <2> QED
    BY <2>7 DEF c, s
<1> HIDE DEF base
<1>4. ASSUME NEW k \in 1..N, NEW st \in I[k - 1] PROVE ReduceOnce(st) \in I[k]
  <2>1. k \in 0..N /\ k - 1 \in 0..N
    BY <1>2
  <2>2. ReducedTo(b0, st)
    BY <2>1
  <2>3. ReducedTo(b0, ReduceOnce(st))
    BY <2>2, ReduceStep
  <2>4. ReduceOnce(st) \in Rounds
    BY <2>3 DEF ReducedTo
  <2> QED
    BY <2>1, <2>3, <2>4
<1>5. \E f : Q(f)
  <2> DEFINE X == UNION {I[k] : k \in 0..N}
             F == [pr \in X \X (1..N) |-> ReduceOnce(pr[1])]
  <2>1. \A k \in 1..N : \A st \in I[k - 1] : F[<<st, k>>] = ReduceOnce(st)
    <3> SUFFICES ASSUME NEW k \in 1..N, NEW st \in I[k - 1] PROVE F[<<st, k>>] = ReduceOnce(st)
      OBVIOUS
    <3>1. k - 1 \in 0..N
      BY <1>2
    <3> HIDE DEF I
    <3>2. st \in X
      BY <3>1
    <3> HIDE DEF X
    <3> QED
      BY <3>2
  <2> HIDE DEF I, F
  <2>2. \A k \in 1..N : \A st \in I[k - 1] : F[<<st, k>>] \in I[k]
    BY <2>1, <1>4
  <2>3. PICK g : IsRun(g, N, base, F, I)
    BY <1>2, <1>3, <2>2, RunExists
  <2>4. /\ g = [k \in 0..N |-> g[k]] /\ g[0] = base
        /\ \A k \in 1..N : g[k] = F[<<g[k - 1], k>>]
        /\ \A k \in 0..N : g[k] \in I[k]
    BY <2>3 DEF IsRun
  <2>5. ASSUME NEW k \in 1..N PROVE g[k] = ReduceOnce(g[k - 1])
    <3>1. k - 1 \in 0..N
      BY <1>2
    <3> QED
      BY <3>1, <2>1, <2>4
  <2>6. ASSUME NEW k \in 0..N PROVE g[k] = IF k = 0 THEN base ELSE ReduceOnce(g[k - 1])
    <3>1. k = 0 \/ k \in 1..N
      BY <1>2
    <3> QED
      BY <2>4, <2>5, <3>1
  <2>7. Q(g)
    <3> HIDE DEF N
    <3> QED
      BY <2>4, <2>6
  <2> QED
    BY <2>7
<1>6. Q(w)
  <2> HIDE DEF Q
  <2> QED
    BY <1>5
<1>7. w[N] \in I[N]
  <2> HIDE DEF w
  <2>1. w[0] = base /\ \A k \in 1..N : w[k] = ReduceOnce(w[k - 1])
    BY <1>2, <1>6
  <2> HIDE DEF I, Q
  <2> QED
    BY <1>2, <1>3, <1>4, <2>1, Turns
<1>8. ReduceTrees(b0) = w[N]
  BY DEF ReduceTrees, ReduceOnce, base
<1> HIDE DEF w, Q
<1> QED
  BY <1>2, <1>7, <1>8

(***************************************************************************)
(* The gravity list.                                                       *)
(***************************************************************************)
LEMMA UpdateGravityGood ==
  ASSUME NEW a, Good(a), Fresh(a), NEW list, list \in Seq(Node), NEW b, b = UpdateGravity(a, list)
  PROVE  Gravitated(a, b, list)
<1> DEFINE g == GetAllNodes(a)
           g0 == [g EXCEPT !.gravity = Null]
           l == InGraph(list, LiveNodes(a))
<1>1. AllNodes(a) = LiveNodes(a)
  BY FreshLists
<1>2. b = SetGravity(g0, l)
  BY <1>1 DEF UpdateGravity, InGraph
<1>3. /\ Alike(a, g) /\ Fresh(g) /\ g.allNodes = LiveNodes(a) /\ g.allEdges = a.allEdges
  BY GetAll
<1> HIDE DEF g
<1>4. Good(g) /\ LiveNodes(g) = LiveNodes(a) /\ LiveEdges(g) = LiveEdges(a)
  BY <1>3, AlikeGood
<1>5. Cached(g, g0, g.allNodes, g.allEdges, Null)
  <2>1. Null \in Maybe(NodeLists) /\ Null \in Maybe(EdgeLists) /\ g \in Managers
    BY <1>4 DEF Maybe, Good
  <2> QED
    BY <2>1, CacheForms
<1> HIDE DEF g0
<1>6. Alike(g, g0) /\ g0.allNodes = g.allNodes /\ g0.allEdges = g.allEdges /\ g0.gravity = Null
  BY <1>5 DEF Cached
<1>7. Good(g0) /\ LiveNodes(g0) = LiveNodes(a) /\ LiveEdges(g0) = LiveEdges(a)
  BY <1>4, <1>6, AlikeGood
<1>8. l \in Seq(Node)
  BY InGraphList
<1> HIDE DEF l
<1>9. Cached(g0, b, g0.allNodes, g0.allEdges, l)
  BY <1>2, <1>6, <1>7, <1>8, SetGravityGood
<1>10. Alike(g0, b) /\ b.allNodes = g0.allNodes /\ b.allEdges = g0.allEdges /\ b.gravity = l
  BY <1>9 DEF Cached
<1>11. Good(b) /\ LiveNodes(b) = LiveNodes(a) /\ LiveEdges(b) = LiveEdges(a)
  BY <1>7, <1>10, AlikeGood
<1>12. Alike(a, b)
  BY <1>3, <1>6, <1>10 DEF Alike, SameTree, SameGraphs, SameEdges, SameEnds
<1>13. Fresh(b)
  BY <1>3, <1>6, <1>10, <1>11, <1>4 DEF Fresh
<1> QED
  BY <1>3, <1>6, <1>10, <1>11, <1>12, <1>13 DEF Gravitated, l

(***************************************************************************)
(* classicLayout.                                                          *)
(***************************************************************************)
Classic(B) ==
  LET list == NodesWithGravity(B)
      b    == Listed(B, list)
  IN ReduceTrees(Guarded(b, Null \notin Ancestors(b), b))

LEMMA ClassicGood ==
  ASSUME NEW B, Good(B), Ranked(B), Rooted(B), Filled(B), NoCaches(B)
  PROVE  /\ NodesWithGravity(B) \in Seq(Node)
         /\ Springy(B, NodesWithGravity(B), UpdateGravity(Classic(B).m, NodesWithGravity(B)), Classic(B).layers)
<1> DEFINE list == NodesWithGravity(B)
           b == Listed(B, list)
           r == Classic(B)
           a == r.m
           d == UpdateGravity(a, list)
           layers == r.layers
<1>1. list \in Seq(Node)
  BY NodesWithGravityList
<1>2. /\ Alike(B, b) /\ Fresh(b) /\ b.gravity = list /\ Good(b)
      /\ Guarded(b, Null \notin Ancestors(b), b) = b
  <2> HIDE DEF list
  <2> QED
    BY <1>1, ListedGood
<1>3. r = ReduceTrees(b)
  BY <1>2 DEF Classic
<1>4. Filled(b)
  BY <1>2, AlikeGood
<1> HIDE DEF r, b, list
<1>5. ReducedTo(b, r)
  BY <1>2, <1>3, <1>4, ReduceGood
<1>6. Reduced(b, a, layers) /\ Fresh(a) /\ Good(a)
  BY <1>5 DEF ReducedTo, Reduced
<1>7. Reduced(B, a, layers)
  BY <1>2, <1>6, ReducedFrom
<1> HIDE DEF a, layers
<1>8. Gravitated(a, d, list)
  BY <1>1, <1>6, UpdateGravityGood
<1> HIDE DEF d
<1>9. Alike(a, d) /\ Fresh(d) /\ d.gravity = InGraph(list, LiveNodes(d))
  BY <1>8 DEF Gravitated
<1>10. Reduced(B, d, layers)
  BY <1>7, <1>9, AlikeReduced
<1>11. Springy(B, list, d, layers)
  BY <1>9, <1>10 DEF Springy
<1> QED
  BY <1>1, <1>11 DEF list, d, a, layers, r

(***************************************************************************)
(* growTree: a layer of leaves goes back.                                  *)
(***************************************************************************)
LEMMA RegrowStep ==
  ASSUME NEW b, Good(b), NEW list, BackOK(b, list), NEW X, X \subseteq ToSet(list),
         NEW a, Regrown(b, a, X), NEW x, x \in ToSet(list), x \notin X
  PROVE  Regrown(b, RegrowNode(a, x), X \cup {x})
<1> DEFINE n == x.node
           e == x.edge
           G == x.graph
           o == Other(b, x)
           a1 == AddNode(a, G, n)
           s == a.source[e]
           u == a.target[e]
           d == AddOwnEdge(a1, G, e, s, u)
<1>1. /\ Good(a) /\ a.owner = b.owner /\ SameGraphs(b, a) /\ SameEnds(b, a) /\ SameCaches(b, a) /\ Filled(a)
      /\ Live(a) = Live(b) \cup NodesIn(X) /\ Known(a) = Known(b) \cup EdgesIn(X)
  BY DEF Regrown
<1>2. EntryOK(b, x) /\ o \in Live(b) /\ ApartOK(ToSet(list)) /\ ToSet(list) \subseteq Entries
  BY Members DEF BackOK
<1>3. n \in Node /\ e \in Edge /\ G \in Node
  BY <1>2 DEF Entries
<1>4. /\ n \notin Live(b) /\ n # RootNode /\ b.owner[n] = G /\ G \in Graphs(b)
      /\ e \notin Known(b) /\ ~b.isInter[e]
      /\ n \in Ends(b, e) /\ b.source[e] # b.target[e] /\ o \in Node /\ b.owner[o] = G
  BY <1>2 DEF EntryOK
<1>5. n \notin NodesIn(X) /\ e \notin EdgesIn(X)
  <2>1. \A y \in X : y.node # n /\ y.edge # e
    BY <1>2 DEF ApartOK
  <2> QED
    BY <2>1 DEF NodesIn, EdgesIn
<1>6. n \notin Live(a) /\ e \notin Known(a) /\ G \in Graphs(a)
  BY <1>1, <1>4, <1>5 DEF SameGraphs, Graphs
<1>7. s = b.source[e] /\ u = b.target[e] /\ s # u
  BY <1>1, <1>4 DEF SameEnds
<1>8. {s, u} = {n, o}
  BY <1>4, <1>7 DEF Ends, Other, OtherEnd
<1>9. RegrowNode(a, x) = d
  BY DEF RegrowNode
<1> HIDE DEF n, e, G, o, s, u
<1>10. Entered(a, a1, G, n)
  BY <1>1, <1>3, <1>4, <1>6, AddNodeGood
<1> HIDE DEF a1
<1>11. /\ Good(a1) /\ Live(a1) = Live(a) \cup {n} /\ Known(a1) = Known(a)
       /\ a1.owner = [a.owner EXCEPT ![n] = G]
       /\ ToSet(a1.nodes[G]) = ToSet(a.nodes[G]) \cup {n}
       /\ SameGraphs(a, a1) /\ SameEdges(a, a1) /\ SameCaches(a, a1)
  BY <1>3, <1>10 DEF Entered
<1>12. a1.owner = a.owner
  <2>1. a.owner \in [Node -> Maybe(Node)] /\ a.owner[n] = G
    BY <1>1, <1>4, FieldTypes DEF Good
  <2> QED
    BY <2>1, <1>11
<1>13. n \in ToSet(a1.nodes[G]) /\ o \in ToSet(a1.nodes[G])
  <2>1. o \in Live(a1)
    BY <1>1, <1>2, <1>11
  <2>2. a1.owner[o] = G
    BY <1>1, <1>4, <1>12
  <2> QED
    BY <2>1, <2>2, <1>11, LiveFacts
<1>14. s \in ToSet(a1.nodes[G]) /\ u \in ToSet(a1.nodes[G])
  BY <1>8, <1>13
<1>15. EdgeAdded(a1, d, e, s, u)
  <2>1. e \notin Known(a1)
    BY <1>6, <1>11
  <2> HIDE DEF d
  <2>2. d = AddOwnEdge(a1, G, e, s, u)
    BY DEF d
  <2> QED
    BY ONLY <2>1, <2>2, <1>3, <1>7, <1>11, <1>14, AddOwnEdgeGood
<1> HIDE DEF d
<1>16. /\ Good(d) /\ Known(d) = Known(a) \cup {e} /\ SameTree(a1, d) /\ SameCaches(a1, d)
       /\ d.source = [a1.source EXCEPT ![e] = s] /\ d.target = [a1.target EXCEPT ![e] = u]
       /\ \A y \in Edge : y # e => d.isInter[y] = a1.isInter[y]
  BY <1>11, <1>15 DEF EdgeAdded
<1>17. SameEnds(a, a1)
  BY <1>11 DEF SameEdges
<1>18. d.source = a.source /\ d.target = a.target
  <2>1. a1.source \in [Edge -> Maybe(Node)] /\ a1.target \in [Edge -> Maybe(Node)]
    BY <1>11, FieldTypes DEF Good
  <2>2. a1.source = a.source /\ a1.target = a.target
    BY <1>17 DEF SameEnds
  <2>3. a1.source[e] = s /\ a1.target[e] = u
    BY <2>2 DEF s, u
  <2> QED
    BY <2>1, <2>2, <2>3, <1>16
<1>19. d.isInter = a.isInter
  <2>1. d.isInter \in [Edge -> BOOLEAN] /\ a.isInter \in [Edge -> BOOLEAN]
    BY <1>1, <1>16, FieldTypes DEF Good
  <2>2. ~a.isInter[e]
    BY <1>1, <1>4 DEF SameEnds
  <2>3. ~d.isInter[e]
    <3>1. e \in Known(d) /\ d.owner = a.owner
      BY <1>12, <1>16 DEF SameTree
    <3>2. d.isInter[e] <=> d.owner[d.source[e]] # d.owner[d.target[e]]
      BY <3>1, <1>16, EdgeFacts
    <3>3. a.owner[s] = G /\ a.owner[u] = G
      BY <1>8, <1>1, <1>4
    <3> QED
      BY <3>1, <3>2, <3>3, <1>18 DEF s, u
  <2>4. \A y \in Edge : d.isInter[y] = a.isInter[y]
    BY <2>1, <2>2, <2>3, <1>16, <1>17 DEF SameEnds
  <2> QED
    BY <2>1, <2>4
<1>20. SameEnds(b, d) /\ SameGraphs(b, d) /\ SameCaches(b, d) /\ d.owner = b.owner
  BY <1>1, <1>11, <1>12, <1>16, <1>18, <1>19 DEF SameEnds, SameGraphs, SameCaches, SameTree
<1>21. Live(d) = Live(a) \cup {n}
  BY <1>11, <1>16, SameTreeShape
<1>22. Filled(d)
  <2>1. RootNode \in Node /\ a.nodes[RootNode] \in Seq(Node) /\ d.nodes[RootNode] \in Seq(Node)
    BY <1>1, <1>16, GoodLists, NodeAssumption DEF Good
  <2>2. \A H \in Node : ToSet(d.nodes[H]) = IF H = G THEN ToSet(a.nodes[G]) \cup {n} ELSE ToSet(a.nodes[H])
    BY <1>10, <1>16 DEF Entered, SameTree
  <2>3. a.nodes[RootNode] # <<>>
    BY <1>1 DEF Filled
  <2> DEFINE q == a.nodes[RootNode]
  <2>4. q \in Seq(Node) /\ q # <<>>
    BY <2>1, <2>3
  <2> HIDE DEF q
  <2>5. ToSet(q) # {}
    BY ONLY <2>4, Members
  <2>6. ToSet(q) \subseteq ToSet(d.nodes[RootNode])
    BY <2>1, <2>2 DEF q
  <2>7. ToSet(d.nodes[RootNode]) # {}
    BY <2>5, <2>6
  <2> QED
    BY <2>7, NoMembers DEF Filled
<1>23. NodesIn(X \cup {x}) = NodesIn(X) \cup {n} /\ EdgesIn(X \cup {x}) = EdgesIn(X) \cup {e}
  BY DEF NodesIn, EdgesIn, n, e
<1>24. Live(d) = Live(b) \cup NodesIn(X \cup {x}) /\ Known(d) = Known(b) \cup EdgesIn(X \cup {x})
  BY <1>1, <1>16, <1>21, <1>23
<1> QED
  BY <1>9, <1>16, <1>20, <1>22, <1>24 DEF Regrown

LEMMA RegrowAll ==
  ASSUME NEW b, Good(b), Filled(b), NEW list, BackOK(b, list)
  PROVE  Regrown(b, InTurn(RegrowNode, b, list), ToSet(list))
<1> DEFINE N == Len(list)
           I == [k \in 0..N |-> {a \in Managers : Regrown(b, a, Seen(list, k))}]
           Q(f) == f = [k \in 0..N |-> IF k = 0 THEN b ELSE RegrowNode(f[k - 1], list[k])]
           w == CHOOSE f : Q(f)
<1>1. list \in Seq(Entries) /\ IsInjective(list)
  BY DEF BackOK
<1>2. N \in Nat
  BY <1>1, Members
<1>3. b \in I[0]
  <2>1. Seen(list, 0) = {} /\ 0 \in 0..N
    BY <1>1, <1>2, SeenTurns
  <2>2. Regrown(b, b, {})
    BY DEF Regrown, SameGraphs, SameEnds, SameCaches, NodesIn, EdgesIn
  <2>3. b \in Managers
    BY DEF Good
  <2> QED
    BY <2>1, <2>2, <2>3
<1>4. ASSUME NEW k \in 1..N, NEW st \in I[k - 1] PROVE RegrowNode(st, list[k]) \in I[k]
  <2>1. k \in 0..N /\ k - 1 \in 0..N
    BY <1>2
  <2>2. Regrown(b, st, Seen(list, k - 1))
    BY <2>1
  <2> HIDE DEF I, Q, w
  <2>3. /\ Seen(list, k) = Seen(list, k - 1) \cup {list[k]} /\ list[k] \notin Seen(list, k - 1)
        /\ list[k] \in ToSet(list) /\ Seen(list, k - 1) \subseteq ToSet(list)
    BY <1>1, <1>2, <2>1, SeenTurns
  <2>4. Regrown(b, RegrowNode(st, list[k]), Seen(list, k - 1) \cup {list[k]})
    BY <2>2, <2>3, RegrowStep
  <2>5. Regrown(b, RegrowNode(st, list[k]), Seen(list, k))
    BY <2>3, <2>4
  <2>6. RegrowNode(st, list[k]) \in Managers
    BY <2>5 DEF Regrown, Good
  <2> QED
    BY <2>1, <2>5, <2>6 DEF I
<1>5. \E f : Q(f)
  <2> DEFINE X == UNION {I[k] : k \in 0..N}
             F == [pr \in X \X (1..N) |-> RegrowNode(pr[1], list[pr[2]])]
  <2>1. \A k \in 1..N : \A st \in I[k - 1] : F[<<st, k>>] = RegrowNode(st, list[k])
    <3> SUFFICES ASSUME NEW k \in 1..N, NEW st \in I[k - 1] PROVE F[<<st, k>>] = RegrowNode(st, list[k])
      OBVIOUS
    <3>1. k - 1 \in 0..N
      BY <1>2
    <3> HIDE DEF I
    <3>2. st \in X
      BY <3>1
    <3> HIDE DEF X
    <3> QED
      BY <3>2
  <2> HIDE DEF I, F
  <2>2. \A k \in 1..N : \A st \in I[k - 1] : F[<<st, k>>] \in I[k]
    BY <2>1, <1>4
  <2>3. PICK g : IsRun(g, N, b, F, I)
    BY <1>2, <1>3, <2>2, RunExists
  <2>4. /\ g = [k \in 0..N |-> g[k]] /\ g[0] = b
        /\ \A k \in 1..N : g[k] = F[<<g[k - 1], k>>]
        /\ \A k \in 0..N : g[k] \in I[k]
    BY <2>3 DEF IsRun
  <2>5. ASSUME NEW k \in 1..N PROVE g[k] = RegrowNode(g[k - 1], list[k])
    <3>1. k - 1 \in 0..N
      BY <1>2
    <3> QED
      BY <3>1, <2>1, <2>4
  <2>6. ASSUME NEW k \in 0..N PROVE g[k] = IF k = 0 THEN b ELSE RegrowNode(g[k - 1], list[k])
    <3>1. k = 0 \/ k \in 1..N
      BY <1>2
    <3> QED
      BY <2>4, <2>5, <3>1
  <2>7. Q(g)
    <3> HIDE DEF N
    <3> QED
      BY <2>4, <2>6
  <2> QED
    BY <2>7
<1>6. Q(w)
  <2> HIDE DEF Q
  <2> QED
    BY <1>5
<1>7. w[N] \in I[N]
  <2> HIDE DEF w
  <2>1. w[0] = b /\ \A k \in 1..N : w[k] = RegrowNode(w[k - 1], list[k])
    BY <1>2, <1>6
  <2> HIDE DEF I, Q
  <2> QED
    BY <1>2, <1>3, <1>4, <2>1, Turns
<1>8. InTurn(RegrowNode, b, list) = w[N]
  BY DEF InTurn
<1>9. Seen(list, N) = ToSet(list) /\ N \in 0..N
  BY <1>1, <1>2, SeenTurns
<1> HIDE DEF w, Q
<1> QED
  BY <1>7, <1>8, <1>9

\* growTree puts the last layer back, with the edges it had, and leaves the
\* layers before it as they can still go back.
THEOREM GrowReduced ==
  ASSUME NEW B, NEW a, NEW layers, Reduced(B, a, layers), layers # <<>>,
         NEW d, d = InTurn(RegrowNode, a, Last(layers))
  PROVE  Reduced(B, d, Front(layers)) /\ SameCaches(a, d)
<1> DEFINE F == Front(layers)
           L == Last(layers)
           N == Len(F)
<1>1. /\ Good(a) /\ SameGraphs(B, a) /\ a.owner = B.owner /\ SameEnds(B, a) /\ Filled(a)
      /\ LayersOK(a, layers)
      /\ Live(B) = Live(a) \cup NodesIn(Out(layers)) /\ Known(B) = Known(a) \cup EdgesIn(Out(layers))
  BY DEF Reduced
<1>2. /\ layers \in Seq(Seq(Entries)) /\ \A x \in Out(layers) : EntryOK(a, x)
      /\ ApartOK(Out(layers)) /\ AllApart(layers)
      /\ \A i \in DOMAIN layers : \A x \in ToSet(layers[i]) : Other(a, x) \in Live(a) \cup Later(layers, i)
  BY <1>1 DEF LayersOK
<1>3. F \in Seq(Seq(Entries)) /\ L \in Seq(Entries) /\ LayerAdded(F, L, layers)
  BY <1>2, FrontAndLast
<1>4. d = InTurn(RegrowNode, a, L)
  OBVIOUS
<1> HIDE DEF F, L
<1>5. /\ N \in Nat /\ DOMAIN F = 1..N /\ DOMAIN layers = 1..(N + 1)
      /\ layers[N + 1] = L
      /\ \A i \in DOMAIN F : layers[i] = F[i]
      /\ Out(layers) = Out(F) \cup ToSet(L)
      /\ \A i \in DOMAIN F : Later(layers, i) = Later(F, i) \cup NodesIn(ToSet(L))
      /\ Later(layers, N + 1) = {}
  BY <1>3 DEF LayerAdded
<1> HIDE DEF N
<1>6. BackOK(a, L)
  <2>1. IsInjective(L)
    BY <1>2, <1>5 DEF AllApart
  <2>2. ApartOK(ToSet(L))
    BY <1>2, <1>5 DEF ApartOK
  <2>3. ASSUME NEW x \in ToSet(L) PROVE EntryOK(a, x) /\ Other(a, x) \in Live(a)
    <3>1. EntryOK(a, x)
      BY <1>2, <1>5
    <3>2. N + 1 \in DOMAIN layers
      BY <1>5
    <3>3. x \in ToSet(layers[N + 1])
      BY <1>5
    <3>4. Other(a, x) \in Live(a) \cup Later(layers, N + 1)
      BY <3>2, <3>3, <1>2
    <3> QED
      BY <3>1, <3>4, <1>5
  <2> QED
    BY <2>1, <2>2, <2>3, <1>3 DEF BackOK
<1>7. Regrown(a, d, ToSet(L))
  BY <1>1, <1>4, <1>6, RegrowAll
<1>8. /\ Good(d) /\ d.owner = a.owner /\ SameGraphs(a, d) /\ SameEnds(a, d) /\ SameCaches(a, d) /\ Filled(d)
      /\ Live(d) = Live(a) \cup NodesIn(ToSet(L)) /\ Known(d) = Known(a) \cup EdgesIn(ToSet(L))
  BY <1>7 DEF Regrown
<1>9. Graphs(d) = Graphs(a)
  BY <1>8 DEF SameGraphs, Graphs
<1>10. \A x \in Out(F) : x \notin ToSet(L)
  <2> SUFFICES ASSUME NEW i \in DOMAIN F, NEW x \in ToSet(F[i]) PROVE x \notin ToSet(L)
    BY DEF Out
  <2>1. i \in DOMAIN layers /\ N + 1 \in DOMAIN layers /\ i # N + 1
    BY <1>5
  <2>2. ToSet(layers[i]) \cap ToSet(layers[N + 1]) = {}
    BY <2>1, <1>2 DEF AllApart
  <2> QED
    BY <2>2, <1>5
<1>11. \A x \in Out(F) : EntryOK(d, x) /\ Other(d, x) = Other(a, x)
  <2> SUFFICES ASSUME NEW x \in Out(F) PROVE EntryOK(d, x) /\ Other(d, x) = Other(a, x)
    OBVIOUS
  <2>1. EntryOK(a, x) /\ x \in Out(layers)
    BY <1>2, <1>5
  <2>2. \A y \in ToSet(L) : y.node # x.node /\ y.edge # x.edge
    BY <2>1, <1>2, <1>5, <1>10 DEF ApartOK
  <2>3. x.node \notin NodesIn(ToSet(L)) /\ x.edge \notin EdgesIn(ToSet(L))
    BY <2>2 DEF NodesIn, EdgesIn
  <2>4. x.node \notin Live(d) /\ x.edge \notin Known(d)
    BY <2>1, <2>3, <1>8 DEF EntryOK
  <2> QED
    BY <2>1, <2>4, <1>8, <1>9, EntryKept
<1>12. ASSUME NEW i \in DOMAIN F, NEW x \in ToSet(F[i]) PROVE Other(d, x) \in Live(d) \cup Later(F, i)
  <2>1. i \in DOMAIN layers /\ x \in ToSet(layers[i])
    BY <1>5
  <2>2. Other(a, x) \in Live(a) \cup Later(layers, i)
    BY <2>1, <1>2
  <2>3. x \in Out(F)
    BY DEF Out
  <2> QED
    BY <2>2, <2>3, <1>5, <1>8, <1>11
<1>13. ApartOK(Out(F))
  BY <1>2, <1>5 DEF ApartOK
<1>14. AllApart(F)
  <2>1. \A i \in DOMAIN F : i \in DOMAIN layers /\ layers[i] = F[i]
    BY <1>5
  <2>2. \A i \in DOMAIN layers : IsInjective(layers[i])
    BY <1>2 DEF AllApart
  <2>3. \A i, j \in DOMAIN layers : i # j => ToSet(layers[i]) \cap ToSet(layers[j]) = {}
    BY <1>2 DEF AllApart
  <2>4. \A i \in DOMAIN F : IsInjective(F[i])
    BY <2>1, <2>2
  <2>5. \A i, j \in DOMAIN F : i # j => ToSet(F[i]) \cap ToSet(F[j]) = {}
    BY <2>1, <2>3
  <2> QED
    BY <2>4, <2>5 DEF AllApart
<1>15. LayersOK(d, F)
  BY <1>3, <1>11, <1>12, <1>13, <1>14 DEF LayersOK
<1>16. SameGraphs(B, d) /\ SameEnds(B, d) /\ d.owner = B.owner
  BY <1>1, <1>8 DEF SameGraphs, SameEnds
<1>17. NodesIn(Out(layers)) = NodesIn(Out(F)) \cup NodesIn(ToSet(L))
       /\ EdgesIn(Out(layers)) = EdgesIn(Out(F)) \cup EdgesIn(ToSet(L))
  BY <1>5 DEF NodesIn, EdgesIn
<1>18. Live(B) = Live(d) \cup NodesIn(Out(F)) /\ Known(B) = Known(d) \cup EdgesIn(Out(F))
  BY <1>1, <1>8, <1>17
<1> QED
  BY <1>8, <1>15, <1>16, <1>18 DEF Reduced, F

(***************************************************************************)
(* What the steps of runLayout have to do with each other.                 *)
(***************************************************************************)
Start(c)  == Transferred(c)

Packed(c) == Untiled(c, Start(c))

Base(c)   == DropInvalidEdges(Packed(c))

LEMMA StartFacts ==
  ASSUME NEW c, c \in Maps, c.nodes # <<>>
  PROVE  Planted(c, Start(c)) /\ Placed(c, Start(c))
<1> DEFINE a == Start(c)
<1>1. MapOK(c)
  BY MapFacts
<1>2. Placed(c, a)
  BY <1>1, TransferredIsPlaced DEF Start
<1> HIDE DEF a
<1>3. /\ Good(a) /\ Ranked(a) /\ Rooted(a) /\ Filled(a) /\ NoCaches(a)
      /\ Live(a) = Elements(c) /\ \A n \in Elements(c) : a.owner[n] # Null
  BY <1>1, <1>2, PlacedTree
<1>4. \A n \in Node : n \notin Elements(c) => a.owner[n] = Null
  BY <1>2 DEF Placed
<1>5. Planted(c, a)
  BY <1>3, <1>4 DEF Planted
<1> QED
  BY <1>2, <1>5 DEF a

LEMMA PackedFacts ==
  ASSUME NEW c, c \in Maps, c.nodes # <<>>
  PROVE  Tiled(c, Packed(c))
<1>1. MapOK(c) /\ DummiesOK(Elements(c)) /\ Planted(c, Start(c))
  BY MapFacts, DummyFacts, StartFacts
<1> QED
  BY <1>1, TilingGood DEF Packed

LEMMA BaseFacts ==
  ASSUME NEW c, c \in Maps, c.nodes # <<>>
  PROVE  /\ Bare(Base(c)) /\ \A n \in Elements(c) : Base(c).owner[n] # Null
         /\ Fewer(Packed(c), Base(c), InvalidEdges(Packed(c)))
<1> DEFINE a == Packed(c)
           b == Base(c)
<1>1. Tiled(c, a)
  BY PackedFacts
<1>2. b = DropInvalidEdges(a)
  BY DEF Base
<1> HIDE DEF a, b
<1>3. Good(a) /\ Ranked(a) /\ Rooted(a) /\ Filled(a) /\ NoCaches(a) /\ \A n \in Elements(c) : a.owner[n] # Null
  BY <1>1 DEF Tiled
<1>4. Fewer(a, b, InvalidEdges(a))
  BY <1>2, <1>3, DropInvalidGood
<1>5. Good(b) /\ SameTree(a, b) /\ SameCaches(a, b)
  BY <1>4 DEF Fewer
<1>6. Ranked(b) /\ Rooted(b) /\ Filled(b)
  BY <1>3, <1>5, SameTreeShape
<1>7. NoCaches(b)
  BY <1>3, <1>5 DEF SameCaches, NoCaches
<1>8. \A n \in Elements(c) : b.owner[n] # Null
  BY <1>3, <1>5 DEF SameTree
<1> QED
  BY <1>4, <1>5, <1>6, <1>7, <1>8 DEF a, b, Bare

(***************************************************************************)
(* The ticks.                                                              *)
(***************************************************************************)
\* A layer goes back and gravity takes hold of it.
Grow(a, layers, list) ==
  UpdateBounds(UpdateGravity(GrowTree(GetAllNodes(UpdateBounds(a)), layers).m, list))

LEMMA GrowSpringy ==
  ASSUME NEW B, NEW list, list \in Seq(Node), NEW a, NEW layers, Springy(B, list, a, layers), layers # <<>>
  PROVE  Springy(B, list, Grow(a, layers, list), Front(layers))
<1> DEFINE b == GetAllNodes(UpdateBounds(a))
           d == InTurn(RegrowNode, b, Last(layers))
           e == ResetLists(d)
           g == UpdateGravity(e, list)
           F == Front(layers)
<1>1. Springy(B, list, b, layers)
  BY ReadySpringy
<1>2. GrowTree(b, layers).m = e
  BY DEF GrowTree
<1>3. Grow(a, layers, list) = UpdateBounds(g)
  BY <1>2 DEF Grow
<1> HIDE DEF b
<1>4. Reduced(B, b, layers)
  BY <1>1, SpringyFacts
<1>5. Reduced(B, d, F)
  BY <1>4, GrowReduced
<1> HIDE DEF d, F
<1>6. Good(d) /\ d \in Managers
  BY <1>5 DEF Reduced, Good
<1>7. Alike(d, e) /\ Fresh(e)
  BY <1>6, ResetGood
<1> HIDE DEF e
<1>8. Reduced(B, e, F) /\ Good(e)
  BY <1>5, <1>6, <1>7, AlikeReduced, AlikeGood
<1>9. Gravitated(e, g, list)
  BY <1>7, <1>8, UpdateGravityGood
<1> HIDE DEF g
<1>10. Alike(e, g) /\ Fresh(g) /\ g.gravity = InGraph(list, LiveNodes(g))
  BY <1>9 DEF Gravitated
<1>11. Reduced(B, g, F)
  BY <1>8, <1>10, AlikeReduced
<1>12. Springy(B, list, g, F)
  BY <1>10, <1>11 DEF Springy
<1>13. UpdateBounds(g) = g
  BY <1>12, SpringyFacts
<1> QED
  BY <1>3, <1>12, <1>13 DEF F

(***************************************************************************)
(* The inductive invariant: what every step finds, as a function of the    *)
(* map that is laid out.                                                   *)
(***************************************************************************)
TilingFor(c) ==
  LET a     == Regrouped(c, Start(c))
      order == CompoundOrder(a)
  IN [order |-> order, pack |-> [k \in ToSet(order) |-> ToSet(Children(a, k))], groups |-> Groups(Start(c))]

Repopulated(t) ==
  RepopulateCompounds(FoldSet(LAMBDA p, placed : AdjustLocations(placed, Dummy(p), ToSet(t.groups[p])),
                              {}, DOMAIN t.groups), t.order, t.pack)

Early  == {"run", "spectral", "transfer"}

Middle == {"spectral", "transfer", "tile", "layout", "ticking", "untile"}

Late   == {"untile", "positions", "done"}

TickFields == {"total", "growing", "finished", "growIter", "afterIter", "cooling", "still"}

PhaseInv == cy \in Maps /\ phase \in Phases /\ (phase \in Middle => cy.nodes # <<>>)

GraphInv ==
  /\ phase \in Early => m = NewManager
  /\ phase = "tile" => m = Start(cy)
  /\ phase = "layout" => m = Packed(cy)
  /\ phase = "ticking" => Springy(Base(cy), NodesWithGravity(Base(cy)), m, pruned)
  /\ phase \in Late /\ cy.nodes # <<>> => Springy(Base(cy), NodesWithGravity(Base(cy)), m, <<>>)
  /\ cy.nodes = <<>> => m = NewManager

TickInv ==
  phase = "ticking" => /\ withGravity = NodesWithGravity(Base(cy)) /\ weight = NoOfChildren(Base(cy))
                       /\ DOMAIN clock = TickFields /\ (clock.finished => pruned = <<>>)

TilingInv ==
  /\ phase \in Early \cup {"tile"} \/ cy.nodes = <<>> => tiling = NoTiling
  /\ phase \in Late \cup {"layout", "ticking"} /\ cy.nodes # <<>> => tiling = TilingFor(cy)
  /\ phase \in {"positions", "done"} /\ cy.nodes # <<>> => inside = Repopulated(tiling)

CoseInv == PhaseInv /\ GraphInv /\ TickInv /\ TilingInv

LEMMA InitInv == Init => CoseInv
<1> SUFFICES ASSUME Init PROVE CoseInv
  OBVIOUS
<1>1. cy \in Maps /\ phase = "run" /\ m = NewManager /\ tiling = NoTiling
  BY DEF Init
<1> QED
  BY <1>1 DEF CoseInv, PhaseInv, GraphInv, TickInv, TilingInv, Early, Middle, Late, Phases

LEMMA RunStep == CoseInv /\ Run => CoseInv'
<1> SUFFICES ASSUME CoseInv, Run PROVE CoseInv'
  OBVIOUS
<1>1. /\ phase = "run" /\ phase' = (IF cy.nodes = <<>> THEN "positions" ELSE "spectral")
      /\ UNCHANGED <<cy, m, tiling>>
  BY DEF Run
<1>2. cy \in Maps /\ m = NewManager /\ tiling = NoTiling
  BY <1>1 DEF CoseInv, PhaseInv, GraphInv, TilingInv, Early
<1>3. PhaseInv'
  BY <1>1, <1>2 DEF PhaseInv, Phases, Middle
<1>4. GraphInv'
  BY <1>1, <1>2 DEF GraphInv, Early, Late
<1>5. TilingInv' /\ TickInv'
  BY <1>1, <1>2 DEF TilingInv, TickInv, Early, Late
<1> QED
  BY <1>3, <1>4, <1>5 DEF CoseInv

LEMMA SpectralLayoutStep == CoseInv /\ SpectralLayout => CoseInv'
<1> SUFFICES ASSUME CoseInv, SpectralLayout PROVE CoseInv'
  OBVIOUS
<1>1. phase = "spectral" /\ phase' = "transfer" /\ UNCHANGED <<cy, m, tiling>>
  BY DEF SpectralLayout
<1>2. cy \in Maps /\ cy.nodes # <<>> /\ m = NewManager /\ tiling = NoTiling
  BY <1>1 DEF CoseInv, PhaseInv, GraphInv, TilingInv, Early, Middle
<1>3. PhaseInv'
  BY <1>1, <1>2 DEF PhaseInv, Phases, Middle
<1>4. GraphInv'
  BY <1>1, <1>2 DEF GraphInv, Early, Late
<1>5. TilingInv' /\ TickInv'
  BY <1>1, <1>2 DEF TilingInv, TickInv, Early, Late
<1> QED
  BY <1>3, <1>4, <1>5 DEF CoseInv

LEMMA TransferStep == CoseInv /\ TransferElements => CoseInv'
<1> SUFFICES ASSUME CoseInv, TransferElements PROVE CoseInv'
  OBVIOUS
<1>1. phase = "transfer" /\ phase' = "tile" /\ m' = Start(cy) /\ UNCHANGED <<cy, tiling>>
  BY DEF TransferElements, Start
<1>2. cy \in Maps /\ cy.nodes # <<>> /\ tiling = NoTiling
  BY <1>1 DEF CoseInv, PhaseInv, TilingInv, Early, Middle
<1>3. PhaseInv'
  BY <1>1, <1>2 DEF PhaseInv, Phases, Middle
<1>4. GraphInv'
  BY <1>1, <1>2 DEF GraphInv, Early, Late
<1>5. TilingInv' /\ TickInv'
  BY <1>1, <1>2 DEF TilingInv, TickInv, Early, Late
<1> QED
  BY <1>3, <1>4, <1>5 DEF CoseInv

LEMMA TilingPreStep == CoseInv /\ TilingPreLayout => CoseInv'
<1> SUFFICES ASSUME CoseInv, TilingPreLayout PROVE CoseInv'
  OBVIOUS
<1>1. phase = "tile" /\ phase' = "layout" /\ UNCHANGED cy
  BY DEF TilingPreLayout
<1>2. cy \in Maps /\ cy.nodes # <<>> /\ m = Start(cy)
  BY <1>1 DEF CoseInv, PhaseInv, GraphInv, Middle
<1>3. m' = Packed(cy)
  <2>1. m' = Untiled(cy, m)
    BY DEF TilingPreLayout, Untiled, Regrouped, Level
  <2> QED
    BY <2>1, <1>2 DEF Packed
<1>4. tiling' = TilingFor(cy)
  <2>1. tiling' = [order |-> CompoundOrder(Regrouped(cy, m)),
                   pack |-> [k \in ToSet(CompoundOrder(Regrouped(cy, m))) |-> ToSet(Children(Regrouped(cy, m), k))],
                   groups |-> Groups(m)]
    BY DEF TilingPreLayout, Regrouped, Level
  <2> QED
    BY <2>1, <1>2 DEF TilingFor
<1>5. PhaseInv'
  BY <1>1, <1>2 DEF PhaseInv, Phases, Middle
<1>6. GraphInv'
  BY <1>1, <1>2, <1>3 DEF GraphInv, Early, Late
<1>7. TilingInv' /\ TickInv'
  BY <1>1, <1>2, <1>4 DEF TilingInv, TickInv, Early, Late
<1> QED
  BY <1>5, <1>6, <1>7 DEF CoseInv

LEMMA ClassicStep == CoseInv /\ ClassicLayout => CoseInv'
<1> SUFFICES ASSUME CoseInv, ClassicLayout PROVE CoseInv'
  OBVIOUS
<1>1. phase = "layout" /\ phase' = "ticking" /\ UNCHANGED <<cy, tiling>> /\ clock' = NewClock
  BY DEF ClassicLayout
<1>2. cy \in Maps /\ cy.nodes # <<>> /\ m = Packed(cy) /\ tiling = TilingFor(cy)
  BY <1>1 DEF CoseInv, PhaseInv, GraphInv, TilingInv, Middle, Late
<1> DEFINE B == Base(cy)
           list == NodesWithGravity(B)
<1>3. /\ withGravity' = list /\ weight' = NoOfChildren(B)
      /\ m' = UpdateGravity(Classic(B).m, list) /\ pruned' = Classic(B).layers
  <2>1. B = DropInvalidEdges(m)
    BY <1>2 DEF Base
  <2> HIDE DEF B
  <2> QED
    BY <2>1 DEF ClassicLayout, Classic, Listed, Ancestors
<1>4. Good(B) /\ Ranked(B) /\ Rooted(B) /\ Filled(B) /\ NoCaches(B)
  <2>1. Bare(B)
    BY <1>2, BaseFacts
  <2> QED
    BY <2>1 DEF Bare
<1>5. Springy(B, list, m', pruned')
  <2> HIDE DEF B
  <2> QED
    BY <1>3, <1>4, ClassicGood
<1>6. DOMAIN clock' = TickFields /\ ~clock'.finished
  BY <1>1 DEF NewClock, TickFields
<1>7. PhaseInv'
  BY <1>1, <1>2 DEF PhaseInv, Phases, Middle
<1>8. GraphInv'
  BY <1>1, <1>2, <1>5 DEF GraphInv, Early, Late
<1>9. TilingInv'
  BY <1>1, <1>2 DEF TilingInv, Early, Late
<1>10. TickInv'
  BY <1>1, <1>3, <1>6 DEF TickInv
<1> QED
  BY <1>7, <1>8, <1>9, <1>10 DEF CoseInv

LEMMA UntileStep == CoseInv /\ TilingPostLayout => CoseInv'
<1> SUFFICES ASSUME CoseInv, TilingPostLayout PROVE CoseInv'
  OBVIOUS
<1>1. phase = "untile" /\ phase' = "positions" /\ UNCHANGED <<cy, m, tiling>>
  BY DEF TilingPostLayout
<1>2. /\ cy \in Maps /\ cy.nodes # <<>> /\ tiling = TilingFor(cy)
      /\ Springy(Base(cy), NodesWithGravity(Base(cy)), m, <<>>)
  BY <1>1 DEF CoseInv, PhaseInv, GraphInv, TilingInv, Middle, Late
<1>3. inside' = Repopulated(tiling)
  BY DEF TilingPostLayout, Repopulated
<1>4. PhaseInv'
  BY <1>1, <1>2 DEF PhaseInv, Phases, Middle
<1>5. GraphInv'
  BY <1>1, <1>2 DEF GraphInv, Early, Late
<1>6. TilingInv' /\ TickInv'
  BY <1>1, <1>2, <1>3 DEF TilingInv, TickInv, Early, Late
<1> QED
  BY <1>4, <1>5, <1>6 DEF CoseInv

(***************************************************************************)
(* Every action keeps the inductive invariant.                             *)
(***************************************************************************)
LEMMA ForcesKeep ==
  ASSUME NEW B, NEW list, NEW a, NEW cells, NEW c, ApplyForces(a, cells, c),
         Springy(B, list, a, pruned'), DOMAIN c = TickFields, c.finished => pruned' = <<>>
  PROVE  /\ Springy(B, list, m', pruned') /\ DOMAIN clock' = TickFields
         /\ clock'.finished => pruned' = <<>>
<1>1. m' = Ready(a)
  BY DEF ApplyForces, Ready
<1>2. Springy(B, list, m', pruned')
  BY <1>1, ReadySpringy
<1>3. \E still \in BOOLEAN : clock' = [c EXCEPT !.still = still]
  BY DEF ApplyForces
<1>4. DOMAIN clock' = TickFields /\ clock'.finished = c.finished
  BY <1>3 DEF TickFields
<1> QED
  BY <1>2, <1>4

LEMMA TickKeeps ==
  ASSUME CoseInv, phase = "ticking", NEW osc, Tick(osc)
  PROVE  /\ Springy(Base(cy), NodesWithGravity(Base(cy)), m', pruned')
         /\ DOMAIN clock' = TickFields /\ (clock'.finished => pruned' = <<>>)
<1> DEFINE B == Base(cy)
           list == NodesWithGravity(B)
<1>1. /\ Springy(B, list, m, pruned) /\ withGravity = list /\ DOMAIN clock = TickFields
      /\ (clock.finished => pruned = <<>>) /\ cy \in Maps /\ cy.nodes # <<>>
  BY DEF CoseInv, GraphInv, TickInv, PhaseInv, Middle
<1>2. list \in Seq(Node)
  <2>1. Bare(B)
    BY <1>1, BaseFacts
  <2> HIDE DEF B
  <2> QED
    BY <2>1, NodesWithGravityList DEF Bare
<1> HIDE DEF B, list
<1>3. CASE SpringTick(osc)
  <2> DEFINE c == [clock EXCEPT !.total = Now]
  <2>1. ApplyForces(m, grid, c) /\ pruned' = pruned
    BY <1>3 DEF SpringTick
  <2>2. DOMAIN c = TickFields /\ c.finished = clock.finished
    BY <1>1 DEF TickFields
  <2> HIDE DEF c
  <2>3. /\ Springy(B, list, m', pruned') /\ DOMAIN clock' = TickFields
        /\ clock'.finished => pruned' = <<>>
    BY <2>1, <2>2, <1>1, ForcesKeep
  <2> QED
    BY <2>3 DEF B, list
<1>4. CASE GrowTick(osc)
  <2> DEFINE c == [clock EXCEPT !.total = Now, !.growing = TRUE, !.growIter = @ + 1]
             d == [c EXCEPT !.cooling = Cooldown]
             a == Grow(m, pruned, withGravity)
  <2>1. pruned # <<>> /\ ~clock.finished
    BY <1>1, <1>4 DEF GrowTick
  <2>2. DOMAIN c = TickFields /\ c.finished = clock.finished
    BY <1>1 DEF TickFields
  <2>3. CASE GrowDue
    <3>1. pruned' = Front(pruned) /\ \E cells : ApplyForces(a, cells, d)
      BY <1>4, <2>3 DEF GrowTick, Grow, GrowTree
    <3> HIDE DEF c
    <3>2. DOMAIN d = TickFields /\ d.finished = clock.finished
      BY <2>2 DEF TickFields
    <3>3. Springy(B, list, a, pruned')
      BY <1>1, <1>2, <2>1, <3>1, GrowSpringy
    <3> HIDE DEF a, d
    <3>4. /\ Springy(B, list, m', pruned') /\ DOMAIN clock' = TickFields
          /\ clock'.finished => pruned' = <<>>
      BY <2>1, <3>1, <3>2, <3>3, ForcesKeep
    <3> QED
      BY <3>4 DEF B, list
  <2>4. CASE ~GrowDue
    <3>1. pruned' = pruned /\ ApplyForces(m, grid, c)
      BY <1>4, <2>4 DEF GrowTick
    <3> HIDE DEF c
    <3>2. /\ Springy(B, list, m', pruned') /\ DOMAIN clock' = TickFields
          /\ clock'.finished => pruned' = <<>>
      BY <1>1, <2>1, <2>2, <3>1, ForcesKeep
    <3> QED
      BY <3>2 DEF B, list
  <2> QED
    BY <2>3, <2>4
<1>5. CASE WaitTick
  <2> DEFINE c == [clock EXCEPT !.total = Now, !.growIter = @ + 1]
  <2>1. ApplyForces(m, grid, c) /\ pruned' = pruned /\ pruned = <<>>
    BY <1>5 DEF WaitTick
  <2>2. DOMAIN c = TickFields
    BY <1>1 DEF TickFields
  <2> HIDE DEF c
  <2>3. /\ Springy(B, list, m', pruned') /\ DOMAIN clock' = TickFields
        /\ clock'.finished => pruned' = <<>>
    BY <2>1, <2>2, <1>1, ForcesKeep
  <2> QED
    BY <2>3 DEF B, list
<1>6. CASE CoolTick(osc)
  <2> DEFINE after == clock.afterIter
             c == [clock EXCEPT !.total = Now, !.growing = FALSE, !.finished = TRUE,
                                !.growIter = IF clock.growing THEN @ + 1 ELSE @,
                                !.cooling = Cooldown - after, !.afterIter = after + 1]
  <2>1. pruned' = pruned /\ pruned = <<>>
    BY <1>1, <1>6 DEF CoolTick, GrowthOver
  <2>2. \E cells : ApplyForces(m, cells, c)
    BY <1>6 DEF CoolTick
  <2>3. DOMAIN c = TickFields
    BY <1>1 DEF TickFields
  <2> HIDE DEF c
  <2>4. /\ Springy(B, list, m', pruned') /\ DOMAIN clock' = TickFields
        /\ clock'.finished => pruned' = <<>>
    BY <2>1, <2>2, <2>3, <1>1, ForcesKeep
  <2> QED
    BY <2>4 DEF B, list
<1> QED
  BY <1>3, <1>4, <1>5, <1>6 DEF Tick

LEMMA EmbedderStep == CoseInv /\ RunSpringEmbedder => CoseInv'
<1> SUFFICES ASSUME CoseInv, RunSpringEmbedder PROVE CoseInv'
  OBVIOUS
<1>1. phase = "ticking" /\ UNCHANGED <<cy, tiling, withGravity, weight, inside>>
  BY DEF RunSpringEmbedder
<1>2. /\ cy \in Maps /\ cy.nodes # <<>> /\ tiling = TilingFor(cy)
      /\ withGravity = NodesWithGravity(Base(cy)) /\ weight = NoOfChildren(Base(cy))
      /\ Springy(Base(cy), NodesWithGravity(Base(cy)), m, pruned)
      /\ (clock.finished => pruned = <<>>)
  BY <1>1 DEF CoseInv, PhaseInv, GraphInv, TilingInv, TickInv, Middle
<1>3. PICK osc \in BOOLEAN :
        \/ Tick(osc) /\ UNCHANGED phase
        \/ LayoutEnds(osc) /\ phase' = "untile" /\ m' = UpdateBounds(m)
  BY DEF RunSpringEmbedder
<1>4. CASE Tick(osc) /\ UNCHANGED phase
  <2>1. /\ Springy(Base(cy), NodesWithGravity(Base(cy)), m', pruned')
        /\ DOMAIN clock' = TickFields /\ (clock'.finished => pruned' = <<>>)
    BY <1>1, <1>4, TickKeeps
  <2>2. PhaseInv'
    BY <1>1, <1>2, <1>4 DEF PhaseInv, Phases, Middle
  <2>3. GraphInv'
    BY <1>1, <1>2, <1>4, <2>1 DEF GraphInv, Early, Late
  <2>4. TilingInv'
    BY <1>1, <1>2, <1>4 DEF TilingInv, Early, Late
  <2>5. TickInv'
    BY <1>1, <1>2, <2>1 DEF TickInv
  <2> QED
    BY <2>2, <2>3, <2>4, <2>5 DEF CoseInv
<1>5. CASE LayoutEnds(osc) /\ phase' = "untile" /\ m' = UpdateBounds(m)
  <2>1. pruned = <<>>
    BY <1>2, <1>5 DEF LayoutEnds, GrowthOver
  <2>2. m' = m
    BY <1>2, <1>5, SpringyFacts
  <2>3. PhaseInv'
    BY <1>1, <1>2, <1>5 DEF PhaseInv, Phases, Middle
  <2>4. GraphInv'
    BY <1>1, <1>2, <1>5, <2>1, <2>2 DEF GraphInv, Early, Late
  <2>5. TilingInv' /\ TickInv'
    BY <1>1, <1>2, <1>5 DEF TilingInv, TickInv, Early, Late
  <2> QED
    BY <2>3, <2>4, <2>5 DEF CoseInv
<1> QED
  BY <1>3, <1>4, <1>5

LEMMA PositionsStep == CoseInv /\ LayoutPositions => CoseInv'
<1> SUFFICES ASSUME CoseInv, LayoutPositions PROVE CoseInv'
  OBVIOUS
<1> DEFINE mapped == ToSet(Preorder(cy)) \cap {n \in Node : m.owner[n] # Null}
<1>1. /\ phase = "positions" /\ phase' = "done" /\ UNCHANGED <<cy, tiling, inside>>
      /\ m' = Guarded(m, Spectral!Leaves(cy) \subseteq mapped, m)
  BY DEF LayoutPositions
<1>2. /\ cy \in Maps /\ (cy.nodes = <<>> => m = NewManager /\ tiling = NoTiling)
      /\ cy.nodes # <<>> => /\ Springy(Base(cy), NodesWithGravity(Base(cy)), m, <<>>)
                            /\ tiling = TilingFor(cy) /\ inside = Repopulated(tiling)
  BY <1>1 DEF CoseInv, PhaseInv, GraphInv, TilingInv, Late
<1>3. Spectral!Leaves(cy) \subseteq Elements(cy)
  BY DEF Spectral!Leaves, Elements
<1>4. Spectral!Leaves(cy) \subseteq mapped
  <2>1. CASE cy.nodes = <<>>
    <3>1. MapOK(cy)
      BY <1>2, MapFacts
    <3>2. Elements(cy) = {}
      BY <3>1, <2>1, NoMembers DEF MapOK
    <3> QED
      BY <3>2, <1>3
  <2>2. CASE cy.nodes # <<>>
    <3>1. MapOK(cy) /\ \A n \in Elements(cy) : Base(cy).owner[n] # Null
      BY <1>2, <2>2, MapFacts, BaseFacts
    <3>2. ToSet(Preorder(cy)) = Elements(cy) /\ Elements(cy) \subseteq Node
      BY <3>1, PreorderFacts DEF Whole, MapOK
    <3>3. m.owner = Base(cy).owner
      BY <1>2, <2>2 DEF Springy, Reduced
    <3> QED
      BY <3>1, <3>2, <3>3, <1>3
  <2> QED
    BY <2>1, <2>2
<1> HIDE DEF mapped
<1>5. m' = m
  BY <1>1, <1>4 DEF Guarded
<1>6. PhaseInv'
  BY <1>1, <1>2 DEF PhaseInv, Phases, Middle
<1>7. GraphInv'
  BY <1>1, <1>2, <1>5 DEF GraphInv, Early, Late
<1>8. TilingInv' /\ TickInv'
  BY <1>1, <1>2 DEF TilingInv, TickInv, Early, Late
<1> QED
  BY <1>6, <1>7, <1>8 DEF CoseInv

LEMMA StayStep == CoseInv /\ UNCHANGED vars => CoseInv'
<1> SUFFICES ASSUME CoseInv, UNCHANGED vars PROVE CoseInv'
  OBVIOUS
<1>1. UNCHANGED <<cy, phase, m, tiling, pruned, withGravity, weight, clock, inside>>
  BY DEF vars
<1> QED
  BY <1>1 DEF CoseInv, PhaseInv, GraphInv, TickInv, TilingInv

\* Every step finds the graph as the steps before it left it for this map.
THEOREM CoseInvariant == Spec => []CoseInv
<1>1. Init => CoseInv
  BY InitInv
<1>2. CoseInv /\ [Next]_vars => CoseInv'
  <2> SUFFICES ASSUME CoseInv, [Next]_vars PROVE CoseInv'
    OBVIOUS
  <2>1. CASE Run
    BY <2>1, RunStep
  <2>2. CASE SpectralLayout
    BY <2>2, SpectralLayoutStep
  <2>3. CASE TransferElements
    BY <2>3, TransferStep
  <2>4. CASE TilingPreLayout
    BY <2>4, TilingPreStep
  <2>5. CASE ClassicLayout
    BY <2>5, ClassicStep
  <2>6. CASE RunSpringEmbedder
    BY <2>6, EmbedderStep
  <2>7. CASE TilingPostLayout
    BY <2>7, UntileStep
  <2>8. CASE LayoutPositions
    BY <2>8, PositionsStep
  <2>9. CASE Done
    BY <2>9, StayStep DEF Done
  <2>10. CASE UNCHANGED vars
    BY <2>10, StayStep
  <2> QED
    BY <2>1, <2>2, <2>3, <2>4, <2>5, <2>6, <2>7, <2>8, <2>9, <2>10 DEF Next
<1> QED
  BY <1>1, <1>2, PTL DEF Spec

LEMMA ManagerStates ==
  ASSUME CoseInv
  PROVE  m = NewManager \/ Good(m)
<1>1. CASE phase \in Early \/ cy.nodes = <<>>
  BY <1>1 DEF CoseInv, GraphInv
<1>2. CASE phase = "tile" /\ cy.nodes # <<>>
  <2>1. Planted(cy, m)
    BY <1>2, StartFacts DEF CoseInv, GraphInv, PhaseInv
  <2> QED
    BY <2>1 DEF Planted
<1>3. CASE phase = "layout" /\ cy.nodes # <<>>
  <2>1. Tiled(cy, m)
    BY <1>3, PackedFacts DEF CoseInv, GraphInv, PhaseInv
  <2> QED
    BY <2>1 DEF Tiled
<1>4. CASE phase = "ticking" /\ cy.nodes # <<>>
  BY <1>4, SpringyFacts DEF CoseInv, GraphInv
<1>5. CASE phase \in Late /\ cy.nodes # <<>>
  BY <1>5, SpringyFacts DEF CoseInv, GraphInv
<1>6. phase \in Early \cup {"tile", "layout", "ticking"} \cup Late
  BY DEF CoseInv, PhaseInv, Phases, Early, Late
<1> QED
  BY <1>1, <1>2, <1>3, <1>4, <1>5, <1>6

\* The graph manager never throws and is one tree with its edges in place.
THEOREM CoseWellFormed == Spec => []WellFormed
<1>1. CoseInv => WellFormed
  <2> SUFFICES ASSUME CoseInv PROVE WellFormed
    OBVIOUS
  <2>1. CASE m = NewManager
    BY <2>1, NewManagerFields DEF WellFormed
  <2>2. CASE Good(m)
    BY <2>2, GoodIsWellFormed DEF WellFormed
  <2> QED
    BY <2>1, <2>2, ManagerStates
<1> QED
  BY <1>1, CoseInvariant, PTL

(***************************************************************************)
(* The cached lists.                                                       *)
(***************************************************************************)
LEMMA CachesHold == CoseInv => CachesFresh
<1> SUFFICES ASSUME CoseInv PROVE CachesFresh
  OBVIOUS
<1>1. ASSUME Laid
      PROVE  m.allNodes \in {Null, LiveNodes(m)} /\ m.allEdges \in {Null, LiveEdges(m)}
  <2>1. CASE cy.nodes = <<>>
    <3>1. m = NewManager
      BY <2>1 DEF CoseInv, GraphInv
    <3> QED
      BY <3>1, NewManagerFields DEF NoCaches
  <2>2. CASE phase = "layout" /\ cy.nodes # <<>>
    <3>1. m = Packed(cy) /\ cy \in Maps
      BY <2>2 DEF CoseInv, GraphInv, PhaseInv
    <3>2. Tiled(cy, m)
      BY <2>2, <3>1, PackedFacts
    <3> QED
      BY <3>2 DEF Tiled, NoCaches
  <2>3. CASE phase = "ticking" /\ cy.nodes # <<>>
    <3>1. Springy(Base(cy), NodesWithGravity(Base(cy)), m, pruned)
      BY <2>3 DEF CoseInv, GraphInv
    <3> QED
      BY <3>1 DEF Springy, Fresh
  <2>4. CASE phase \in Late /\ cy.nodes # <<>>
    <3>1. Springy(Base(cy), NodesWithGravity(Base(cy)), m, <<>>)
      BY <2>4 DEF CoseInv, GraphInv
    <3> QED
      BY <3>1 DEF Springy, Fresh
  <2> QED
    BY <1>1, <2>1, <2>2, <2>3, <2>4 DEF Laid, Late
<1>2. ASSUME phase = "ticking"
      PROVE  m.gravity = Those(withGravity, LAMBDA n : Contains(LiveNodes(m), n))
  <2>1. Springy(Base(cy), NodesWithGravity(Base(cy)), m, pruned) /\ withGravity = NodesWithGravity(Base(cy))
    BY <1>2 DEF CoseInv, GraphInv, TickInv
  <2>2. m.gravity = InGraph(withGravity, LiveNodes(m))
    BY <2>1 DEF Springy
  <2> QED
    BY <2>2 DEF InGraph
<1> QED
  BY <1>1, <1>2 DEF CachesFresh

\* No cached list is out of date: it is null or what the graphs hold.
THEOREM CoseCachesFresh == Spec => []CachesFresh
<1> QED
  BY CachesHold, CoseInvariant, PTL

(***************************************************************************)
(* Nothing drifts.                                                         *)
(***************************************************************************)
LEMMA NothingDriftsHolds == CoseInv => NothingDrifts
<1> SUFFICES ASSUME CoseInv, phase = "ticking", NEW i \in DOMAIN m.graphs
             PROVE  \/ IsConnectedGraph(m, m.graphs[i])
                    \/ ToSet(m.nodes[m.graphs[i]]) \subseteq ToSet(m.gravity)
  BY DEF NothingDrifts
<1> DEFINE B == Base(cy)
           list == NodesWithGravity(B)
           G == m.graphs[i]
<1>1. Springy(B, list, m, pruned) /\ cy \in Maps /\ cy.nodes # <<>>
  BY DEF CoseInv, GraphInv, PhaseInv, Middle
<1>2. Tree(B)
  BY <1>1, BaseFacts DEF Bare, Tree
<1> HIDE DEF B
<1>3. /\ list \in Seq(Node)
      /\ ToSet(list) = UNION {ToSet(B.nodes[H]) : H \in {K \in Graphs(B) : ~IsConnectedGraph(B, K)}}
  BY <1>2, NodesWithGravityList DEF Tree
<1>4. Reduced(B, m, pruned) /\ Good(m) /\ m.gravity = InGraph(list, LiveNodes(m))
  BY <1>1, SpringyFacts DEF Springy
<1>5. G \in Graphs(m) /\ G \in Node /\ Graphs(m) = Graphs(B)
  <2>1. m.graphs \in Seq(Node) /\ Graphs(m) \subseteq Node
    BY <1>4, GoodLists DEF Good
  <2>2. G \in Graphs(m)
    BY DEF Graphs, ToSet
  <2>3. m.graphs = B.graphs
    BY <1>4 DEF Reduced, SameGraphs
  <2> QED
    BY <2>1, <2>2, <2>3 DEF Graphs
<1> HIDE DEF G
<1>6. ToSet(m.nodes[G]) = ToSet(B.nodes[G]) \cap Live(m)
  BY <1>2, <1>4, <1>5, ReducedTree
<1>7. CASE IsConnectedGraph(B, G)
  BY <1>2, <1>4, <1>5, <1>7, LeavesHang DEF G
<1>8. CASE ~IsConnectedGraph(B, G)
  <2>1. ToSet(B.nodes[G]) \subseteq ToSet(list)
    BY <1>3, <1>5, <1>8
  <2> HIDE DEF list
  <2>2. ToSet(InGraph(list, LiveNodes(m))) = {x \in ToSet(list) : Contains(LiveNodes(m), x)}
    BY <1>3, InGraphList
  <2>3. \A x \in Live(m) : Contains(LiveNodes(m), x)
    <3>1. LiveNodes(m) \in Seq(Node) /\ ToSet(LiveNodes(m)) = Live(m)
      BY <1>4, LiveLists
    <3> QED
      BY <3>1, Members
  <2>4. ToSet(m.nodes[G]) \subseteq ToSet(m.gravity)
    BY <2>1, <2>2, <2>3, <1>4, <1>6
  <2> QED
    BY <2>4 DEF G
<1> QED
  BY <1>7, <1>8

\* The cached lists are what the graphs hold, and gravity pulls on every node
\* of a graph that does not hang together, whatever leaves are out.
THEOREM CoseListsSound == Spec => []ListsSound
<1>1. CoseInv => ListsSound
  BY CachesHold, NothingDriftsHolds DEF ListsSound
<1> QED
  BY <1>1, CoseInvariant, PTL

(***************************************************************************)
(* What lies in what is the same before and after tiling, as far as there  *)
(* are edges.                                                              *)
(***************************************************************************)
LEMMA DegreeAround ==
  ASSUME NEW a, Tree(a), NEW n, n \in Live(a), Around(a, n) # Null, HasDegreeWithChildren(a, n)
  PROVE  HasDegreeWithChildren(a, Around(a, n))
<1> DEFINE p == Around(a, n)
<1>1. p \in Live(a) /\ p = a.owner[n] /\ p \in Node /\ n \in Node /\ ParentOf(a, n) = p
  BY AroundLive, LiveFacts DEF Tree
<1>2. PICK b : IsBelow(b, Node, KidsOf(a)) /\ \A k \in Node : WithChildren(a, k) = b[k]
  BY WithChildrenBelow DEF Tree
<1>3. PICK h : Forest(Node, KidsOf(a), Up(a), h)
  BY TreeForest DEF Tree
<1>4. n \in ToSet(KidsOf(a)[p])
  <2>1. KidsOf(a)[p] = Children(a, p)
    BY <1>1 DEF KidsOf
  <2> QED
    BY <2>1, <1>1, ChildrenFacts DEF Tree
<1> HIDE DEF p
<1>5. b[p] = {p} \cup UNION {b[k] : k \in ToSet(KidsOf(a)[p])}
  BY <1>1, <1>2, <1>3, BelowFacts
<1>6. b[n] \subseteq b[p]
  BY <1>4, <1>5
<1>7. HasDegreeWithChildren(a, p)
  BY <1>1, <1>2, <1>6 DEF HasDegreeWithChildren
<1> QED
  BY <1>7 DEF p

\* The nodes with edges in them are where they were.
Kept(a, r) == \A n \in Live(a) : HasDegreeWithChildren(a, n) => r.owner[n] = a.owner[n]

LEMMA SameWay ==
  ASSUME NEW a, Tree(a), NEW r, Tree(r), Kept(a, r)
  PROVE  \A n \in Live(a) \cap Live(r) :
            HasDegreeWithChildren(a, n) => ToSet(Chain(r, n)) = ToSet(Chain(a, n))
<1> DEFINE P == {n \in Node : n \in Live(a) \cap Live(r) /\ HasDegreeWithChildren(a, n)
                                => ToSet(Chain(r, n)) = ToSet(Chain(a, n))}
<1>1. PICK d : IsDepth(d, Node, Up(a))
  BY DepthExists, NodeAssumption DEF Tree, Ranked
<1>2. ASSUME NEW n \in Node, \A k \in Node : d[k] < d[n] => k \in P, n \in Live(a), n \in Live(r),
             HasDegreeWithChildren(a, n)
      PROVE  ToSet(Chain(r, n)) = ToSet(Chain(a, n))
  <2>1. r.owner[n] = a.owner[n]
    BY <1>2 DEF Kept
  <2>2. Around(r, n) = Around(a, n)
    BY <2>1, <1>2, AroundLive
  <2>3. CASE Around(a, n) = Null
    <3>1. ToSet(Chain(a, n)) = {n}
      BY <2>3, <1>2, ChainMembers
    <3>2. ToSet(Chain(r, n)) = {n}
      BY <2>2, <2>3, <1>2, ChainMembers
    <3> QED
      BY <3>1, <3>2
  <2>4. CASE Around(a, n) # Null
    <3> DEFINE p == Around(a, n)
    <3>1. p \in Live(a) /\ p \in Live(r) /\ p \in Node /\ p = a.owner[n]
      BY <2>2, <2>4, <1>2, AroundLive, LiveFacts DEF Tree
    <3>2. Up(a)[n] = p
      BY <3>1, <1>2, LiveFacts DEF Up, Tree
    <3>3. d[p] < d[n]
      BY <3>1, <3>2, <1>1 DEF IsDepth
    <3>4. HasDegreeWithChildren(a, p)
      BY <2>4, <1>2, DegreeAround
    <3>5. ToSet(Chain(r, p)) = ToSet(Chain(a, p))
      BY <3>1, <3>3, <3>4, <1>2
    <3>6. ToSet(Chain(a, n)) = {n} \cup ToSet(Chain(a, p))
      BY <2>4, <1>2, ChainMembers
    <3>7. ToSet(Chain(r, n)) = {n} \cup ToSet(Chain(r, p))
      BY <2>2, <2>4, <1>2, ChainMembers
    <3> QED
      BY <3>5, <3>6, <3>7
  <2> QED
    BY <2>3, <2>4
<1>3. \A n \in Node : (\A k \in Node : d[k] < d[n] => k \in P) => n \in P
  BY <1>2
<1>4. Node \subseteq P
  <2>1. d \in [Node -> Nat]
    BY <1>1 DEF IsDepth
  <2> HIDE DEF P
  <2> QED
    BY <2>1, <1>3, FromBelow
<1> QED
  BY <1>4, LiveFacts DEF Tree

LEMMA EndsAreTied ==
  ASSUME NEW a, Tree(a), NEW e, e \in Known(a), NEW n, n \in Ends(a, e)
  PROVE  n \in Live(a) /\ HasDegreeWithChildren(a, n)
<1>1. /\ a.source[e] \in Live(a) /\ a.target[e] \in Live(a) /\ a.source[e] # a.target[e]
      /\ e \in ToSet(a.inc[n])
  BY EdgeFacts DEF Tree
<1>2. n \in Live(a) /\ n \in Node
  BY <1>1, LiveFacts DEF Ends, Tree
<1>3. HasDegree(a, n)
  BY <1>1 DEF HasDegree
<1>4. n \in WithChildren(a, n)
  BY <1>2, WithChildrenNodes
<1> QED
  BY <1>2, <1>3, <1>4 DEF HasDegreeWithChildren

LEMMA ValidEdges ==
  ASSUME NEW a, Tree(a), NEW r, Tree(r), Kept(a, r), Known(r) = Known(a), SameEnds(a, r)
  PROVE  Known(r) \ InvalidEdges(r) = {e \in Known(a) : ~IsOneAncestorOfOther(a, a.source[e], a.target[e])}
<1>1. ASSUME NEW e \in Known(a)
      PROVE  e \in InvalidEdges(r) <=> IsOneAncestorOfOther(a, a.source[e], a.target[e])
  <2> DEFINE s == a.source[e]
             t == a.target[e]
  <2>1. r.source[e] = s /\ r.target[e] = t /\ e \in Known(r) /\ r.isInter[e] = a.isInter[e]
    BY <1>1 DEF SameEnds
  <2>2. /\ s \in Live(a) /\ HasDegreeWithChildren(a, s) /\ s \in Live(r)
        /\ t \in Live(a) /\ HasDegreeWithChildren(a, t) /\ t \in Live(r)
    <3>1. s \in Ends(a, e) /\ t \in Ends(a, e) /\ s \in Ends(r, e) /\ t \in Ends(r, e)
      BY <2>1 DEF Ends
    <3> QED
      BY <3>1, <2>1, EndsAreTied
  <2>3. ToSet(Chain(r, s)) = ToSet(Chain(a, s)) /\ ToSet(Chain(r, t)) = ToSet(Chain(a, t))
    BY <2>2, SameWay
  <2>4. IsOneAncestorOfOther(r, s, t) <=> IsOneAncestorOfOther(a, s, t)
    BY <2>3 DEF IsOneAncestorOfOther
  <2>5. r.isInter[e] <=> e \in ToSet(r.inter)
    BY <2>1, EdgeFacts DEF Tree
  <2>6. ~r.isInter[e] => ~IsOneAncestorOfOther(r, s, t)
    BY <2>1, OwnEdgeIsValid
  <2>7. e \in InvalidEdges(r) <=> e \in ToSet(r.inter) /\ IsOneAncestorOfOther(r, s, t)
    BY <2>1 DEF InvalidEdges
  <2> QED
    BY <2>4, <2>5, <2>6, <2>7
<1> QED
  BY <1>1

(***************************************************************************)
(* What tiling takes out of the graph.                                     *)
(***************************************************************************)
LEMMA MapTiling ==
  ASSUME NEW c, c \in Maps, c.nodes # <<>>,
         NEW a, a = Start(c), NEW b, b = Regrouped(c, a), NEW r, r = Packed(c)
  PROVE  /\ TiledFrom(b, CompoundOrder(b), r) /\ Tree(a) /\ Tree(b) /\ Tree(r)
         /\ Live(a) = Elements(c) /\ Elements(c) \subseteq Live(b)
         /\ Known(r) = Known(a) /\ SameEnds(a, r) /\ Kept(a, r)
<1> DEFINE g == GetAllNodes(a)
           groups == Groups(a)
<1>1. MapOK(c) /\ DummiesOK(Elements(c)) /\ Planted(c, a)
  BY MapFacts, DummyFacts, StartFacts
<1>2. TiledFrom(b, CompoundOrder(b), r)
  BY <1>1, TilingParts DEF Packed
<1>3. GroupsOK(g, groups) /\ Alike(a, g) /\ Moved(g, b, groups, DOMAIN groups)
  BY <1>1, RegroupedFacts
<1>4. Good(a) /\ Ranked(a) /\ Rooted(a) /\ a.allNodes = Null /\ Live(a) = Elements(c)
  BY <1>1 DEF Planted, NoCaches
<1>5. /\ GroupsOK(a, groups)
      /\ \A p \in DOMAIN groups : \A n \in ToSet(groups[p]) : ~HasDegreeWithChildren(a, n)
  BY <1>4, GroupsFacts
<1> HIDE DEF groups, g
<1>6. Live(g) = Live(a) /\ Known(g) = Known(a) /\ SameEnds(a, g) /\ g.owner = a.owner
  BY <1>3, <1>4, AlikeGood DEF Alike, SameEdges, SameTree
<1>7. Live(a) \subseteq Live(b) /\ Known(b) = Known(a) /\ SameEnds(a, b)
  BY <1>3, <1>6 DEF Moved, SameEnds
<1>8. r.owner = b.owner /\ Known(r) = Known(b) /\ SameEnds(b, r)
  BY <1>2 DEF TiledFrom
<1>9. SameEnds(a, r)
  BY <1>7, <1>8 DEF SameEnds
<1>10. Tree(a) /\ Tree(b) /\ Tree(r)
  BY <1>2, <1>4 DEF TiledFrom, Tree
<1>11. ASSUME NEW n \in Live(a), HasDegreeWithChildren(a, n) PROVE r.owner[n] = a.owner[n]
  <2>1. n \notin Grouped(groups, DOMAIN groups)
    BY <1>5, <1>11 DEF Grouped
  <2>2. \A p \in DOMAIN groups : Dummy(p) # n
    <3>1. DOMAIN groups \subseteq Elements(c) \cup {RootNode}
      BY <1>4, <1>5 DEF GroupsOK, Rooted
    <3> QED
      BY <3>1, <1>1, <1>4 DEF DummiesOK
  <2>3. n \notin Dummies(DOMAIN groups) /\ n \in Node
    BY <2>2, <1>4, LiveFacts DEF Dummies
  <2>4. b.owner[n] = g.owner[n]
    BY <2>1, <2>3, <1>3 DEF Moved
  <2> QED
    BY <2>4, <1>6, <1>8
<1>12. Kept(a, r)
  BY <1>11 DEF Kept
<1> QED
  BY <1>2, <1>4, <1>7, <1>8, <1>9, <1>10, <1>12

(***************************************************************************)
(* Everything the map has is in the graph, or in a packed compound.        *)
(***************************************************************************)
LEMMA PacksOf ==
  ASSUME NEW c, c \in Maps, c.nodes # <<>>, NEW t, t = TilingFor(c),
         NEW b, b = Regrouped(c, Start(c)), NEW order, order = CompoundOrder(b)
  PROVE  /\ t.order = order /\ DOMAIN t.pack = ToSet(order)
         /\ \A k \in ToSet(order) : t.pack[k] = ToSet(b.nodes[k]) /\ k \in Node
<1>1. t = [order |-> order, pack |-> [k \in ToSet(order) |-> ToSet(Children(b, k))], groups |-> Groups(Start(c))]
  BY DEF TilingFor
<1>2. t.order = order /\ t.pack = [k \in ToSet(order) |-> ToSet(Children(b, k))]
  BY <1>1
<1>3. OrderOK(b, order) /\ Good(b)
  BY MapTiling DEF TiledFrom
<1>4. ASSUME NEW k \in ToSet(order) PROVE ToSet(Children(b, k)) = ToSet(b.nodes[k]) /\ k \in Node
  <2>1. k \in Graphs(b) /\ Graphs(b) \subseteq Node
    BY <1>3, GoodLists DEF OrderOK, Good
  <2>2. Children(b, k) = b.nodes[k]
    BY <2>1, <1>3, ChildrenFacts
  <2> QED
    BY <2>1, <2>2
<1> QED
  BY <1>2, <1>4

Packs(t) == {t.pack[c] : c \in DOMAIN t.pack}

AllThere(c, t, first, a) ==
  /\ \A n \in Elements(c) : (n \in Live(a)) # (\E P \in Packs(t) : n \in P)
  /\ \A P, Q \in Packs(t) : P = Q \/ P \cap Q = {}
  /\ Known(a) = {e \in Known(first) : ~IsOneAncestorOfOther(first, first.source[e], first.target[e])}

LEMMA NothingLostForMap ==
  ASSUME NEW c, c \in Maps, c.nodes # <<>>, NEW a, NEW nothing, nothing = <<>>, Reduced(Base(c), a, nothing)
  PROVE  AllThere(c, TilingFor(c), Start(c), a)
<1> DEFINE s == Start(c)
           b == Regrouped(c, s)
           r == Packed(c)
           B == Base(c)
           order == CompoundOrder(b)
           t == TilingFor(c)
<1>1. /\ TiledFrom(b, order, r) /\ Tree(s) /\ Tree(b) /\ Tree(r)
      /\ Live(s) = Elements(c) /\ Elements(c) \subseteq Live(b)
      /\ Known(r) = Known(s) /\ SameEnds(s, r) /\ Kept(s, r)
  BY MapTiling
<1>2. Fewer(r, B, InvalidEdges(r))
  BY BaseFacts
<1>3. DOMAIN t.pack = ToSet(order) /\ \A k \in ToSet(order) : t.pack[k] = ToSet(b.nodes[k]) /\ k \in Node
  BY PacksOf
<1> HIDE DEF s, b, r, B, order, t
<1>4. Live(a) = Live(B) /\ Known(a) = Known(B)
  <2> DEFINE none == <<>>
  <2>1. Live(B) = Live(a) \cup NodesIn(Out(none)) /\ Known(B) = Known(a) \cup EdgesIn(Out(none))
    BY DEF Reduced, B
  <2>2. NodesIn(Out(none)) = {} /\ EdgesIn(Out(none)) = {}
    BY NothingOut
  <2> HIDE DEF none
  <2> QED
    BY <2>1, <2>2
<1>5. Live(B) = Live(r) /\ Known(B) = Known(r) \ InvalidEdges(r)
  BY <1>2, SameTreeShape DEF Fewer
<1>6. Known(a) = {e \in Known(s) : ~IsOneAncestorOfOther(s, s.source[e], s.target[e])}
  BY <1>1, <1>4, <1>5, ValidEdges
<1>7. \A H \in Node : ToSet(r.nodes[H]) = IF H \in ToSet(order) THEN {} ELSE ToSet(b.nodes[H])
  BY <1>1 DEF TiledFrom
<1>8. ASSUME NEW n \in Elements(c) PROVE (n \in Live(a)) # (\E P \in Packs(t) : n \in P)
  <2>1. /\ n \in Live(b) /\ b.owner[n] \in Node /\ n \in ToSet(b.nodes[b.owner[n]])
        /\ \A H \in Node : n \in ToSet(b.nodes[H]) => H = b.owner[n]
    BY <1>1, LiveFacts DEF Tree
  <2>2. n \in Live(r) <=> b.owner[n] \notin ToSet(order)
    BY <2>1, <1>7 DEF Live
  <2>3. (\E P \in Packs(t) : n \in P) <=> \E k \in ToSet(order) : n \in ToSet(b.nodes[k])
    BY <1>3 DEF Packs
  <2>4. (\E P \in Packs(t) : n \in P) <=> b.owner[n] \in ToSet(order)
    BY <2>1, <2>3, <1>3
  <2> QED
    BY <2>2, <2>4, <1>4, <1>5
<1>9. ASSUME NEW P \in Packs(t), NEW Q \in Packs(t), P # Q PROVE P \cap Q = {}
  <2>1. PICK j \in ToSet(order) : P = ToSet(b.nodes[j]) /\ j \in Node
    BY <1>3 DEF Packs
  <2>2. PICK k \in ToSet(order) : Q = ToSet(b.nodes[k]) /\ k \in Node
    BY <1>3 DEF Packs
  <2>3. \A n \in P \cap Q : b.owner[n] = j /\ b.owner[n] = k
    BY <2>1, <2>2, <1>1, LiveFacts DEF Tree
  <2> QED
    BY <2>1, <2>2, <2>3, <1>9
<1> QED
  BY <1>6, <1>8, <1>9 DEF s, t, AllThere

LEMMA EmptyMap ==
  ASSUME NEW c, c \in Maps, c.nodes = <<>>
  PROVE  Elements(c) = {} /\ Known(Transferred(c)) = {} /\ Good(Transferred(c))
<1>1. MapOK(c)
  BY MapFacts
<1>2. Elements(c) = {}
  <2>1. ToSet(c.nodes) = {}
    BY NoMembers
  <2> QED
    BY <2>1, <1>1 DEF MapOK
<1>3. Placed(c, Transferred(c))
  BY <1>1, TransferredIsPlaced
<1>4. Good(Transferred(c)) /\ Live(Transferred(c)) = {}
  BY <1>2, <1>3 DEF Placed
<1>5. Known(Transferred(c)) = {}
  BY <1>4, EdgeFacts
<1> QED
  BY <1>2, <1>4, <1>5

LEMMA NothingLostHolds == CoseInv => NothingLost
<1> SUFFICES ASSUME CoseInv, phase = "done" PROVE NothingLost
  BY DEF NothingLost
<1> DEFINE first == Transferred(cy)
           Back == /\ \A n \in Elements(cy) : (n \in ToSet(LiveNodes(m))) # (\E P \in Packs(tiling) : n \in P)
                   /\ \A P, Q \in Packs(tiling) : P = Q \/ P \cap Q = {}
                   /\ ToSet(LiveEdges(m)) = {e \in ToSet(LiveEdges(first)) :
                        ~IsOneAncestorOfOther(first, first.source[e], first.target[e])}
<1>1. CASE cy.nodes = <<>>
  <2>1. cy \in Maps /\ m = NewManager /\ tiling = NoTiling
    BY <1>1 DEF CoseInv, PhaseInv, GraphInv, TilingInv
  <2>2. Elements(cy) = {} /\ Known(first) = {} /\ Good(first)
    BY <1>1, <2>1, EmptyMap
  <2>3. ToSet(LiveEdges(first)) = {}
    BY <2>2, LiveLists
  <2>4. Packs(tiling) = {}
    <3>1. DOMAIN tiling.pack = {}
      BY <2>1 DEF NoTiling
    <3> QED
      BY <3>1 DEF Packs
  <2>5. ToSet(LiveEdges(m)) = {}
    <3> DEFINE f == [i \in DOMAIN NewManager.graphs |-> NewManager.edges[NewManager.graphs[i]]]
    <3>1. NewManager.graphs = <<>> /\ NewManager.inter = <<>>
      BY NewManagerFields
    <3>2. LiveEdges(m) = FlattenSeq(f) \o <<>>
      BY <2>1, <3>1 DEF LiveEdges
    <3>3. f \in Seq(Seq(Edge)) /\ DOMAIN f = {}
      <4>1. DOMAIN f = {}
        BY <3>1
      <4>2. f = <<>>
        BY <3>1
      <4> QED
        BY <4>1, <4>2, EmptySeq
    <3> HIDE DEF f
    <3>4. FlattenSeq(f) \in Seq(Edge) /\ ToSet(FlattenSeq(f)) = {}
      <4>1. UNION {ToSet(f[i]) : i \in DOMAIN f} = {}
        BY <3>3
      <4> QED
        BY <3>3, <4>1, FlattenMembers
    <3>5. FlattenSeq(f) \o <<>> = FlattenSeq(f)
      BY <3>4, ConcatEmptySeq
    <3> QED
      BY <3>2, <3>4, <3>5
  <2> HIDE DEF first
  <2> QED
    BY <2>2, <2>3, <2>4, <2>5 DEF NothingLost, Packs, Elements, first
<1>2. CASE cy.nodes # <<>>
  <2>1. Springy(Base(cy), NodesWithGravity(Base(cy)), m, <<>>) /\ tiling = TilingFor(cy) /\ cy \in Maps
    BY <1>2 DEF CoseInv, GraphInv, TilingInv, PhaseInv, Late
  <2> DEFINE none == <<>>
  <2>0. none = <<>> /\ Springy(Base(cy), NodesWithGravity(Base(cy)), m, none)
    BY <2>1
  <2> HIDE DEF none, first
  <2>2. Reduced(Base(cy), m, none) /\ Good(m)
    BY <2>0, SpringyFacts
  <2>3. Start(cy) = first /\ Good(first)
    <3>1. Planted(cy, Start(cy))
      BY <1>2, <2>1, StartFacts
    <3> QED
      BY <3>1 DEF Planted, Start, first
  <2>4. /\ ToSet(LiveNodes(m)) = Live(m) /\ ToSet(LiveEdges(m)) = Known(m)
        /\ ToSet(LiveEdges(first)) = Known(first)
    BY <2>2, <2>3, LiveLists
  <2>5. /\ \A n \in Elements(cy) : (n \in Live(m)) # (\E P \in Packs(tiling) : n \in P)
        /\ \A P, Q \in Packs(tiling) : P = Q \/ P \cap Q = {}
        /\ Known(m) = {e \in Known(first) : ~IsOneAncestorOfOther(first, first.source[e], first.target[e])}
    <3>1. AllThere(cy, TilingFor(cy), Start(cy), m)
      BY <1>2, <2>0, <2>1, <2>2, NothingLostForMap
    <3>2. AllThere(cy, tiling, first, m)
      BY <3>1, <2>1, <2>3
    <3> QED
      BY <3>2 DEF AllThere
  <2>6. \A n \in Elements(cy) : (n \in ToSet(LiveNodes(m))) # (\E P \in Packs(tiling) : n \in P)
    BY <2>4, <2>5
  <2>7. ToSet(LiveEdges(m)) = {e \in ToSet(LiveEdges(first)) :
           ~IsOneAncestorOfOther(first, first.source[e], first.target[e])}
    BY <2>4, <2>5
  <2>8. \A P, Q \in Packs(tiling) : P = Q \/ P \cap Q = {}
    BY <2>5
  <2> QED
    BY <2>6, <2>7, <2>8, Zenon DEF NothingLost, Packs, Elements, first
<1> QED
  BY <1>1, <1>2

(***************************************************************************)
(* Taking the tiled compounds from the outermost to the innermost, nothing *)
(* that has been placed in a compound is moved again with another one.     *)
(***************************************************************************)
OutermostFirst(list, pack) ==
  \A i, j \in DOMAIN list : list[i] \in pack[list[j]] => j < i

\* Every member of the compounds C lies where its compound is.
InPlace(placed, pack, C) == \A c \in C : \A n \in pack[c] : <<n, c>> \in placed

\* Putting the members of one more compound in place displaces nobody of the
\* compounds before it in the list.
LEMMA PlaceStep ==
  ASSUME NEW list, NEW pack, OutermostFirst(list, pack), NEW k, k \in DOMAIN list,
         NEW C, \A c \in C : \E i \in DOMAIN list : i < k /\ c = list[i], k \in Nat, DOMAIN list \subseteq Nat,
         NEW placed, InPlace(placed, pack, C)
  PROVE  InPlace(AdjustLocations(placed, list[k], pack[list[k]]), pack, C \cup {list[k]})
<1> DEFINE after == AdjustLocations(placed, list[k], pack[list[k]])
<1>1. ASSUME NEW c \in C, NEW n \in pack[c] PROVE <<n, c>> \in after
  <2>1. PICK i \in DOMAIN list : i < k /\ c = list[i]
    OBVIOUS
  <2>2. c \notin pack[list[k]]
    <3>1. i \in Nat
      OBVIOUS
    <3>2. list[i] \in pack[list[k]] => k < i
      BY DEF OutermostFirst
    <3> QED
      BY <2>1, <3>1, <3>2
  <2>3. <<n, c>> \in placed
    BY DEF InPlace
  <2> QED
    BY <2>2, <2>3 DEF AdjustLocations
<1>2. ASSUME NEW n \in pack[list[k]] PROVE <<n, list[k]>> \in after
  BY DEF AdjustLocations
<1> HIDE DEF after
<1> QED
  BY <1>1, <1>2 DEF InPlace, after

PutBack(loose, list, pack) ==
  InTurn(LAMBDA placed, c : AdjustLocations(placed, c, pack[c]), loose, list)

\* Going through the whole list leaves every member where its compound is.
LEMMA AllInPlace ==
  ASSUME NEW S, NEW list, list \in Seq(S), NEW pack, OutermostFirst(list, pack), NEW loose
  PROVE  InPlace(PutBack(loose, list, pack), pack, ToSet(list))
<1> DEFINE N == Len(list)
           Put == UNION {{<<n, list[i]>> : n \in pack[list[i]]} : i \in 1..N}
           All == SUBSET (loose \cup Put)
           I == [k \in 0..N |-> {placed \in All : InPlace(placed, pack, Seen(list, k))}]
           Q(f) == f = [k \in 0..N |-> IF k = 0 THEN loose ELSE AdjustLocations(f[k - 1], list[k], pack[list[k]])]
           w == CHOOSE f : Q(f)
<1>2. N \in Nat /\ DOMAIN list = 1..N
  BY Members
<1>3. loose \in I[0]
  <2>1. Seen(list, 0) = {} /\ 0 \in 0..N
    BY <1>2, SeenTurns
  <2>2. InPlace(loose, pack, {})
    BY DEF InPlace
  <2>3. loose \in All
    OBVIOUS
  <2> HIDE DEF All
  <2> QED
    BY <2>1, <2>2, <2>3
<1>4. ASSUME NEW k \in 1..N, NEW st \in I[k - 1] PROVE AdjustLocations(st, list[k], pack[list[k]]) \in I[k]
  <2> DEFINE after == AdjustLocations(st, list[k], pack[list[k]])
  <2>1. k \in 0..N /\ k - 1 \in 0..N
    BY <1>2
  <2> HIDE DEF All
  <2>2. st \in All /\ InPlace(st, pack, Seen(list, k - 1))
    BY <2>1
  <2> HIDE DEF I, Q, w
  <2>3. after \in All
    <3>1. \A n \in pack[list[k]] : <<n, list[k]>> \in Put
      OBVIOUS
    <3> HIDE DEF Put
    <3>2. after \subseteq st \cup {<<n, list[k]>> : n \in pack[list[k]]}
      BY DEF AdjustLocations
    <3> HIDE DEF after
    <3> QED
      BY <2>2, <3>1, <3>2 DEF All
  <2>4. Seen(list, k) = Seen(list, k - 1) \cup {list[k]}
    BY SeenTurns
  <2>5. \A c \in Seen(list, k - 1) : \E i \in DOMAIN list : i < k /\ c = list[i]
    BY <1>2 DEF Seen
  <2>6. k \in DOMAIN list /\ k \in Nat /\ DOMAIN list \subseteq Nat
    BY <1>2
  <2>7. InPlace(after, pack, Seen(list, k - 1) \cup {list[k]})
    BY <2>2, <2>5, <2>6, PlaceStep
  <2> HIDE DEF after
  <2>8. InPlace(after, pack, Seen(list, k))
    BY <2>4, <2>7
  <2> QED
    BY <2>1, <2>3, <2>8 DEF I, after
<1>5. \E f : Q(f)
  <2> DEFINE X == UNION {I[k] : k \in 0..N}
             F == [pr \in X \X (1..N) |-> AdjustLocations(pr[1], list[pr[2]], pack[list[pr[2]]])]
  <2>1. \A k \in 1..N : \A st \in I[k - 1] : F[<<st, k>>] = AdjustLocations(st, list[k], pack[list[k]])
    <3> SUFFICES ASSUME NEW k \in 1..N, NEW st \in I[k - 1] PROVE F[<<st, k>>] = AdjustLocations(st, list[k], pack[list[k]])
      OBVIOUS
    <3>1. k - 1 \in 0..N
      BY <1>2
    <3> HIDE DEF I
    <3>2. st \in X
      BY <3>1
    <3> HIDE DEF X
    <3> QED
      BY <3>2
  <2> HIDE DEF I, F
  <2>2. \A k \in 1..N : \A st \in I[k - 1] : F[<<st, k>>] \in I[k]
    BY <2>1, <1>4
  <2>3. PICK g : IsRun(g, N, loose, F, I)
    BY <1>2, <1>3, <2>2, RunExists
  <2>4. /\ g = [k \in 0..N |-> g[k]] /\ g[0] = loose
        /\ \A k \in 1..N : g[k] = F[<<g[k - 1], k>>]
        /\ \A k \in 0..N : g[k] \in I[k]
    BY <2>3 DEF IsRun
  <2>5. ASSUME NEW k \in 1..N PROVE g[k] = AdjustLocations(g[k - 1], list[k], pack[list[k]])
    <3>1. k - 1 \in 0..N
      BY <1>2
    <3> QED
      BY <3>1, <2>1, <2>4
  <2>6. ASSUME NEW k \in 0..N PROVE g[k] = IF k = 0 THEN loose ELSE AdjustLocations(g[k - 1], list[k], pack[list[k]])
    <3>1. k = 0 \/ k \in 1..N
      BY <1>2
    <3> QED
      BY <2>4, <2>5, <3>1
  <2>7. Q(g)
    <3> HIDE DEF N
    <3> QED
      BY <2>4, <2>6
  <2> QED
    BY <2>7
<1>6. Q(w)
  <2> HIDE DEF Q
  <2> QED
    BY <1>5
<1>7. w[N] \in I[N]
  <2> HIDE DEF w
  <2>1. w[0] = loose /\ \A k \in 1..N : w[k] = AdjustLocations(w[k - 1], list[k], pack[list[k]])
    BY <1>2, <1>6
  <2> HIDE DEF I, Q
  <2> QED
    BY <1>2, <1>3, <1>4, <2>1, Turns
<1>8. PutBack(loose, list, pack) = w[N]
  BY DEF InTurn, PutBack
<1>9. N \in 0..N /\ Seen(list, N) = ToSet(list)
  BY <1>2, SeenTurns
<1> HIDE DEF w
<1> QED
  BY <1>7, <1>8, <1>9

LEMMA ReversedOrder ==
  ASSUME NEW b, Good(b), NEW order, OrderOK(b, order), NEW pack,
         \A k \in ToSet(order) : pack[k] = ToSet(b.nodes[k])
  PROVE  OutermostFirst(Reverse(order), pack)
<1> DEFINE list == Reverse(order)
           N == Len(order)
<1>1. order \in Seq(Node) /\ KidFirst(order, Up(b)) /\ N \in Nat /\ DOMAIN order = 1..N /\ ToSet(order) \subseteq Node
  BY Members DEF OrderOK
<1>2. /\ ToSet(list) = ToSet(order) /\ list \in Seq(Node) /\ Len(list) = N
      /\ \A i \in DOMAIN list : list[i] = order[N - i + 1] /\ N - i + 1 \in DOMAIN order
  BY <1>1, ReverseFacts
<1> HIDE DEF list
<1>3. DOMAIN list = 1..N
  BY <1>2, Members
<1> HIDE DEF N
<1>4. ASSUME NEW i \in DOMAIN list, NEW j \in DOMAIN list, list[i] \in pack[list[j]] PROVE j < i
  <2>1. list[j] \in ToSet(order) /\ list[j] \in Node
    BY <1>1, <1>2 DEF ToSet
  <2>2. list[i] \in ToSet(b.nodes[list[j]])
    BY <1>4, <2>1
  <2>3. list[i] \in Live(b) /\ b.owner[list[i]] = list[j] /\ ParentOf(b, list[i]) = b.owner[list[i]] /\ list[i] \in Node
    BY <2>1, <2>2, LiveFacts
  <2>4. Up(b)[list[i]] = list[j]
    BY <2>3 DEF Up
  <2> DEFINE x == N - i + 1
             y == N - j + 1
  <2>5. x \in DOMAIN order /\ y \in DOMAIN order /\ list[i] = order[x] /\ list[j] = order[y]
    BY <1>2
  <2>6. x < y
    <3> HIDE DEF x, y
    <3>1. Up(b)[order[x]] = order[y]
      BY <2>4, <2>5
    <3> QED
      BY <1>1, <2>5, <3>1 DEF KidFirst
  <2> QED
    BY <1>1, <1>3, <2>6
<1> QED
  BY <1>4 DEF OutermostFirst, list

\* When the layout is over every tiled node lies where its compound is, also
\* when that compound was itself moved into another.
LEMMA PlacedInsideHolds == CoseInv => PlacedInside
<1> SUFFICES ASSUME CoseInv, phase = "done" PROVE \A c \in DOMAIN tiling.pack : \A n \in tiling.pack[c] : <<n, c>> \in inside
  BY DEF PlacedInside
<1>1. CASE cy.nodes = <<>>
  <2>1. tiling = NoTiling
    BY <1>1 DEF CoseInv, TilingInv
  <2>2. DOMAIN tiling.pack = {}
    BY <2>1 DEF NoTiling
  <2> QED
    BY <2>2
<1>2. CASE cy.nodes # <<>>
  <2> DEFINE b == Regrouped(cy, Start(cy))
             order == CompoundOrder(b)
             loose == FoldSet(LAMBDA p, placed : AdjustLocations(placed, Dummy(p), ToSet(tiling.groups[p])),
                              {}, DOMAIN tiling.groups)
  <2>1. tiling = TilingFor(cy) /\ cy \in Maps /\ inside = Repopulated(tiling)
    BY <1>2 DEF CoseInv, TilingInv, PhaseInv, Late
  <2>2. /\ tiling.order = order /\ DOMAIN tiling.pack = ToSet(order)
        /\ \A k \in ToSet(order) : tiling.pack[k] = ToSet(b.nodes[k]) /\ k \in Node
    BY <1>2, <2>1, PacksOf
  <2>3. Good(b) /\ OrderOK(b, order)
    BY <1>2, <2>1, MapTiling DEF TiledFrom
  <2>4. inside = RepopulateCompounds(loose, tiling.order, tiling.pack)
    BY <2>1 DEF Repopulated
  <2> HIDE DEF b, order, loose
  <2>5. OutermostFirst(Reverse(order), tiling.pack)
    BY <2>2, <2>3, ReversedOrder
  <2>6. Reverse(order) \in Seq(Node) /\ ToSet(Reverse(order)) = ToSet(order)
    BY <2>3, ReverseFacts DEF OrderOK
  <2> DEFINE list == Reverse(order)
             pack == tiling.pack
  <2>7. inside = PutBack(loose, list, pack)
    BY <2>2, <2>4 DEF RepopulateCompounds, PutBack
  <2>8. list \in Seq(Node) /\ OutermostFirst(list, pack) /\ ToSet(list) = ToSet(order)
    BY <2>5, <2>6
  <2> HIDE DEF list, pack
  <2>9. InPlace(PutBack(loose, list, pack), pack, ToSet(list))
    BY <2>8, AllInPlace
  <2>10. InPlace(inside, pack, ToSet(order))
    BY <2>7, <2>8, <2>9
  <2> QED
    BY <2>2, <2>10 DEF InPlace, pack
<1> QED
  BY <1>1, <1>2

\* Tiling and pruning lose nothing: when the layout is over every node of the
\* map is in the graph or in exactly one pack and lies where its compound is,
\* and the edges are those transferred, less those along the tree.
THEOREM CoseEverythingBack == Spec => []EverythingBack
<1>1. CoseInv => EverythingBack
  BY NothingLostHolds, PlacedInsideHolds DEF EverythingBack
<1> QED
  BY <1>1, CoseInvariant, PTL

(***************************************************************************)
(* No graph is empty, so a node with no children is a simple node.         *)
(***************************************************************************)
LEMMA StartStocked ==
  ASSUME NEW c, c \in Maps, c.nodes # <<>>, NEW a, a = Start(c)
  PROVE  Stocked(a)
<1>1. MapOK(c) /\ Planted(c, a) /\ Placed(c, a)
  BY MapFacts, StartFacts
<1>2. Good(a) /\ Live(a) = Elements(c) /\ Elements(c) \subseteq Node /\ Null \notin Elements(c)
  BY <1>1 DEF Placed, MapOK
<1>3. ASSUME NEW G \in Graphs(a) PROVE ToSet(a.nodes[G]) # {}
  <2>1. CASE G = RootNode
    <3>1. a.nodes[RootNode] # <<>> /\ a.nodes[RootNode] \in Seq(Node)
      BY <1>1, <1>2, GoodLists, NodeAssumption DEF Planted, Filled, Good
    <3> QED
      BY <2>1, <3>1, Members
  <2>2. CASE G # RootNode
    <3>1. G \in Elements(c) /\ Spectral!IsParent(c, G)
      BY <1>1, <2>2 DEF Placed
    <3>2. PICK n \in Elements(c) : c.parent[n] = G
      BY <3>1 DEF Elements, Spectral!IsParent
    <3>3. a.owner[n] = G
      BY <1>1, <1>2, <3>1, <3>2 DEF Placed, Home
    <3> QED
      BY <1>2, <3>2, <3>3, LiveFacts
  <2> QED
    BY <2>1, <2>2
<1> QED
  BY <1>3 DEF Stocked

LEMMA MovedStocked ==
  ASSUME NEW a, Grown(a), Stocked(a), NEW groups, GroupsOK(a, groups),
         NEW b, Moved(a, b, groups, DOMAIN groups)
  PROVE  Stocked(b)
<1> DEFINE P == DOMAIN groups
<1>1. Good(a) /\ Good(b) /\ Live(b) = Live(a) \cup Dummies(P) /\ Graphs(b) = Graphs(a) \cup Dummies(P)
  BY DEF Grown, Moved
<1>2. P \subseteq Live(a) \cup {RootNode}
  BY DEF GroupsOK, Grown, Rooted
<1>3. \A p \in P : Dummy(p) \notin Live(a)
  BY <1>2 DEF DummiesOK, Grown
<1>4. ASSUME NEW G \in Graphs(b) PROVE \E n \in Live(b) : b.owner[n] = G
  <2>1. CASE G \in P
    <3>1. b.owner[Dummy(G)] = G /\ Dummy(G) \in Dummies(P)
      BY <2>1 DEF Moved, Dummies
    <3> QED
      BY <3>1, <1>1
  <2>2. CASE G \in Dummies(P)
    <3>1. PICK p \in P : G = Dummy(p)
      BY <2>2 DEF Dummies
    <3>2. groups[p] \in Seq(Node) /\ groups[p] # <<>> /\ ToSet(groups[p]) \subseteq Live(a)
      BY DEF GroupsOK
    <3>3. PICK n : n \in ToSet(groups[p])
      BY <3>2, Members
    <3>4. b.owner[n] = G /\ n \in Live(a)
      BY <3>1, <3>2, <3>3 DEF Moved
    <3> QED
      BY <1>1, <3>4
  <2>3. CASE G \notin P /\ G \in Graphs(a)
    <3>1. PICK n : n \in ToSet(a.nodes[G])
      BY <2>3 DEF Stocked
    <3>2. n \in Live(a) /\ a.owner[n] = G /\ n \in Node
      <4>1. G \in Node
        BY <2>3, <1>1, GoodLists DEF Good
      <4> QED
        BY <3>1, <4>1, <1>1, LiveFacts
    <3>3. n \notin Dummies(P)
      BY <3>2, <1>3 DEF Dummies
    <3>4. n \notin Grouped(groups, P)
      BY <3>2, <2>3 DEF Grouped, GroupsOK
    <3>5. b.owner[n] = a.owner[n]
      BY <3>2, <3>3, <3>4 DEF Moved
    <3> QED
      BY <1>1, <3>2, <3>5
  <2> QED
    BY <1>1, <2>1, <2>2, <2>3
<1> QED
  BY <1>1, <1>4, StockedOwners

LEMMA BaseStocked ==
  ASSUME NEW c, c \in Maps, c.nodes # <<>>
  PROVE  Stocked(Base(c))
<1> DEFINE a == Start(c)
           g == GetAllNodes(a)
           b == Regrouped(c, a)
           r == Packed(c)
           B == Base(c)
           order == CompoundOrder(b)
           groups == Groups(a)
<1>1. MapOK(c) /\ DummiesOK(Elements(c)) /\ Planted(c, a) /\ Stocked(a)
  BY MapFacts, DummyFacts, StartFacts, StartStocked
<1>2. TiledFrom(b, order, r)
  BY MapTiling
<1>3. Grown(g) /\ GroupsOK(g, groups) /\ Alike(a, g) /\ Moved(g, b, groups, DOMAIN groups)
  BY <1>1, RegroupedFacts
<1>4. Fewer(r, B, InvalidEdges(r))
  BY BaseFacts
<1> HIDE DEF a, g, b, r, B, order, groups
<1>5. Stocked(g)
  <2>1. Good(a)
    BY <1>1 DEF Planted
  <2>2. Graphs(g) = Graphs(a) /\ g.nodes = a.nodes
    BY <2>1, <1>3, AlikeGood DEF Alike, SameTree
  <2> QED
    BY <2>2, <1>1 DEF Stocked
<1>6. Stocked(b)
  BY <1>3, <1>5, MovedStocked
<1>7. Stocked(r)
  <2>1. Graphs(b) \subseteq Node
    BY <1>2, GoodLists DEF TiledFrom, Good
  <2> QED
    BY <2>1, <1>2, <1>6 DEF TiledFrom, Stocked
<1>8. Graphs(B) = Graphs(r) /\ B.nodes = r.nodes
  BY <1>4, SameTreeShape DEF Fewer, SameTree
<1> QED
  BY <1>7, <1>8 DEF Stocked, B

(***************************************************************************)
(* The weight of a node is the number of simple nodes in it.               *)
(***************************************************************************)
LEMMA CountIsCount ==
  ASSUME NEW a, Good(a), Ranked(a)
  PROVE  \E f : IsCount(f, a) /\ \A n : GetNoOfChildren(a, n) = f[n]
<1> DEFINE Q(f) == f = [k \in Node |-> IF Children(a, k) = <<>> THEN 1
                                       ELSE InTurn(LAMBDA d, c : d + f[c], 0, Children(a, k))]
           w == CHOOSE f : Q(f)
<1>1. \A f : Q(f) <=> IsCount(f, a)
  BY DEF IsCount, Total
<1>2. Q(w)
  <2> HIDE DEF Q
  <2> QED
    BY <1>1, CountExists
<1>3. \A n : GetNoOfChildren(a, n) = w[n]
  BY DEF GetNoOfChildren
<1>4. IsCount(w, a)
  <2> HIDE DEF Q, w
  <2> QED
    BY <1>1, <1>2
<1> HIDE DEF w
<1> QED
  BY <1>3, <1>4

\* calcNoOfChildren, which adds up level by level, counts the nodes without
\* children in what a node moves.
THEOREM CountsSimple ==
  ASSUME NEW a, Good(a), Ranked(a), Stocked(a)
  PROVE  \A n \in Node : GetNoOfChildren(a, n) = Cardinality(WithChildren(a, n) \cap Simple(a))
<1>1. PICK f : IsCount(f, a) /\ \A n : GetNoOfChildren(a, n) = f[n]
  BY CountIsCount
<1>2. PICK b : IsBelow(b, Node, KidsOf(a)) /\ \A n \in Node : WithChildren(a, n) = b[n]
  BY WithChildrenBelow
<1>3. PICK h : Forest(Node, KidsOf(a), Up(a), h)
  BY TreeForest
<1> DEFINE part == [k \in Node |-> b[k] \cap Simple(a)]
           P == {n \in Node : f[n] = Cardinality(part[n])}
<1>4. h \in [Node -> Nat]
  BY <1>3 DEF Forest
<1>5. ASSUME NEW n \in Node, \A k \in Node : h[k] < h[n] => k \in P PROVE n \in P
  <2>1. KidsOf(a)[n] = Children(a, n)
    BY DEF KidsOf
  <2> DEFINE kids == Children(a, n)
  <2>2. /\ kids \in Seq(Node) /\ IsInjective(kids)
        /\ \A k \in ToSet(kids) : Up(a)[k] = n /\ h[k] < h[n] /\ k \in Node
    <3>1. ToSet(KidsOf(a)[n]) \subseteq Node /\ KidsOf(a)[n] \in Seq(Node)
      BY <1>3, KidsAreNodes
    <3> QED
      BY <1>3, <2>1, <3>1 DEF Forest
  <2>3. b[n] = {n} \cup UNION {b[k] : k \in ToSet(kids)}
    BY <1>2, <1>3, <2>1, BelowFacts
  <2>4. f[n] = IF kids = <<>> THEN 1 ELSE Total(f, kids)
    BY <1>1 DEF IsCount
  <2>5. kids = <<>> <=> n \in Simple(a)
    <3>1. kids = IF n \in Graphs(a) THEN a.nodes[n] ELSE <<>>
      BY ChildrenFacts
    <3>2. a.child[n] = IF n \in Graphs(a) THEN n ELSE Null
      BY LiveFacts
    <3>3. n \in Graphs(a) => a.nodes[n] # <<>>
      <4>1. n \in Graphs(a) => ToSet(a.nodes[n]) # {}
        BY DEF Stocked
      <4> QED
        BY <4>1, NoMembers
    <3> QED
      BY <3>1, <3>2, <3>3, NodeAssumption DEF Simple
  <2>6. CASE kids = <<>>
    <3>1. ToSet(kids) = {}
      BY <2>6, NoMembers
    <3>2. part[n] = {n}
      BY <2>3, <2>5, <2>6, <3>1
    <3>3. Cardinality({n}) = 1
      BY FS_Singleton
    <3>4. f[n] = 1
      BY <2>4, <2>6
    <3> QED
      BY <3>2, <3>3, <3>4
  <2>7. CASE kids # <<>>
    <3> HIDE DEF kids
    <3>1. PartsOK(part, ToSet(kids), Node)
      <4>1. \A k \in ToSet(kids) : part[k] \in SUBSET Node
        BY <2>2 DEF Simple
      <4>2. ASSUME NEW k \in ToSet(kids), NEW j \in ToSet(kids), k # j PROVE b[k] \cap b[j] = {}
        <5>1. \A x \in b[j] : h[x] <= h[j]
          BY <1>2, <1>3, <2>2, BelowFacts
        <5>2. \A x \in b[k] : h[x] <= h[k]
          BY <1>2, <1>3, <2>2, BelowFacts
        <5>3. n \notin b[j] /\ n \notin b[k]
          BY <1>4, <2>2, <5>1, <5>2
        <5>4. Up(a)[k] \notin b[j] /\ Up(a)[j] \notin b[k] /\ k \in Node /\ j \in Node
          BY <2>2, <5>3
        <5> QED
          BY <1>2, <1>3, <4>2, <5>4, BelowApart
      <4>3. \A k, j \in ToSet(kids) : k # j => part[k] \cap part[j] = {}
        BY <2>2, <4>2
      <4> HIDE DEF part
      <4> QED
        BY <4>1, <4>3, NodeAssumption DEF PartsOK
    <3>2. \A k \in ToSet(kids) : f[k] = Cardinality(part[k])
      BY <1>5, <2>2
    <3>3. ASSUME NEW k \in ToSet(kids) PROVE f[k] \in Nat /\ f[k] = Cardinality(part[k])
      <4>1. part[k] \in SUBSET Node
        BY <2>2 DEF Simple
      <4> HIDE DEF part
      <4>2. IsFiniteSet(part[k])
        BY <4>1, FS_Subset, NodeAssumption
      <4>3. Cardinality(part[k]) \in Nat
        BY <4>2, FS_CardinalityType
      <4> QED
        BY <3>2, <4>3
    <3>4. Together(part, ToSet(kids)) = part[n]
      <4>1. n \notin Simple(a)
        BY <2>5, <2>7
      <4>2. part[n] = b[n] \cap Simple(a)
        OBVIOUS
      <4>3. \A k \in ToSet(kids) : part[k] = b[k] \cap Simple(a)
        BY <2>2
      <4> HIDE DEF part
      <4>4. \A x : x \in b[n] <=> x = n \/ \E k \in ToSet(kids) : x \in b[k]
        BY ONLY <2>3
      <4>5. \A x : x \in part[n] <=> \E k \in ToSet(kids) : x \in part[k]
        BY ONLY <4>1, <4>2, <4>3, <4>4
      <4>6. \A x : x \in Together(part, ToSet(kids)) <=> \E k \in ToSet(kids) : x \in part[k]
        BY ONLY DEF Together
      <4> QED
        BY ONLY <4>5, <4>6
    <3>5. Total(f, kids) = Cardinality(part[n])
      <4> HIDE DEF part
      <4> QED
        BY <2>2, <3>1, <3>3, <3>4, TotalOfParts
    <3> QED
      BY <2>4, <2>7, <3>5
  <2> QED
    BY <2>6, <2>7
<1> HIDE DEF P
<1>6. Node \subseteq P
  BY <1>4, <1>5, FromBelow
<1> QED
  BY <1>1, <1>2, <1>6 DEF P

LEMMA WeightForm ==
  ASSUME NEW B, Bare(B), Stocked(B), NEW n, n \in Live(B)
  PROVE  NoOfChildren(B)[n] = Cardinality({k \in Live(B) : B.child[k] = Null /\ n \in ToSet(Chain(B, k))})
<1>1. Tree(B)
  BY DEF Bare, Tree
<1>2. n \in Node /\ Live(B) \subseteq Node
  BY <1>1, LiveFacts DEF Tree
<1>3. Contains(AllNodes(B), n)
  <2>1. LiveNodes(B) \in Seq(Node) /\ ToSet(LiveNodes(B)) = Live(B)
    BY <1>1, LiveLists DEF Tree
  <2>2. AllNodes(B) = LiveNodes(B)
    BY DEF AllNodes, Bare, NoCaches
  <2> QED
    BY <2>1, <2>2, Members
<1>4. NoOfChildren(B)[n] = GetNoOfChildren(B, n)
  BY <1>2, <1>3 DEF NoOfChildren
<1>5. GetNoOfChildren(B, n) = Cardinality(WithChildren(B, n) \cap Simple(B))
  BY <1>1, <1>2, CountsSimple DEF Tree
<1>6. /\ \A k \in Live(B) : n \in ToSet(Chain(B, k)) <=> k \in WithChildren(B, n)
      /\ WithChildren(B, n) \subseteq Live(B)
  BY <1>1, ChainBelow
<1>7. WithChildren(B, n) \cap Simple(B) = {k \in Live(B) : B.child[k] = Null /\ n \in ToSet(Chain(B, k))}
  BY <1>2, <1>6 DEF Simple
<1> QED
  BY <1>4, <1>5, <1>7

LEMMA WeightsHold == CoseInv => WeightsKnown
<1> SUFFICES ASSUME CoseInv, phase = "ticking" PROVE WeightsKnown
  BY DEF WeightsKnown
<1> DEFINE B == Base(cy)
           out == UNION {{pruned[i][j].node : j \in DOMAIN pruned[i]} : i \in DOMAIN pruned}
           simple == {k \in ToSet(LiveNodes(m)) \cup out : m.child[k] = Null}
           Q(n) == {k \in simple : n \in ToSet(Chain(m, k))}
<1>1. Springy(B, NodesWithGravity(B), m, pruned) /\ cy \in Maps /\ cy.nodes # <<>> /\ weight = NoOfChildren(B)
  BY DEF CoseInv, GraphInv, PhaseInv, Middle, TickInv
<1>2. Bare(B) /\ Stocked(B) /\ Tree(B)
  BY <1>1, BaseFacts, BaseStocked DEF Bare, Tree
<1> HIDE DEF B
<1>3. Reduced(B, m, pruned)
  BY <1>1, SpringyFacts
<1>4. /\ \A n : Chain(m, n) = Chain(B, n)
      /\ m.child = B.child /\ Live(B) = Live(m) \cup NodesIn(Out(pruned)) /\ Good(m)
  <2>1. \A n : Chain(m, n) = Chain(B, n)
    BY <1>2, <1>3, ReducedTree
  <2> QED
    BY <2>1, <1>3 DEF Reduced, SameGraphs
<1>5. ToSet(LiveNodes(m)) = Live(m)
  BY <1>4, LiveLists
<1>6. out = NodesIn(Out(pruned))
  BY DEF NodesIn, Out, ToSet
<1>7. simple = {k \in Live(B) : B.child[k] = Null}
  BY <1>4, <1>5, <1>6
<1> HIDE DEF simple
<1>8. ASSUME NEW n \in Live(m) PROVE weight[n] = Cardinality(Q(n))
  <2>1. n \in Live(B)
    BY <1>4
  <2>2. Q(n) = {k \in Live(B) : B.child[k] = Null /\ n \in ToSet(Chain(B, k))}
    BY <1>4, <1>7
  <2>3. NoOfChildren(B)[n] = Cardinality({k \in Live(B) : B.child[k] = Null /\ n \in ToSet(Chain(B, k))})
    BY <1>2, <2>1, WeightForm
  <2> QED
    BY ONLY <1>1, <2>2, <2>3
<1> QED
  BY <1>5, <1>8 DEF WeightsKnown, simple

(***************************************************************************)
(* Which pairs of nodes repel each other: those of one graph, once.        *)
(***************************************************************************)
\* What surrounding is after it has been renewed, and what that is good for.
Renewed(a, s) == \A n \in Live(a) : s[n] = RepelledBy(a, Live(a), n)

Repelling(a, s) ==
  \A n \in Live(a) :
    /\ s[n] \subseteq Live(a) \ {n}
    /\ \A k \in Live(a) \ {n} : a.owner[n] = a.owner[k] <=> ((k \in s[n]) # (n \in s[k]))

LEMMA RepelledForm ==
  ASSUME NEW a, Good(a), Fresh(a), NEW n, n \in Live(a)
  PROVE  \A k : k \in RepelledBy(a, Live(a), n) <=>
                  /\ k \in Live(a) /\ k # n /\ a.owner[k] = a.owner[n]
                  /\ ~(Place(AllNodes(a), k) < Place(AllNodes(a), n))
<1>1. ToSet(AllNodes(a)) = Live(a)
  BY FreshLists, LiveLists
<1> QED
  BY <1>1 DEF RepelledBy, Place

LEMMA RenewedRepels ==
  ASSUME NEW a, Good(a), Fresh(a), NEW s, Renewed(a, s)
  PROVE  Repelling(a, s)
<1> DEFINE list == AllNodes(a)
           at(n) == Place(list, n)
<1>1. list \in Seq(Node) /\ ToSet(list) = Live(a)
  BY FreshLists, LiveLists DEF NodeLists
<1>2. \A n \in Live(a) : at(n) \in Nat /\ list[at(n)] = n
  <2> SUFFICES ASSUME NEW n \in Live(a) PROVE at(n) \in Nat /\ list[at(n)] = n
    OBVIOUS
  <2>1. at(n) \in DOMAIN list /\ list[at(n)] = n
    <3> HIDE DEF list
    <3> QED
      BY <1>1, PlaceFacts
  <2>2. DOMAIN list = 1..Len(list) /\ Len(list) \in Nat
    <3> HIDE DEF list
    <3> QED
      BY <1>1, Members
  <2> HIDE DEF at
  <2> QED
    BY <2>1, <2>2
<1>3. \A n \in Live(a) : \A k : k \in s[n] <=>
        k \in Live(a) /\ k # n /\ a.owner[k] = a.owner[n] /\ ~(at(k) < at(n))
  BY RepelledForm DEF Renewed
<1> HIDE DEF at, list
<1>4. ASSUME NEW n \in Live(a) PROVE s[n] \subseteq Live(a) \ {n}
  BY <1>3
<1>5. ASSUME NEW n \in Live(a), NEW k \in Live(a), k # n
      PROVE  a.owner[n] = a.owner[k] <=> ((k \in s[n]) # (n \in s[k]))
  <2>1. at(n) # at(k)
    BY <1>2, <1>5
  <2>2. (at(k) < at(n)) <=> ~(at(n) < at(k))
    BY <1>2, <2>1
  <2>3. k \in s[n] <=> a.owner[k] = a.owner[n] /\ ~(at(k) < at(n))
    BY <1>3, <1>5
  <2>4. n \in s[k] <=> a.owner[n] = a.owner[k] /\ ~(at(n) < at(k))
    BY <1>3, <1>5
  <2> QED
    BY ONLY <2>2, <2>3, <2>4
<1> QED
  BY <1>4, <1>5 DEF Repelling

(***************************************************************************)
(* The counters of tick, and when the nodes to repel are looked up again.  *)
(***************************************************************************)
Counters(c) ==
  /\ c.total \in Nat /\ c.growIter \in Nat /\ c.afterIter \in Nat
  /\ c.growing \in BOOLEAN /\ c.finished \in BOOLEAN /\ ~(c.growing /\ c.finished)
  /\ ~c.growing /\ ~c.finished => c.growIter = 0
  /\ c.total = 0 => ~c.growing /\ ~c.finished

\* The second part of the inductive invariant.
ForceInv ==
  phase = "ticking" => Counters(clock) /\ (clock.total > 0 => Repelling(m, surrounding))

LEMMA CountersHold ==
  ASSUME NEW c, c.total \in Nat, c.total > 0, c.growIter \in Nat, c.afterIter \in Nat,
         c.growing \in BOOLEAN, c.finished \in BOOLEAN, c.growing <=> ~c.finished
  PROVE  Counters(c)
<1>1. ~(c.growing /\ c.finished) /\ (c.growing \/ c.finished)
  OBVIOUS
<1>2. c.total # 0
  OBVIOUS
<1> QED
  BY ONLY <1>1, <1>2, c.total \in Nat, c.growIter \in Nat, c.afterIter \in Nat,
          c.growing \in BOOLEAN, c.finished \in BOOLEAN DEF Counters

LEMMA NowFacts ==
  ASSUME clock.total \in Nat
  PROVE  Now \in Nat /\ Now > 0 /\ (clock.total = 0 => Now = 1)
<1> DEFINE I == {clock.total, MaxIterations}
<1>1. MaxIterations \in Nat
  BY PeriodAssumption
<1>2. \E x \in I : \A y \in I : x <= y
  BY <1>1
<1>3. Min(I) \in I /\ \A y \in I : Min(I) <= y
  <2> HIDE DEF I
  <2> QED
    BY <1>2 DEF Min
<1> DEFINE x == Min(I)
<1>4. x \in Nat /\ (clock.total = 0 => x = 0)
  <2> HIDE DEF x
  <2>1. x \in I /\ \A y \in I : x <= y
    BY <1>3 DEF x
  <2> QED
    BY <1>1, <2>1
<1>5. Now = x + 1
  BY DEF Now
<1> HIDE DEF x
<1> QED
  BY <1>4, <1>5

Regrid(c) == c.total % GridPeriod = 1 /\ ~c.growing /\ ~c.finished

LEMMA ForcesRepel ==
  ASSUME NEW B, NEW list, NEW a, NEW layers, Springy(B, list, a, layers),
         NEW cells, NEW c, ApplyForces(a, cells, c), Counters(c), DOMAIN c = TickFields, c.total > 0,
         Forced(c) => cells = ToSet(AllNodes(a)),
         Regrid(c) \/ Forced(c) \/ Repelling(a, surrounding)
  PROVE  Counters(clock') /\ Repelling(m', surrounding')
<1>1. Good(a) /\ Fresh(a) /\ m' = Ready(a) /\ Alike(a, m')
  <2>1. m' = Ready(a)
    BY DEF ApplyForces, Ready
  <2> QED
    BY <2>1, SpringyFacts, ReadySpringy
<1>2. ToSet(AllNodes(a)) = Live(a) /\ Live(a) \subseteq Node
  <2>1. AllNodes(a) = LiveNodes(a)
    BY <1>1, FreshLists
  <2> QED
    BY <1>1, <2>1, LiveLists, LiveFacts
<1>3. Repelling(a, surrounding')
  <2> DEFINE cells2 == IF Regrid(c) THEN ToSet(AllNodes(a)) ELSE cells
             s == [n \in Node |-> IF n \in ToSet(AllNodes(a)) THEN RepelledBy(a, cells2, n) ELSE surrounding[n]]
  <2>1. surrounding' = IF Regrid(c) \/ Forced(c) THEN s ELSE surrounding
    BY DEF ApplyForces, Regrid
  <2>2. CASE Regrid(c) \/ Forced(c)
    <3>1. cells2 = Live(a)
      BY <1>2, <2>2
    <3>2. \A n \in Live(a) : s[n] = RepelledBy(a, cells2, n)
      BY <1>2
    <3> HIDE DEF cells2, s
    <3>3. Renewed(a, s)
      BY <3>1, <3>2 DEF Renewed
    <3> QED
      BY <1>1, <2>1, <2>2, <3>3, RenewedRepels
  <2>3. CASE ~(Regrid(c) \/ Forced(c))
    BY <2>1, <2>3
  <2> QED
    BY <2>2, <2>3
<1>4. Live(m') = Live(a) /\ m'.owner = a.owner
  BY <1>1, AlikeGood DEF Alike, SameTree
<1>5. Repelling(m', surrounding')
  BY ONLY <1>3, <1>4 DEF Repelling
<1>6. Counters(clock')
  <2>1. \E still \in BOOLEAN : clock' = [c EXCEPT !.still = still]
    BY DEF ApplyForces
  <2>2. /\ clock'.total = c.total /\ clock'.growIter = c.growIter /\ clock'.afterIter = c.afterIter
        /\ clock'.growing = c.growing /\ clock'.finished = c.finished
    BY <2>1 DEF TickFields
  <2> QED
    BY ONLY <2>2, Counters(c) DEF Counters
<1> QED
  BY <1>5, <1>6

LEMMA TickRepels ==
  ASSUME CoseInv, ForceInv, phase = "ticking", NEW osc, Tick(osc)
  PROVE  Counters(clock') /\ Repelling(m', surrounding')
<1> DEFINE B == Base(cy)
           list == NodesWithGravity(B)
<1>1. /\ Springy(B, list, m, pruned) /\ withGravity = list /\ DOMAIN clock = TickFields
      /\ (clock.finished => pruned = <<>>) /\ cy \in Maps /\ cy.nodes # <<>>
  BY DEF CoseInv, GraphInv, TickInv, PhaseInv, Middle
<1>2. list \in Seq(Node)
  <2>1. Bare(B)
    BY <1>1, BaseFacts
  <2> HIDE DEF B
  <2> QED
    BY <2>1, NodesWithGravityList DEF Bare
<1> HIDE DEF B, list
<1>3. Counters(clock) /\ (clock.total > 0 => Repelling(m, surrounding))
  BY DEF ForceInv
<1>4. Now \in Nat /\ Now > 0 /\ (clock.total = 0 => Now = 1)
  BY <1>3, NowFacts DEF Counters
<1>5. clock.growing \/ clock.finished => Repelling(m, surrounding)
  BY <1>3 DEF Counters
<1>6. /\ 1 % GridPeriod = 1 /\ 0 % GrowPeriod = 0
      /\ \A k \in Nat : (k + 1) % GrowPeriod = 1 <=> k % GrowPeriod = 0
  BY PeriodAssumption, NextTurn, FirstTurn
<1>7. CASE SpringTick(osc)
  <2> DEFINE c == [clock EXCEPT !.total = Now]
  <2>1. ApplyForces(m, grid, c) /\ ~clock.growing /\ ~clock.finished
    BY <1>7 DEF SpringTick, Running
  <2>2. /\ DOMAIN c = TickFields /\ c.finished = clock.finished /\ c.growing = clock.growing
        /\ c.total = Now /\ c.growIter = clock.growIter /\ c.afterIter = clock.afterIter
    BY <1>1 DEF TickFields
  <2> HIDE DEF c
  <2>3. Counters(c) /\ c.total > 0 /\ ~Forced(c)
    BY <1>3, <1>4, <2>1, <2>2 DEF Counters, Forced
  <2>4. Regrid(c) \/ Repelling(m, surrounding)
    <3>1. CASE clock.total = 0
      BY <1>4, <1>6, <2>1, <2>2, <3>1 DEF Regrid
    <3>2. CASE clock.total # 0
      BY <1>3, <3>2 DEF Counters
    <3> QED
      BY <3>1, <3>2
  <2> QED
    BY <1>1, <2>1, <2>2, <2>3, <2>4, ForcesRepel
<1>8. CASE GrowTick(osc)
  <2> DEFINE c == [clock EXCEPT !.total = Now, !.growing = TRUE, !.growIter = @ + 1]
             d == [c EXCEPT !.cooling = Cooldown]
             a == Grow(m, pruned, withGravity)
  <2>1. pruned # <<>> /\ ~clock.finished /\ (clock.growing \/ (~clock.growing /\ ~clock.finished))
    BY <1>1, <1>8 DEF GrowTick, Settled, Running
  <2>2. /\ DOMAIN c = TickFields /\ c.finished = clock.finished /\ c.growing = TRUE
        /\ c.total = Now /\ c.growIter = clock.growIter + 1 /\ c.afterIter = clock.afterIter
    BY <1>1 DEF TickFields
  <2>3. CASE GrowDue
    <3>1. pruned' = Front(pruned) /\ ApplyForces(a, ToSet(AllNodes(a)), d)
      BY <1>8, <2>3 DEF GrowTick, Grow, GrowTree
    <3> HIDE DEF c
    <3>2. /\ DOMAIN d = TickFields /\ d.finished = clock.finished /\ d.growing = TRUE
          /\ d.total = Now /\ d.growIter = clock.growIter + 1 /\ d.afterIter = clock.afterIter
      BY <2>2 DEF TickFields
    <3>3. Springy(B, list, a, Front(pruned))
      BY <1>1, <1>2, <2>1, GrowSpringy
    <3> HIDE DEF a, d
    <3>4. Counters(d) /\ d.total > 0
      <4>1. d.total \in Nat /\ d.total > 0 /\ d.growIter \in Nat /\ d.afterIter \in Nat
        BY <1>3, <1>4, <3>2 DEF Counters
      <4>3. clock.finished \in BOOLEAN
        BY <1>3 DEF Counters
      <4>2. d.growing \in BOOLEAN /\ d.finished \in BOOLEAN /\ (d.growing <=> ~d.finished)
        BY ONLY <4>3, <2>1, <3>2
      <4> QED
        BY <4>1, <4>2, CountersHold
    <3>5. Forced(d)
      BY <1>3, <1>6, <2>3, <3>2 DEF Counters, Forced, GrowDue
    <3> QED
      BY <3>1, <3>2, <3>3, <3>4, <3>5, ForcesRepel
  <2>4. CASE ~GrowDue
    <3>1. ApplyForces(m, grid, c)
      BY <1>8, <2>4 DEF GrowTick
    <3> HIDE DEF c
    <3>2. Counters(c) /\ c.total > 0
      <4>1. c.total \in Nat /\ c.total > 0 /\ c.growIter \in Nat /\ c.afterIter \in Nat
        BY <1>3, <1>4, <2>2 DEF Counters
      <4>3. clock.finished \in BOOLEAN
        BY <1>3 DEF Counters
      <4>2. c.growing \in BOOLEAN /\ c.finished \in BOOLEAN /\ (c.growing <=> ~c.finished)
        BY ONLY <4>3, <2>1, <2>2
      <4> QED
        BY <4>1, <4>2, CountersHold
    <3>3. ~Forced(c)
      BY <1>3, <1>6, <2>1, <2>2, <2>4 DEF Counters, Forced, GrowDue
    <3>4. clock.growing
      BY <1>3, <1>6, <2>1, <2>4 DEF Counters, GrowDue
    <3> QED
      BY <1>1, <1>5, <2>2, <3>1, <3>2, <3>3, <3>4, ForcesRepel
  <2> QED
    BY <2>3, <2>4
<1>9. CASE WaitTick
  <2> DEFINE c == [clock EXCEPT !.total = Now, !.growIter = @ + 1]
  <2>1. ApplyForces(m, grid, c) /\ clock.growing /\ ~GrowDue
    BY <1>9 DEF WaitTick
  <2>2. /\ DOMAIN c = TickFields /\ c.finished = clock.finished /\ c.growing = clock.growing
        /\ c.total = Now /\ c.growIter = clock.growIter + 1 /\ c.afterIter = clock.afterIter
    BY <1>1 DEF TickFields
  <2> HIDE DEF c
  <2>3. Counters(c) /\ c.total > 0
    BY <1>3, <1>4, <2>1, <2>2 DEF Counters
  <2>4. ~Forced(c)
    BY <1>3, <1>6, <2>1, <2>2 DEF Counters, Forced, GrowDue
  <2> QED
    BY <1>1, <1>5, <2>1, <2>2, <2>3, <2>4, ForcesRepel
<1>10. CASE CoolTick(osc)
  <2> DEFINE after == clock.afterIter
             cells == IF after % GrowPeriod = 0 THEN ToSet(AllNodes(m)) ELSE grid
             c == [clock EXCEPT !.total = Now, !.growing = FALSE, !.finished = TRUE,
                                !.growIter = IF clock.growing THEN @ + 1 ELSE @,
                                !.cooling = Cooldown - after, !.afterIter = after + 1]
  <2>1. ApplyForces(m, cells, c) /\ (clock.growing \/ clock.finished)
    BY <1>10 DEF CoolTick, GrowthOver
  <2>2. /\ DOMAIN c = TickFields /\ c.finished = TRUE /\ c.growing = FALSE
        /\ c.total = Now /\ c.growIter = (IF clock.growing THEN clock.growIter + 1 ELSE clock.growIter)
        /\ c.afterIter = clock.afterIter + 1
    BY <1>1 DEF TickFields
  <2> HIDE DEF c
  <2>3. Counters(c) /\ c.total > 0
    <3>1. c.total \in Nat /\ c.total > 0 /\ c.growIter \in Nat /\ c.afterIter \in Nat
      BY <1>3, <1>4, <2>2 DEF Counters
    <3>2. c.growing \in BOOLEAN /\ c.finished \in BOOLEAN /\ (c.growing <=> ~c.finished)
      BY ONLY <2>2
    <3> QED
      BY <3>1, <3>2, CountersHold
  <2>4. Forced(c) => cells = ToSet(AllNodes(m))
    BY <1>3, <1>6, <2>2 DEF Counters, Forced
  <2> HIDE DEF cells
  <2> QED
    BY <1>1, <1>5, <2>1, <2>2, <2>3, <2>4, ForcesRepel
<1> QED
  BY <1>7, <1>8, <1>9, <1>10 DEF Tick

LEMMA ForceStep == CoseInv /\ ForceInv /\ [Next]_vars => ForceInv'
<1> SUFFICES ASSUME CoseInv, ForceInv, [Next]_vars, phase' = "ticking"
             PROVE  Counters(clock') /\ (clock'.total > 0 => Repelling(m', surrounding'))
  BY DEF ForceInv
<1>1. CASE ClassicLayout
  BY <1>1 DEF ClassicLayout, NewClock, Counters
<1>2. CASE RunSpringEmbedder
  <2>1. phase = "ticking" /\ \E osc \in BOOLEAN : Tick(osc)
    BY <1>2 DEF RunSpringEmbedder
  <2> QED
    BY <2>1, TickRepels
<1>3. CASE UNCHANGED vars
  BY <1>3 DEF vars, ForceInv
<1> QED
  BY <1>1, <1>2, <1>3 DEF Next, Run, SpectralLayout, TransferElements, TilingPreLayout, TilingPostLayout,
                          LayoutPositions, Done

LEMMA RepelHolds == CoseInv /\ ForceInv => RepelOnce
<1> SUFFICES ASSUME CoseInv, ForceInv, phase = "ticking", clock.total > 0 PROVE RepelOnce
  BY DEF RepelOnce, Ticked
<1>1. Repelling(m, surrounding)
  BY DEF ForceInv
<1>2. Springy(Base(cy), NodesWithGravity(Base(cy)), m, pruned)
  BY DEF CoseInv, GraphInv
<1>3. ToSet(LiveNodes(m)) = Live(m)
  BY <1>2, SpringyFacts, LiveLists
<1> QED
  BY <1>1, <1>3 DEF RepelOnce, Repelling

\* In every tick two nodes of one graph repel each other exactly once, those
\* just put back included, and what moves a node is divided by the number of
\* simple nodes in it, those included that are pruned at the moment.
THEOREM CoseForcesSound == Spec => []ForcesSound
<1>1. Init => ForceInv
  BY DEF Init, ForceInv
<1>2. CoseInv /\ ForceInv /\ [Next]_vars => ForceInv'
  BY ForceStep
<1>3. CoseInv /\ ForceInv => ForcesSound
  BY WeightsHold, RepelHolds DEF ForcesSound
<1> QED
  BY <1>1, <1>2, <1>3, CoseInvariant, PTL DEF Spec

(***************************************************************************)
(* The sampled graph: searching it, and choosing samples.                  *)
(***************************************************************************)
LEMMA SameCardinality == ASSUME NEW S PROVE Spectral!Cardinality(S) = Cardinality(S)
BY DEF Cardinality, Spectral!Cardinality

LEMMA FiniteImage ==
  ASSUME NEW S, IsFiniteSet(S), NEW f, NEW T, T = {f[x] : x \in S}
  PROVE  IsFiniteSet(T) /\ Cardinality(T) \in Nat
<1> DEFINE F == [x \in S |-> f[x]]
<1>1. F \in Surjection(S, T)
  BY DEF Surjection
<1>2. IsFiniteSet(T)
  BY <1>1, FS_Surjection
<1> QED
  BY <1>2, FS_CardinalityType

LEMMA ListIsFinite ==
  ASSUME NEW S, NEW s, s \in Seq(S)
  PROVE  IsFiniteSet(ToSet(s)) /\ Cardinality(ToSet(s)) \in Nat /\ Cardinality(ToSet(s)) <= Len(s)
<1>1. Len(s) \in Nat /\ DOMAIN s = 1..Len(s) /\ s \in [1..Len(s) -> S]
  BY LenProperties
<1>2. s \in Surjection(1..Len(s), ToSet(s))
  BY <1>1 DEF Surjection, ToSet
<1>3. ExistsSurjection(1..Len(s), ToSet(s))
  BY <1>2 DEF ExistsSurjection
<1> QED
  BY <1>1, <1>3, FS_NatSurjection, FS_SurjCardinalityBound, FS_CardinalityType

LEMMA GreatestNatural ==
  ASSUME NEW S, S \subseteq Nat, S # {}, NEW b, b \in Nat, \A n \in S : n <= b
  PROVE  \E top \in S : \A n \in S : n <= top
<1> DEFINE T == {b - n : n \in S}
<1>1. T \subseteq Nat /\ T # {}
  <2>1. \A n \in S : b - n \in Nat
    BY SMT
  <2> QED
    BY <2>1
<1>2. PICK t \in T : \A n \in T : t <= n
  <2> HIDE DEF T
  <2> QED
    BY <1>1, LeastNatural
<1>3. PICK top \in S : t = b - top
  BY <1>2
<1>4. \A n \in S : b - top <= b - n
  BY <1>2, <1>3
<1>5. ASSUME NEW n \in S PROVE n <= top
  <2>1. b - top <= b - n /\ n \in Nat /\ top \in Nat
    BY <1>4
  <2> QED
    BY ONLY <2>1, b \in Nat
<1> QED
  BY <1>5

LEMMA LeastAndGreatest ==
  ASSUME NEW S, S \subseteq Nat, S # {}, NEW b, b \in Nat, \A n \in S : n <= b
  PROVE  /\ Spectral!Min(S) \in S /\ \A n \in S : Spectral!Min(S) <= n
         /\ Spectral!Max(S) \in S /\ \A n \in S : n <= Spectral!Max(S)
<1>1. \E top \in S : \A n \in S : top <= n
  BY LeastNatural
<1>2. \E top \in S : \A n \in S : top >= n
  <2>1. PICK top \in S : \A n \in S : n <= top
    BY GreatestNatural
  <2>2. \A n \in S : top >= n
    BY <2>1
  <2> QED
    BY <2>2
<1>3. Spectral!Min(S) \in S /\ \A n \in S : Spectral!Min(S) <= n
  BY <1>1 DEF Spectral!Min
<1>4. Spectral!Max(S) \in S /\ \A n \in S : Spectral!Max(S) >= n
  BY <1>2 DEF Spectral!Max
<1>5. \A n \in S : n <= Spectral!Max(S)
  BY <1>4
<1> QED
  BY <1>3, <1>4, <1>5

\* A graph as the spectral layout makes it, and that no set of vertices but
\* the whole is left by no edge: it does not fall apart.
Sampled(g) == IsFiniteSet(g.node) /\ g.edge \subseteq g.node \X g.node
Leaving(g, X) == \E p \in g.edge : p[1] \in X /\ p[2] \notin X
OnePiece(g) == \A X \in SUBSET g.node : X # {} /\ X # g.node => Leaving(g, X)

LEMMA WidenedFacts ==
  ASSUME NEW g, Sampled(g), OnePiece(g), NEW X, X \subseteq g.node, X # {}, NEW Y, Y = Spectral!Widened(g, X)
  PROVE  /\ Y \subseteq g.node /\ X \subseteq Y
         /\ X # g.node => Cardinality(Y) > Cardinality(X)
<1>1. Y = X \cup {p[2] : p \in {q \in g.edge : q[1] \in X}}
  BY DEF Spectral!Widened
<1>2. \A p \in g.edge : p[1] \in g.node /\ p[2] \in g.node
  BY DEF Sampled
<1>3. Y \subseteq g.node /\ X \subseteq Y
  BY <1>1, <1>2
<1>4. IsFiniteSet(g.node)
  BY DEF Sampled
<1>5. IsFiniteSet(Y)
  BY <1>3, <1>4, FS_Subset
<1>6. ASSUME X # g.node PROVE Cardinality(Y) > Cardinality(X)
  <2>1. PICK p \in g.edge : p[1] \in X /\ p[2] \notin X
    BY <1>6 DEF OnePiece, Leaving
  <2>2. p[2] \in Y
    BY <2>1, <1>1
  <2>3. X # Y
    BY <2>1, <2>2
  <2>4. X \in SUBSET Y
    BY <1>3
  <2>5. IsFiniteSet(X) /\ Cardinality(X) <= Cardinality(Y) /\ Cardinality(X) # Cardinality(Y)
    BY <2>3, <2>4, <1>5, FS_Subset
  <2>6. Cardinality(X) \in Nat /\ Cardinality(Y) \in Nat
    BY <2>5, <1>5, FS_CardinalityType
  <2> QED
    BY <2>5, <2>6
<1> QED
  BY <1>3, <1>6

(***************************************************************************)
(* The breadth-first search.                                               *)
(***************************************************************************)
\* What has been found after k turns.
Searched(g, pivot, k) ==
  {s \in Seq(SUBSET g.node) :
     /\ Len(s) = k + 1 /\ s[1] = {pivot}
     /\ \A i \in 1..(k + 1) : pivot \in s[i]
     /\ s[k + 1] = g.node \/ Cardinality(s[k + 1]) >= k + 1}

LEMMA SearchStep ==
  ASSUME NEW g, Sampled(g), OnePiece(g), NEW pivot, pivot \in g.node, NEW k, k \in Nat, k > 0,
         NEW s, s \in Searched(g, pivot, k - 1), NEW t, t = Append(s, Spectral!Widened(g, Spectral!Last(s)))
  PROVE  t \in Searched(g, pivot, k)
<1> DEFINE X == s[k]
           Y == Spectral!Widened(g, X)
           V == SUBSET g.node
<1>0. k - 1 + 1 = k /\ k \in 1..k /\ k + 1 - 1 = k
  OBVIOUS
<1>1. /\ s \in Seq(V) /\ Len(s) = k /\ s[1] = {pivot} /\ (\A i \in 1..k : pivot \in s[i])
      /\ s[k] = g.node \/ Cardinality(s[k]) >= k
  BY <1>0 DEF Searched
<1>2. Spectral!Last(s) = X
  BY <1>1 DEF Spectral!Last
<1>3. X \in V /\ pivot \in X
  BY <1>0, <1>1, ElementOfSeq
<1>4. t = Append(s, Y)
  BY <1>2
<1>5. Y \subseteq g.node /\ X \subseteq Y /\ (X # g.node => Cardinality(Y) > Cardinality(X))
  <2> HIDE DEF X
  <2>1. X \subseteq g.node /\ X # {}
    BY <1>3
  <2> QED
    BY <2>1, WidenedFacts
<1> HIDE DEF Y
<1>6. t \in Seq(V) /\ Len(t) = k + 1 /\ t[k + 1] = Y /\ \A i \in 1..k : t[i] = s[i]
  <2>1. Y \in V
    BY <1>5
  <2> HIDE DEF V
  <2> QED
    BY <1>1, <1>4, <2>1, AppendMembers
<1>7. t[1] = {pivot}
  BY <1>1, <1>6
<1>8. ASSUME NEW i \in 1..(k + 1) PROVE pivot \in t[i]
  <2>1. i \in 1..k \/ i = k + 1
    OBVIOUS
  <2> QED
    BY <2>1, <1>1, <1>3, <1>5, <1>6
<1>9. t[k + 1] = g.node \/ Cardinality(t[k + 1]) >= k + 1
  <2>1. CASE X = g.node
    <3>1. Y = g.node
      BY <2>1, <1>5
    <3> QED
      BY <3>1, <1>6
  <2>2. CASE X # g.node
    <3>1. Cardinality(X) >= k /\ Cardinality(Y) > Cardinality(X)
      BY <2>2, <1>1, <1>5
    <3>2. Cardinality(X) \in Nat /\ Cardinality(Y) \in Nat
      <4>1. IsFiniteSet(g.node)
        BY DEF Sampled
      <4>2. IsFiniteSet(Y)
        BY <4>1, <1>5, FS_Subset
      <4>3. IsFiniteSet(X)
        <5>1. X \in SUBSET g.node
          BY <1>3
        <5> HIDE DEF X
        <5> QED
          BY <5>1, <4>1, FS_Subset
      <4> QED
        BY <4>2, <4>3, FS_CardinalityType
    <3>3. Cardinality(Y) >= k + 1
      BY ONLY <3>1, <3>2, k \in Nat
    <3> QED
      BY <3>3, <1>6
  <2> QED
    BY <2>1, <2>2
<1> QED
  BY <1>6, <1>7, <1>8, <1>9 DEF Searched

LEMMA SearchBegins ==
  ASSUME NEW g, NEW pivot, pivot \in g.node, NEW b, b = <<{pivot}>>
  PROVE  b \in Searched(g, pivot, 0)
<1> DEFINE x == {pivot}
           V == SUBSET g.node
<1>1. x \in V
  OBVIOUS
<1>2. b = <<x>>
  OBVIOUS
<1>3. Cardinality(x) = 1
  BY FS_Singleton
<1> HIDE DEF V
<1>4. b \in Seq(V) /\ Len(b) = 1 /\ b[1] = x
  BY <1>1, <1>2, Singleton
<1>5. \A i \in 1..(0 + 1) : pivot \in b[i]
  BY <1>4
<1>6. 0 + 1 = 1 /\ 1 >= 0 + 1
  OBVIOUS
<1> QED
  BY <1>3, <1>4, <1>5, <1>6 DEF Searched, V

LEMMA FoundFacts ==
  ASSUME NEW g, Sampled(g), OnePiece(g), NEW pivot, pivot \in g.node, NEW N, N = Cardinality(g.node)
  PROVE  N \in Nat /\ N > 0 /\ Spectral!Found(g, pivot) \in Searched(g, pivot, N - 1)
<1>0. N \in Nat /\ N > 0
  <2>1. IsFiniteSet(g.node) /\ g.node # {}
    BY DEF Sampled
  <2>2. N \in Nat /\ N # 0
    BY <2>1, FS_CardinalityType, FS_EmptySet
  <2> QED
    BY <2>2
<1> DEFINE K == Spectral!Cardinality(g.node) - 1
           list == [d \in 1..K |-> d]
           base == <<{pivot}>>
           next(s) == Append(s, Spectral!Widened(g, Spectral!Last(s)))
           I == [k \in 0..K |-> Searched(g, pivot, k)]
           Q(f) == f = [k \in 0..Len(list) |-> IF k = 0 THEN base ELSE next(f[k - 1])]
           w == CHOOSE f : Q(f)
<1>1. K \in Nat /\ Len(list) = K
  <2>1. K \in Nat
    BY <1>0, SameCardinality
  <2> HIDE DEF K
  <2>2. list \in Seq(Nat) /\ Len(list) = K
    <3>1. list \in [1..K -> Nat]
      OBVIOUS
    <3> QED
      BY <2>1, <3>1, LenProperties, SeqDef
  <2> QED
    BY <2>1, <2>2
<1>2. Spectral!Found(g, pivot) = w[Len(list)]
  BY DEF Spectral!Found, Spectral!InTurn, Spectral!Infinity
<1>3. base \in I[0]
  <2> HIDE DEF base, K
  <2>1. base \in Searched(g, pivot, 0)
    BY SearchBegins DEF base
  <2> QED
    BY <2>1, <1>1
<1> HIDE DEF base, list, K
<1>4. ASSUME NEW k \in 1..K, NEW s \in I[k - 1] PROVE next(s) \in I[k]
  <2>1. k \in 0..K /\ k - 1 \in 0..K /\ k \in Nat /\ k > 0
    BY <1>1
  <2>2. s \in Searched(g, pivot, k - 1)
    BY <2>1
  <2>3. next(s) \in Searched(g, pivot, k)
    BY <2>1, <2>2, SearchStep
  <2> QED
    BY <2>1, <2>3
<1>5. \E f : Q(f)
  <2> DEFINE X == UNION {I[k] : k \in 0..K}
             F == [p \in X \X (1..K) |-> next(p[1])]
  <2>1. \A k \in 1..K : \A a \in I[k - 1] : F[<<a, k>>] = next(a)
    <3> SUFFICES ASSUME NEW k \in 1..K, NEW a \in I[k - 1] PROVE F[<<a, k>>] = next(a)
      OBVIOUS
    <3>1. k - 1 \in 0..K
      BY <1>1
    <3> HIDE DEF I
    <3>2. a \in X
      BY <3>1
    <3> HIDE DEF X, next
    <3> QED
      BY <3>2
  <2> HIDE DEF I, F, next
  <2>2. \A k \in 1..K : \A a \in I[k - 1] : F[<<a, k>>] \in I[k]
    BY <2>1, <1>4
  <2>3. PICK f : IsRun(f, K, base, F, I)
    BY <1>1, <1>3, <2>2, RunExists
  <2>4. /\ f = [k \in 0..K |-> f[k]] /\ f[0] = base
        /\ \A k \in 1..K : f[k] = F[<<f[k - 1], k>>]
        /\ \A k \in 0..K : f[k] \in I[k]
    BY <2>3 DEF IsRun
  <2>5. ASSUME NEW k \in 1..K PROVE f[k] = next(f[k - 1])
    <3>1. k - 1 \in 0..K
      BY <1>1
    <3> QED
      BY <3>1, <2>1, <2>4
  <2>6. ASSUME NEW k \in 0..K PROVE f[k] = IF k = 0 THEN base ELSE next(f[k - 1])
    <3>1. k = 0 \/ k \in 1..K
      BY <1>1
    <3> QED
      BY <2>4, <2>5, <3>1
  <2>7. Q(f)
    BY <1>1, <2>4, <2>6
  <2> QED
    BY <2>7
<1>6. Q(w)
  <2> HIDE DEF Q
  <2> QED
    BY <1>5
<1>7. w[K] \in I[K]
  <2> HIDE DEF w, next
  <2>1. w[0] = base /\ \A k \in 1..K : w[k] = next(w[k - 1])
    BY <1>1, <1>6
  <2> HIDE DEF I, Q
  <2>2. w[0] \in I[0] /\ \A k \in 1..K : w[k - 1] \in I[k - 1] => w[k] \in I[k]
    BY <2>1, <1>3, <1>4
  <2> QED
    BY <2>2, <1>1, Turns
<1> HIDE DEF w
<1>8. w[K] \in Searched(g, pivot, K)
  BY <1>1, <1>7
<1>9. Spectral!Found(g, pivot) = w[K]
  BY <1>1, <1>2
<1> QED
  BY <1>0, <1>8, <1>9, SameCardinality DEF K

LEMMA DistanceFacts ==
  ASSUME NEW g, Sampled(g), OnePiece(g), NEW pivot, pivot \in g.node, NEW dist, dist = Spectral!Distances(g, pivot)
  PROVE  /\ Cardinality(g.node) \in Nat
         /\ dist = [v \in g.node |-> dist[v]]
         /\ \A v \in g.node : /\ dist[v] \in Nat /\ dist[v] < Cardinality(g.node)
                              /\ dist[v] = 0 <=> v = pivot
<1> DEFINE N == Cardinality(g.node)
           F == Spectral!Found(g, pivot)
           M(v) == {i \in DOMAIN F : v \notin F[i]}
           V == SUBSET g.node
<1>1. N \in Nat /\ N > 0 /\ F \in Searched(g, pivot, N - 1)
  BY FoundFacts
<1>2. dist = [v \in g.node |-> Cardinality(M(v))]
  BY SameCardinality DEF Spectral!Distances
<1> HIDE DEF F
<1>3. N - 1 + 1 = N /\ 1 \in 1..N /\ N \in 1..N
  BY <1>1
<1>4. /\ F \in Seq(V) /\ Len(F) = N /\ F[1] = {pivot} /\ \A i \in 1..N : pivot \in F[i]
      /\ F[N] = g.node \/ Cardinality(F[N]) >= N
  <2> HIDE DEF N
  <2> QED
    BY <1>1, <1>3 DEF Searched
<1>5. DOMAIN F = 1..N
  BY <1>4, LenProperties
<1>6. F[N] = g.node
  <2>1. F[N] \in SUBSET g.node /\ IsFiniteSet(g.node)
    <3>1. F[N] \in V
      BY <1>3, <1>4, ElementOfSeq
    <3> QED
      BY <3>1 DEF Sampled
  <2> DEFINE T == F[N]
  <2>2. T \in SUBSET g.node /\ IsFiniteSet(g.node)
    BY <2>1
  <2>3. T = g.node \/ Cardinality(T) >= N
    BY <1>4
  <2> HIDE DEF T
  <2>4. Cardinality(T) <= Cardinality(g.node) /\ (Cardinality(g.node) = Cardinality(T) => g.node = T) /\ IsFiniteSet(T)
    BY <2>2, FS_Subset
  <2>5. Cardinality(T) \in Nat
    BY <2>4, FS_CardinalityType
  <2>6. T = g.node
    BY <1>1, <2>3, <2>4, <2>5
  <2> QED
    BY <2>6 DEF T
<1>7. ASSUME NEW v \in g.node
      PROVE  /\ Cardinality(M(v)) \in Nat /\ Cardinality(M(v)) < N
             /\ Cardinality(M(v)) = 0 <=> v = pivot
  <2> DEFINE R == M(v)
  <2>1. R \in SUBSET (1..(N - 1))
    <3> SUFFICES ASSUME NEW i \in R PROVE i \in 1..(N - 1)
      OBVIOUS
    <3>1. i \in 1..N /\ v \notin F[i]
      BY <1>5
    <3>2. i # N
      BY <3>1, <1>6
    <3> QED
      BY <3>1, <3>2, <1>1
  <2>2. v # pivot => 1 \in R
    BY <1>3, <1>4, <1>5
  <2>3. v = pivot => R = {}
    BY <1>4, <1>5
  <2> HIDE DEF R
  <2>4. IsFiniteSet(1..(N - 1)) /\ Cardinality(1..(N - 1)) = N - 1
    <3>1. 1 \in Int /\ N - 1 \in Int
      BY <1>1
    <3>2. Cardinality(1..(N - 1)) = IF 1 > N - 1 THEN 0 ELSE N - 1 - 1 + 1
      BY <3>1, FS_Interval
    <3> QED
      BY <3>1, <3>2, <1>1, FS_Interval
  <2>5. IsFiniteSet(R) /\ Cardinality(R) <= N - 1
    <3> DEFINE J == 1..(N - 1)
    <3>1. R \in SUBSET J /\ IsFiniteSet(J) /\ Cardinality(J) = N - 1
      BY <2>1, <2>4
    <3> HIDE DEF J
    <3>2. IsFiniteSet(R) /\ Cardinality(R) <= Cardinality(J)
      BY ONLY <3>1, FS_Subset
    <3> QED
      BY <3>1, <3>2
  <2>6. Cardinality(R) \in Nat /\ (Cardinality(R) = 0 <=> R = {})
    BY <2>5, FS_CardinalityType, FS_EmptySet
  <2>7. Cardinality(R) \in Nat /\ Cardinality(R) < N /\ (Cardinality(R) = 0 <=> v = pivot)
    BY <1>1, <2>2, <2>3, <2>5, <2>6
  <2> QED
    BY <2>7 DEF R
<1> QED
  BY <1>1, <1>2, <1>7

\* As long as not all vertices are sampled, the next one is new: it is
\* farther than 0 from every sample.
LEMMA NextIsNew ==
  ASSUME NEW g, Sampled(g), OnePiece(g), NEW s, s \in Seq(g.node), s # <<>>, ToSet(s) # g.node,
         NEW x, x = Spectral!NextSample(g, s)
  PROVE  x \in g.node /\ x \notin ToSet(s)
<1> DEFINE N == Cardinality(g.node)
           T == ToSet(s)
           dist == [p \in T |-> Spectral!Distances(g, p)]
           seen(v) == {dist[p][v] : p \in T}
           gap == [v \in g.node |-> Spectral!Min(seen(v))]
           gaps == {gap[v] : v \in g.node}
           most == Spectral!Max(gaps)
           far == {v \in g.node : gap[v] = most}
<1>1. T \subseteq g.node /\ T # {}
  BY Members
<1>2. x = CHOOSE v \in far : TRUE
  BY DEF Spectral!NextSample, Spectral!Farthest, ToSet, Spectral!ToSet
<1>3. N \in Nat /\ \A p \in T : \A v \in g.node :
         dist[p][v] \in Nat /\ dist[p][v] < N /\ (dist[p][v] = 0 <=> v = p)
  <2>1. PICK p \in T : TRUE
    BY <1>1
  <2>2. N \in Nat
    BY <1>1, <2>1, DistanceFacts
  <2>3. ASSUME NEW q \in T, NEW v \in g.node
        PROVE  dist[q][v] \in Nat /\ dist[q][v] < N /\ (dist[q][v] = 0 <=> v = q)
    <3>1. q \in g.node /\ dist[q] = Spectral!Distances(g, q)
      BY <1>1
    <3> HIDE DEF dist, T
    <3> QED
      BY <3>1, DistanceFacts
  <2> QED
    BY <2>2, <2>3
<1> HIDE DEF dist, T, N
<1>4. ASSUME NEW v \in g.node
      PROVE  /\ gap[v] \in Nat /\ gap[v] < N
             /\ gap[v] = 0 <=> v \in T
  <2> DEFINE S == seen(v)
  <2>1. S \subseteq Nat /\ S # {} /\ \A n \in S : n <= N
    BY <1>1, <1>3
  <2>2. gap[v] = Spectral!Min(S)
    OBVIOUS
  <2>3. \A n \in S : \E p \in T : n = dist[p][v]
    OBVIOUS
  <2>4. v \in T => 0 \in S
    <3> SUFFICES ASSUME v \in T PROVE 0 \in S
      OBVIOUS
    <3>1. dist[v][v] = 0
      BY <1>3
    <3> QED
      BY <3>1
  <2> HIDE DEF S, gap
  <2>5. Spectral!Min(S) \in S /\ \A n \in S : Spectral!Min(S) <= n
    BY <1>3, <2>1, LeastAndGreatest
  <2>6. PICK p \in T : gap[v] = dist[p][v]
    BY <2>2, <2>3, <2>5
  <2>7. gap[v] \in Nat /\ gap[v] < N /\ (gap[v] = 0 => v \in T)
    BY <2>6, <1>3
  <2>8. v \in T => gap[v] = 0
    <3> SUFFICES ASSUME v \in T PROVE gap[v] = 0
      OBVIOUS
    <3>1. gap[v] <= 0
      BY <2>2, <2>4, <2>5
    <3> QED
      BY <3>1, <2>7
  <2> QED
    BY <2>7, <2>8
<1> HIDE DEF gap
<1>5. gaps \subseteq Nat /\ gaps # {} /\ \A n \in gaps : n <= N
  <2>1. \A n \in gaps : n \in Nat /\ n <= N
    BY <1>3, <1>4
  <2> QED
    BY <2>1, <1>1
<1>6. PICK u \in g.node : u \notin T
  BY <1>1 DEF T
<1>7. gap[u] \in gaps
  OBVIOUS
<1>8. \A n \in gaps : \E v \in g.node : n = gap[v]
  OBVIOUS
<1> HIDE DEF gaps
<1>9. most \in gaps /\ \A n \in gaps : n <= most
  BY <1>3, <1>5, LeastAndGreatest
<1>10. most # 0
  <2>1. gap[u] <= most /\ gap[u] # 0 /\ gap[u] \in Nat
    BY <1>4, <1>6, <1>7, <1>9
  <2> QED
    BY <2>1
<1> HIDE DEF most
<1>11. x \in far
  <2>1. \E v : v \in far
    BY <1>8, <1>9
  <2> HIDE DEF far
  <2> QED
    BY <1>2, <2>1
<1>12. x \in g.node /\ gap[x] # 0
  BY <1>10, <1>11
<1> QED
  BY <1>4, <1>12 DEF T

(***************************************************************************)
(* The samples.                                                            *)
(***************************************************************************)
Distinct(g, k) == {s \in Seq(g.node) : Len(s) = k + 1 /\ IsInjective(s)}

LEMMA SampleStep ==
  ASSUME NEW g, Sampled(g), OnePiece(g), NEW k, k \in Nat, k > 0, k < Cardinality(g.node),
         NEW s, s \in Distinct(g, k - 1), NEW t, t = Append(s, Spectral!NextSample(g, s))
  PROVE  t \in Distinct(g, k)
<1> DEFINE x == Spectral!NextSample(g, s)
<1>0. k - 1 + 1 = k /\ k # 0
  OBVIOUS
<1>1. s \in Seq(g.node) /\ Len(s) = k /\ IsInjective(s)
  BY <1>0 DEF Distinct
<1>2. s # <<>>
  BY <1>0, <1>1, Members
<1>3. ToSet(s) # g.node
  <2>1. Cardinality(ToSet(s)) \in Nat /\ Cardinality(ToSet(s)) <= k
    BY <1>1, ListIsFinite
  <2>2. Cardinality(g.node) \in Nat
    BY FS_CardinalityType DEF Sampled
  <2> QED
    BY <2>1, <2>2
<1>4. x \in g.node /\ x \notin ToSet(s)
  BY <1>1, <1>2, <1>3, NextIsNew
<1> HIDE DEF x
<1>5. Append(s, x) \in Seq(g.node) /\ Len(Append(s, x)) = k + 1 /\ IsInjective(Append(s, x))
  BY <1>1, <1>4, AppendMembers
<1> QED
  BY <1>5 DEF Distinct, x

\* Greedy sampling never takes a vertex twice.
LEMMA SamplesDiffer ==
  ASSUME NEW g, Sampled(g), OnePiece(g), NEW first, first \in g.node
  PROVE  Spectral!GreedySamples(g, first) \in Seq(g.node) /\ IsInjective(Spectral!GreedySamples(g, first))
<1> DEFINE pair == {Spectral!Cardinality(g.node), SampleSize}
           size == Spectral!Min(pair)
           K == size - 1
           list == [k \in 1..K |-> k]
           base == <<first>>
           next(s) == Append(s, Spectral!NextSample(g, s))
           I == [k \in 0..K |-> Distinct(g, k)]
           Q(f) == f = [k \in 0..Len(list) |-> IF k = 0 THEN base ELSE next(f[k - 1])]
           w == CHOOSE f : Q(f)
<1>2. Spectral!GreedySamples(g, first) = w[Len(list)]
  BY DEF Spectral!GreedySamples, Spectral!InTurn
<1>0. K \in Nat /\ K < Cardinality(g.node)
  <2> DEFINE N == Cardinality(g.node)
  <2>1. N \in Nat /\ N # 0
    <3>1. IsFiniteSet(g.node) /\ g.node # {}
      BY DEF Sampled
    <3> QED
      BY <3>1, FS_CardinalityType, FS_EmptySet
  <2>2. pair = {N, SampleSize} /\ SampleSize \in Nat /\ SampleSize # 0
    BY SameCardinality, PeriodAssumption
  <2> HIDE DEF N, pair
  <2>3. pair \subseteq Nat /\ pair # {} /\ N + SampleSize \in Nat /\ \A n \in pair : n <= N + SampleSize
    BY <2>1, <2>2
  <2>4. size \in pair /\ \A n \in pair : size <= n
    BY <2>3, LeastAndGreatest
  <2> HIDE DEF size
  <2>5. size \in Nat /\ size # 0 /\ size <= N
    BY <2>1, <2>2, <2>4
  <2>6. K \in Nat /\ K < N
    BY <2>1, <2>5
  <2> QED
    BY <2>6 DEF N
<1> HIDE DEF K, pair, size
<1>1. Len(list) = K
  <2>1. list \in [1..K -> Nat]
    OBVIOUS
  <2> QED
    BY <1>0, <2>1, LenProperties, SeqDef
<1>3. base \in I[0]
  <2> HIDE DEF base
  <2> DEFINE V == g.node
  <2>0. first \in V
    OBVIOUS
  <2> HIDE DEF V
  <2>1. base \in Seq(V) /\ IsInjective(base) /\ Len(base) = 1
    BY <2>0, Singleton DEF base
  <2>2. base \in Distinct(g, 0)
    BY <2>1 DEF Distinct, V
  <2>3. 0 \in 0..K
    BY <1>0
  <2> QED
    BY <2>2, <2>3
<1> HIDE DEF base, list
<1>4. ASSUME NEW k \in 1..K, NEW s \in I[k - 1] PROVE next(s) \in I[k]
  <2>1. k \in 0..K /\ k - 1 \in 0..K /\ k \in Nat /\ k > 0 /\ k < Cardinality(g.node)
    <3>1. Cardinality(g.node) \in Nat
      BY FS_CardinalityType DEF Sampled
    <3> QED
      BY <3>1, <1>0
  <2>2. s \in Distinct(g, k - 1)
    BY <2>1
  <2>3. next(s) \in Distinct(g, k)
    BY <2>1, <2>2, SampleStep
  <2> QED
    BY <2>1, <2>3
<1>5. \E f : Q(f)
  <2> DEFINE X == UNION {I[k] : k \in 0..K}
             F == [p \in X \X (1..K) |-> next(p[1])]
  <2>1. \A k \in 1..K : \A a \in I[k - 1] : F[<<a, k>>] = next(a)
    <3> SUFFICES ASSUME NEW k \in 1..K, NEW a \in I[k - 1] PROVE F[<<a, k>>] = next(a)
      OBVIOUS
    <3>1. k - 1 \in 0..K
      BY <1>0
    <3> HIDE DEF I
    <3>2. a \in X
      BY <3>1
    <3> HIDE DEF X, next
    <3> QED
      BY <3>2
  <2> HIDE DEF I, F, next
  <2>2. \A k \in 1..K : \A a \in I[k - 1] : F[<<a, k>>] \in I[k]
    BY <2>1, <1>4
  <2>3. PICK f : IsRun(f, K, base, F, I)
    BY <1>0, <1>3, <2>2, RunExists
  <2>4. /\ f = [k \in 0..K |-> f[k]] /\ f[0] = base
        /\ \A k \in 1..K : f[k] = F[<<f[k - 1], k>>]
        /\ \A k \in 0..K : f[k] \in I[k]
    BY <2>3 DEF IsRun
  <2>5. ASSUME NEW k \in 1..K PROVE f[k] = next(f[k - 1])
    <3>1. k - 1 \in 0..K
      BY <1>0
    <3> QED
      BY <3>1, <2>1, <2>4
  <2>6. ASSUME NEW k \in 0..K PROVE f[k] = IF k = 0 THEN base ELSE next(f[k - 1])
    <3>1. k = 0 \/ k \in 1..K
      BY <1>0
    <3> QED
      BY <2>4, <2>5, <3>1
  <2>7. Q(f)
    BY <1>1, <2>4, <2>6
  <2> QED
    BY <2>7
<1>6. Q(w)
  <2> HIDE DEF Q
  <2> QED
    BY <1>5
<1>7. w[K] \in I[K]
  <2> HIDE DEF w, next
  <2>1. w[0] = base /\ \A k \in 1..K : w[k] = next(w[k - 1])
    BY <1>0, <1>1, <1>6
  <2> HIDE DEF I, Q
  <2>2. w[0] \in I[0] /\ \A k \in 1..K : w[k - 1] \in I[k - 1] => w[k] \in I[k]
    BY <2>1, <1>3, <1>4
  <2> QED
    BY <2>2, <1>0, Turns
<1> HIDE DEF w
<1>8. w[K] \in Distinct(g, K)
  BY <1>0, <1>7
<1>9. Spectral!GreedySamples(g, first) = w[K]
  BY <1>1, <1>2
<1> QED
  BY <1>8, <1>9 DEF Distinct

(***************************************************************************)
(* The graph the spectral layout samples is in one piece.                  *)
(***************************************************************************)
\* b[n]: the node and all that is in it, with heights.
Nested(c, h, b) == /\ Forest(Elements(c), Kids(c), c.parent, h) /\ IsBelow(b, Elements(c), Kids(c))
                   /\ \A k \in Elements(c) : c.parent[k] \in Elements(c) => k \in ToSet(Kids(c)[c.parent[k]])

LEMMA NestedExists ==
  ASSUME NEW c, MapOK(c)
  PROVE  \E h, b : Nested(c, h, b)
<1>1. PICK h : Forest(Elements(c), Kids(c), c.parent, h)
  BY MapForest
<1>2. PICK b : IsBelow(b, Elements(c), Kids(c))
  BY <1>1, BelowExists
<1>3. \A k \in Elements(c) : c.parent[k] \in Elements(c) => k \in ToSet(Kids(c)[c.parent[k]])
  BY MapForest
<1> QED
  BY <1>1, <1>2, <1>3 DEF Nested

LEMMA NestedFacts ==
  ASSUME NEW c, MapOK(c), NEW h, NEW b, Nested(c, h, b)
  PROVE  /\ h \in [Elements(c) -> Nat]
         /\ \A n \in Elements(c) :
              /\ b[n] \subseteq Elements(c) /\ n \in b[n]
              /\ \A x \in b[n] : h[x] <= h[n] /\ (x = n \/ c.parent[x] \in b[n])
              /\ \A x \in Elements(c) : c.parent[x] \in b[n] => x \in b[n]
              /\ \A k \in Elements(c) : c.parent[k] = n => h[k] < h[n]
              /\ b[n] = {n} \cup UNION {b[k] : k \in {j \in Elements(c) : c.parent[j] = n}}
<1> DEFINE D == Elements(c)
           K == Kids(c)
           up == c.parent
<1>1. Forest(D, K, up, h) /\ IsBelow(b, D, K) /\ \A k \in D : up[k] \in D => k \in ToSet(K[up[k]])
  BY DEF Nested
<1> HIDE DEF D, K, up
<1>2. h \in [D -> Nat] /\ \A n \in D : \A k \in ToSet(K[n]) : up[k] = n /\ h[k] < h[n]
  BY <1>1 DEF Forest
<1>3. \A n \in D : ToSet(K[n]) \subseteq D
  BY <1>1, KidsAreNodes
<1>4. ASSUME NEW n \in D
      PROVE  /\ b[n] = {n} \cup UNION {b[k] : k \in ToSet(K[n])}
             /\ b[n] \subseteq D /\ n \in b[n]
             /\ \A x \in b[n] : (x = n \/ up[x] \in b[n]) /\ h[x] <= h[n] /\ ToSet(K[x]) \subseteq b[n]
  BY <1>1, BelowFacts
<1>5. \A n \in D : ToSet(K[n]) = {j \in D : up[j] = n}
  BY <1>1, <1>2, <1>3
<1>6. ASSUME NEW n \in D, NEW x \in D, up[x] \in b[n] PROVE x \in b[n]
  <2>1. up[x] \in D
    BY <1>4, <1>6
  <2>2. x \in ToSet(K[up[x]])
    BY <2>1, <1>1
  <2> QED
    BY <2>2, <1>4, <1>6
<1>7. \A n \in D : \A k \in D : up[k] = n => h[k] < h[n]
  BY <1>2, <1>5
<1>8. \A n \in D : b[n] = {n} \cup UNION {b[k] : k \in {j \in D : up[j] = n}}
  BY <1>4, <1>5
<1>9. \A n \in D : /\ b[n] \subseteq D /\ n \in b[n]
                   /\ \A x \in b[n] : h[x] <= h[n] /\ (x = n \/ up[x] \in b[n])
                   /\ \A x \in D : up[x] \in b[n] => x \in b[n]
                   /\ \A k \in D : up[k] = n => h[k] < h[n]
                   /\ b[n] = {n} \cup UNION {b[k] : k \in {j \in D : up[j] = n}}
  BY <1>4, <1>6, <1>7, <1>8
<1> QED
  BY <1>2, <1>9 DEF D, K, up

LEMMA AncestorsBelow ==
  ASSUME NEW c, MapOK(c), NEW h, NEW b, Nested(c, h, b)
  PROVE  \A n, k \in Elements(c) : n \in Spectral!Ancestors(c, k) <=> k \in b[n] /\ k # n
<1> DEFINE D == Elements(c)
           up == c.parent
           anc == [k \in D |-> Spectral!Ancestors(c, k)]
           P == {k \in D : \A n \in D : n \in anc[k] <=> k \in b[n] /\ k # n}
<1>1. Null \notin D /\ \A k \in D : up[k] \in D \cup {Null}
  BY DEF MapOK
<1>2. \A k \in D : anc[k] = IF up[k] = Null THEN {} ELSE {up[k]} \cup anc[up[k]]
  BY <1>1, AncestorsRule
<1>3. /\ h \in [D -> Nat]
      /\ \A n \in D : /\ b[n] \subseteq D /\ n \in b[n]
                      /\ \A x \in b[n] : h[x] <= h[n] /\ (x = n \/ up[x] \in b[n])
                      /\ \A x \in D : up[x] \in b[n] => x \in b[n]
                      /\ \A k \in D : up[k] = n => h[k] < h[n]
  BY NestedFacts
<1>4. PICK d : IsDepth(d, D, up)
  BY DepthExists DEF MapOK
<1> HIDE DEF D, up, anc
<1>5. d \in [D -> Nat] /\ \A k \in D : up[k] \in D => d[up[k]] < d[k]
  BY <1>4 DEF IsDepth
<1>6. ASSUME NEW k \in D, \A j \in D : d[j] < d[k] => j \in P PROVE k \in P
  <2> SUFFICES ASSUME NEW n \in D PROVE n \in anc[k] <=> k \in b[n] /\ k # n
    OBVIOUS
  <2>1. CASE up[k] = Null
    <3>1. anc[k] = {}
      BY <2>1, <1>2
    <3>2. k \in b[n] => k = n
      BY <2>1, <1>1, <1>3
    <3> QED
      BY <3>1, <3>2
  <2>2. CASE up[k] # Null
    <3>1. up[k] \in D /\ d[up[k]] < d[k]
      BY <2>2, <1>1, <1>5
    <3>2. n \in anc[up[k]] <=> up[k] \in b[n] /\ up[k] # n
      BY <3>1, <1>6
    <3>3. anc[k] = {up[k]} \cup anc[up[k]]
      BY <2>2, <1>2
    <3>4. ASSUME n \in anc[k] PROVE k \in b[n] /\ k # n
      <4>1. up[k] \in b[n]
        BY <3>2, <3>3, <3>4, <1>3
      <4>2. h[up[k]] <= h[n] /\ h[k] < h[up[k]]
        BY <4>1, <3>1, <1>3
      <4>3. h[k] \in Nat /\ h[n] \in Nat /\ h[up[k]] \in Nat
        BY <3>1, <1>3
      <4>4. h[k] # h[n]
        BY ONLY <4>2, <4>3
      <4> QED
        BY <4>1, <4>4, <1>3
    <3>5. ASSUME k \in b[n], k # n PROVE n \in anc[k]
      <4>1. up[k] \in b[n]
        BY <3>5, <1>3
      <4> QED
        BY <4>1, <3>2, <3>3
    <3> QED
      BY <3>4, <3>5
  <2> QED
    BY <2>1, <2>2
<1>7. D \subseteq P
  <2> HIDE DEF P
  <2> QED
    BY <1>5, <1>6, FromBelow
<1> QED
  BY <1>7 DEF D, anc

\* The nodes directly inside a level.
InLevel(c, l) == {k \in Elements(c) : c.parent[k] = l}

LEMMA DescendantsBelow ==
  ASSUME NEW c, MapOK(c), NEW h, NEW b, Nested(c, h, b), NEW n, n \in Elements(c)
  PROVE  Spectral!Descendants(c, n) = b[n] \ {n}
<1>1. \A k \in Elements(c) : n \in Spectral!Ancestors(c, k) <=> k \in b[n] /\ k # n
  BY AncestorsBelow
<1>2. b[n] \subseteq Elements(c)
  BY NestedFacts
<1>3. Spectral!Descendants(c, n) = {k \in Elements(c) : n \in Spectral!Ancestors(c, k)}
  BY DEF Spectral!Descendants, Elements
<1> QED
  BY <1>1, <1>2, <1>3

\* getTopMostNodes of what is inside a compound: its children.
LEMMA TopMostOfLevel ==
  ASSUME NEW c, MapOK(c), NEW l, l \in Spectral!Levels(c)
  PROVE  /\ Spectral!TopMost(c, Spectral!LevelNodes(c, l)) = InLevel(c, l)
         /\ l = Null \/ l \in Elements(c)
<1> DEFINE D == Elements(c)
<1>1. PICK h, b : Nested(c, h, b)
  BY NestedExists
<1>2. Null \notin D /\ \A k \in D : c.parent[k] \in D \cup {Null}
  BY DEF MapOK
<1>3. l = Null \/ l \in D
  BY DEF Spectral!Levels, Elements
<1>4. CASE l = Null
  <2>1. Spectral!LevelNodes(c, l) = D
    BY <1>4 DEF Spectral!LevelNodes, Elements
  <2>2. Spectral!TopMost(c, D) = {n \in D : c.parent[n] \notin D}
    BY TopMostNodes
  <2>3. \A n \in D : c.parent[n] \notin D <=> c.parent[n] = Null
    BY <1>2
  <2> QED
    BY <2>1, <2>2, <2>3, <1>4 DEF InLevel
<1>5. CASE l # Null
  <2> DEFINE U == b[l] \ {l}
  <2>1. l \in D
    BY <1>3, <1>5
  <2>2. Spectral!LevelNodes(c, l) = U
    BY <2>1, <1>1, <1>5, DescendantsBelow DEF Spectral!LevelNodes
  <2>3. /\ h \in [D -> Nat]
        /\ \A n \in D : /\ b[n] \subseteq D /\ n \in b[n]
                        /\ \A x \in b[n] : h[x] <= h[n] /\ (x = n \/ c.parent[x] \in b[n])
                        /\ \A x \in D : c.parent[x] \in b[n] => x \in b[n]
                        /\ \A k \in D : c.parent[k] = n => h[k] < h[n]
    BY <1>1, NestedFacts
  <2>4. \A n, k \in D : n \in Spectral!Ancestors(c, k) <=> k \in b[n] /\ k # n
    BY <1>1, AncestorsBelow
  <2>5. ASSUME NEW k \in D, c.parent[k] = l
        PROVE  k \in U /\ Spectral!Ancestors(c, k) \cap U = {}
    <3>1. h[k] < h[l] /\ h[k] \in Nat /\ h[l] \in Nat
      BY <2>1, <2>3, <2>5
    <3>2. k \in U
      <4>1. k # l
        BY ONLY <3>1
      <4> QED
        BY <4>1, <2>1, <2>3, <2>5
    <3>3. ASSUME NEW x \in U, x \in Spectral!Ancestors(c, k) PROVE FALSE
      <4>1. x \in D /\ x # l /\ h[x] <= h[l] /\ h[x] \in Nat
        BY <2>1, <2>3
      <4>2. k \in b[x] /\ k # x
        BY <4>1, <3>3, <2>4
      <4>3. l \in b[x]
        BY <4>1, <4>2, <2>3, <2>5
      <4>4. h[l] <= h[x] /\ c.parent[l] \in b[x]
        BY <4>1, <4>3, <2>3
      <4>5. c.parent[l] \in D /\ h[l] < h[c.parent[l]] /\ h[c.parent[l]] <= h[x] /\ h[c.parent[l]] \in Nat
        BY <4>1, <4>4, <2>1, <2>3
      <4> QED
        BY ONLY <4>1, <4>5, <3>1
    <3> QED
      BY <3>2, <3>3
  <2>6. ASSUME NEW k \in U, Spectral!Ancestors(c, k) \cap U = {}
        PROVE  k \in D /\ c.parent[k] = l
    <3>1. k \in D /\ k # l /\ c.parent[k] \in b[l]
      BY <2>1, <2>3
    <3>2. c.parent[k] \in D
      BY <3>1, <2>1, <2>3
    <3>3. c.parent[k] \in Spectral!Ancestors(c, k)
      <4>1. c.parent[k] # Null
        BY <3>2, <1>2
      <4> QED
        BY <4>1, <3>1, AncestorsRule
    <3> QED
      BY <2>6, <3>1, <3>3
  <2> HIDE DEF U
  <2>7. Spectral!TopMost(c, U) = {n \in U : Spectral!Ancestors(c, n) \cap U = {}}
    BY DEF Spectral!TopMost
  <2>8. \A k : k \in Spectral!TopMost(c, U) <=> k \in InLevel(c, l)
    BY <2>5, <2>6, <2>7 DEF InLevel
  <2>9. Spectral!TopMost(c, U) = InLevel(c, l)
    <3>1. \A x \in Spectral!TopMost(c, U) : x \in InLevel(c, l)
      BY <2>8
    <3>2. \A x \in InLevel(c, l) : x \in Spectral!TopMost(c, U)
      BY <2>8
    <3> QED
      BY ONLY <3>1, <3>2, <2>7 DEF InLevel
  <2> QED
    BY <2>2, <2>9, <1>3
<1> QED
  BY <1>4, <1>5

LEMMA MinDegreeIn ==
  ASSUME NEW c, MapOK(c), NEW S, S # {}
  PROVE  Spectral!MinDegree(c, S) \in S
<1> DEFINE deg(n) == Spectral!Cardinality(Spectral!ConnectedEdges(c, n))
           degs == {deg(n) : n \in S}
<1>1. ASSUME NEW n PROVE deg(n) \in Nat
  <2> DEFINE E == Spectral!ConnectedEdges(c, n)
             W == ToSet(c.edges)
  <2>1. E \in SUBSET W
    BY DEF Spectral!ConnectedEdges, Spectral!EdgeIds, ToSet, Spectral!ToSet
  <2>2. IsFiniteSet(W)
    BY ListIsFinite DEF MapOK
  <2> HIDE DEF E, W
  <2>3. IsFiniteSet(E)
    BY <2>1, <2>2, FS_Subset
  <2>4. Cardinality(E) \in Nat
    BY <2>3, FS_CardinalityType
  <2> QED
    BY <2>4, SameCardinality DEF E
<1>2. degs \subseteq Nat /\ degs # {}
  <2> HIDE DEF deg
  <2> QED
    BY <1>1
<1>3. PICK least \in degs : \A d \in degs : least <= d
  <2> HIDE DEF degs
  <2> QED
    BY <1>2, LeastNatural
<1>4. \E n \in S : \A k \in S : deg(n) <= deg(k)
  <2> HIDE DEF deg
  <2> QED
    BY <1>3
<1> QED
  BY <1>4 DEF Spectral!MinDegree

LEMMA ParentHasKids ==
  ASSUME NEW c, MapOK(c), NEW k, k \in Elements(c)
  PROVE  /\ Spectral!IsParent(c, k) <=> InLevel(c, k) # {}
         /\ Spectral!ToSet(Spectral!ChildList(c, k)) = InLevel(c, k)
         /\ Spectral!IsParent(c, k) => Spectral!ChildList(c, k)[1] \in InLevel(c, k)
<1> DEFINE kids == Spectral!ChildList(c, k)
           T == InLevel(c, k)
<1>1. Sublist(kids, c.nodes, {n \in Elements(c) : c.parent[n] = k})
  BY ChildListIsSublist
<1>2. Spectral!IsParent(c, k) <=> T # {}
  BY DEF Spectral!IsParent, InLevel, Elements
<1>3. kids \in Seq(T) /\ ToSet(kids) = T
  BY <1>1 DEF Sublist, InLevel
<1>4. Spectral!ToSet(kids) = ToSet(kids)
  BY DEF ToSet, Spectral!ToSet
<1> HIDE DEF kids, T
<1>5. ASSUME T # {} PROVE kids[1] \in T
  <2>1. kids # <<>> /\ Len(kids) \in Nat /\ Len(kids) # 0
    BY <1>3, <1>5, Members
  <2>2. 1 \in 1..Len(kids)
    BY <2>1
  <2> QED
    BY <2>2, <1>3, ElementOfSeq
<1> QED
  BY <1>2, <1>3, <1>4, <1>5 DEF kids, T

\* A compound is represented by a childless node inside it.
RepOK(c, b, rep) ==
  /\ rep \in [Elements(c) -> Elements(c)]
  /\ \A n \in Elements(c) : /\ rep[n] \in b[n] /\ InLevel(c, rep[n]) = {}
                            /\ InLevel(c, n) = {} => rep[n] = n

LEMMA RepresentativeFacts ==
  ASSUME NEW c, MapOK(c), NEW h, NEW b, Nested(c, h, b)
  PROVE  RepOK(c, b, Spectral!Representative(c))
<1> DEFINE D == Elements(c)
           simple(k) == {x \in Spectral!ToSet(Spectral!ChildList(c, k)) : ~Spectral!IsParent(c, x)}
           eldest(k) == Spectral!ChildList(c, k)[1]
           step(f, k) == IF ~Spectral!IsParent(c, k) THEN k
                         ELSE IF simple(k) # {} THEN Spectral!MinDegree(c, simple(k)) ELSE f[eldest(k)]
           Q(f) == f = [k \in Spectral!NodesOf(c) |-> step(f, k)]
           w == CHOOSE f : Q(f)
           V == D \cup {Null}
           F == [f \in [D -> V] |-> [k \in D |-> step(f, k)]]
<1>1. Spectral!Representative(c) = w
  BY DEF Spectral!Representative
<1>2. Spectral!NodesOf(c) = D
  BY DEF Elements
<1>3. /\ h \in [D -> Nat]
      /\ \A n \in D : /\ b[n] \subseteq D /\ n \in b[n]
                      /\ \A x \in b[n] : h[x] <= h[n] /\ (x = n \/ c.parent[x] \in b[n])
                      /\ \A x \in D : c.parent[x] \in b[n] => x \in b[n]
                      /\ \A k \in D : c.parent[k] = n => h[k] < h[n]
                      /\ b[n] = {n} \cup UNION {b[k] : k \in {j \in D : c.parent[j] = n}}
  BY NestedFacts
<1>4. ASSUME NEW k \in D
      PROVE  /\ Spectral!IsParent(c, k) <=> InLevel(c, k) # {}
             /\ simple(k) = {x \in InLevel(c, k) : InLevel(c, x) = {}}
             /\ simple(k) # {} => Spectral!MinDegree(c, simple(k)) \in simple(k)
             /\ Spectral!IsParent(c, k) => eldest(k) \in InLevel(c, k)
  <2>1. \A x \in D : /\ Spectral!IsParent(c, x) <=> InLevel(c, x) # {}
                     /\ Spectral!ToSet(Spectral!ChildList(c, x)) = InLevel(c, x)
                     /\ Spectral!IsParent(c, x) => Spectral!ChildList(c, x)[1] \in InLevel(c, x)
    BY ParentHasKids
  <2>2. InLevel(c, k) \subseteq D
    BY DEF InLevel
  <2>3. simple(k) # {} => Spectral!MinDegree(c, simple(k)) \in simple(k)
    <3> HIDE DEF simple
    <3> QED
      BY MinDegreeIn
  <2>4. simple(k) = {x \in InLevel(c, k) : InLevel(c, x) = {}}
    BY <2>1, <2>2
  <2> HIDE DEF simple
  <2> QED
    BY <2>1, <2>3, <2>4
<1> HIDE DEF simple, eldest
<1>5. \A k \in D : InLevel(c, k) = {j \in D : c.parent[j] = k}
  BY DEF InLevel
<1> HIDE DEF D
<1>6. OnLower(F, D, V, h)
  <2>1. ASSUME NEW f \in [D -> V], NEW k \in D PROVE step(f, k) \in V
    <3>1. simple(k) # {} => Spectral!MinDegree(c, simple(k)) \in D
      BY <1>4, <1>5
    <3>2. Spectral!IsParent(c, k) => eldest(k) \in D
      BY <1>4, <1>5
    <3> QED
      BY <3>1, <3>2
  <2>2. F \in [[D -> V] -> [D -> V]]
    <3> HIDE DEF step
    <3> QED
      BY <2>1
  <2>3. ASSUME NEW f \in [D -> V], NEW g \in [D -> V], NEW n \in D,
               \A k \in D : h[k] < h[n] => f[k] = g[k]
        PROVE  F[f][n] = F[g][n]
    <3>1. Spectral!IsParent(c, n) => f[eldest(n)] = g[eldest(n)]
      <4> SUFFICES ASSUME Spectral!IsParent(c, n) PROVE f[eldest(n)] = g[eldest(n)]
        OBVIOUS
      <4>1. eldest(n) \in D /\ h[eldest(n)] < h[n]
        BY <1>3, <1>4, <1>5
      <4> QED
        BY <4>1, <2>3
    <3>2. step(f, n) = step(g, n)
      BY <3>1
    <3> HIDE DEF step
    <3> QED
      BY <3>2
  <2>4. V # {} /\ h \in [D -> Nat]
    BY <1>3
  <2> HIDE DEF F, V
  <2> QED
    BY <2>2, <2>3, <2>4 DEF OnLower
<1> HIDE DEF step
<1>7. Q(w)
  <2>1. PICK f : f \in [D -> V] /\ f = F[f]
    <3> HIDE DEF F, V
    <3> QED
      BY <1>6, TreeRecursion
  <2>2. F[f] = [k \in D |-> step(f, k)]
    BY <2>1
  <2>3. Q(f)
    BY <2>1, <2>2, <1>2
  <2> HIDE DEF Q
  <2> QED
    BY <2>3
<1> HIDE DEF w
<1>8. \A k \in D : w[k] = step(w, k)
  BY <1>7, <1>2
<1> DEFINE P == {n \in D : w[n] \in b[n] /\ InLevel(c, w[n]) = {} /\ (InLevel(c, n) = {} => w[n] = n)}
<1>9. ASSUME NEW n \in D, \A k \in D : h[k] < h[n] => k \in P PROVE n \in P
  <2>0. n \in b[n] /\ \A x \in D : c.parent[x] = n => x \in b[n]
    BY <1>3
  <2>1. CASE ~Spectral!IsParent(c, n)
    <3>1. w[n] = n /\ InLevel(c, n) = {}
      BY <2>1, <1>4, <1>8 DEF step
    <3> QED
      BY <3>1, <2>0
  <2>2. CASE Spectral!IsParent(c, n) /\ simple(n) # {}
    <3>1. w[n] \in simple(n) /\ InLevel(c, n) # {}
      BY <2>2, <1>4, <1>8 DEF step
    <3>2. w[n] \in InLevel(c, n) /\ InLevel(c, w[n]) = {}
      BY <3>1, <1>4
    <3>3. w[n] \in b[n]
      BY <3>2, <2>0, <1>5
    <3> QED
      BY <3>1, <3>2, <3>3
  <2>3. CASE Spectral!IsParent(c, n) /\ simple(n) = {}
    <3> DEFINE k == eldest(n)
    <3>1. w[n] = w[k] /\ InLevel(c, n) # {} /\ k \in InLevel(c, n)
      BY <2>3, <1>4, <1>8 DEF step
    <3> HIDE DEF k
    <3>2. k \in D /\ c.parent[k] = n
      BY <3>1, <1>5
    <3>3. h[k] < h[n] /\ b[k] \subseteq b[n]
      BY <3>2, <1>3
    <3>4. w[k] \in b[k] /\ InLevel(c, w[k]) = {}
      BY <3>2, <3>3, <1>9
    <3> QED
      BY <3>1, <3>3, <3>4
  <2> QED
    BY <2>1, <2>2, <2>3
<1>10. D \subseteq P
  <2>1. h \in [D -> Nat]
    BY <1>3
  <2> HIDE DEF P
  <2> QED
    BY <2>1, <1>9, FromBelow
<1>11. w \in [D -> D]
  <2>1. \A n \in D : w[n] \in D
    BY <1>3, <1>10
  <2>2. w = [n \in D |-> w[n]]
    BY <1>7, <1>2
  <2> QED
    BY <2>1, <2>2
<1> QED
  BY <1>1, <1>10, <1>11 DEF RepOK, D

(***************************************************************************)
(* The parts of a level.                                                   *)
(***************************************************************************)
\* An edge leads from something in n to something in k.
Touch(c, b, n, k) == \E i \in b[n], j \in b[k] : j \in Spectral!Neighborhood(c, i)

\* No edge leads from a node of X to another topmost node.
Unparted(c, b, tops, X) == \A n \in X : \A k \in tops : Touch(c, b, n, k) => k \in X

LEMMA ComponentFacts ==
  ASSUME NEW c, MapOK(c), NEW h, NEW b, Nested(c, h, b),
         NEW tops, tops \subseteq Elements(c), NEW t, t \in tops
  PROVE  /\ t \in Spectral!Component(c, tops, t) /\ Spectral!Component(c, tops, t) \subseteq tops
         /\ \A X \in SUBSET tops : t \in X /\ Unparted(c, b, tops, X) => Spectral!Component(c, tops, t) \subseteq X
<1> DEFINE in(n) == {n} \cup Spectral!Descendants(c, n)
           near(n) == UNION {Spectral!Neighborhood(c, k) : k \in in(n)}
           step(C) == C \cup {k \in tops : \E n \in C : in(k) \cap near(n) # {}}
           s == [C \in SUBSET tops |-> step(C)]
           Q(r) == r = [C \in SUBSET tops |-> LET D == step(C) IN IF D = C THEN C ELSE r[D]]
           w == CHOOSE r : Q(r)
           V == {t}
<1>1. Spectral!Component(c, tops, t) = w[V]
  BY DEF Spectral!Component
<1>2. \A n \in tops : in(n) = b[n]
  <2> SUFFICES ASSUME NEW n \in tops PROVE in(n) = b[n]
    OBVIOUS
  <2>1. n \in Elements(c) /\ n \in b[n]
    BY NestedFacts
  <2>2. Spectral!Descendants(c, n) = b[n] \ {n}
    BY <2>1, DescendantsBelow
  <2> QED
    BY <2>1, <2>2
<1> HIDE DEF in
<1>3. \A n, k \in tops : in(k) \cap near(n) # {} <=> Touch(c, b, n, k)
  BY <1>2 DEF Touch
<1> HIDE DEF near
<1>4. \A C \in SUBSET tops : step(C) = C \cup {k \in tops : \E n \in C : Touch(c, b, n, k)}
  BY <1>3
<1> HIDE DEF step
<1>5. Widening(s, tops)
  BY <1>4 DEF Widening
<1>6. IsFiniteSet(tops)
  BY FS_Subset DEF MapOK
<1>7. \A r : Q(r) <=> IsReach(r, tops, s)
  BY DEF IsReach
<1>8. \E r : Q(r)
  <2> HIDE DEF Q, s
  <2>1. \E r : IsReach(r, tops, s)
    BY <1>5, <1>6, ReachExists
  <2> QED
    BY <2>1, <1>7
<1>9. Q(w)
  <2> HIDE DEF Q
  <2> QED
    BY <1>8
<1> HIDE DEF w, Q
<1>10. IsReach(w, tops, s)
  BY <1>9, <1>7
<1>11. V \in SUBSET tops /\ \A C \in SUBSET tops : s[C] = C \cup {k \in tops : \E n \in C : Touch(c, b, n, k)}
  BY <1>4
<1> HIDE DEF s
<1>12. /\ w[V] \in SUBSET tops /\ V \subseteq w[V]
       /\ \A X \in SUBSET tops : Closed(X, V, s) => w[V] \subseteq X
  <2> HIDE DEF V
  <2> QED
    BY <1>5, <1>6, <1>10, <1>11, ReachFacts
<1>13. ASSUME NEW X \in SUBSET tops, t \in X, Unparted(c, b, tops, X) PROVE Closed(X, V, s)
  <2>1. \A U \in SUBSET X : s[U] \subseteq X
    <3> SUFFICES ASSUME NEW U \in SUBSET X PROVE s[U] \subseteq X
      OBVIOUS
    <3>1. s[U] = U \cup {k \in tops : \E n \in U : Touch(c, b, n, k)}
      BY <1>11
    <3> QED
      BY <3>1, <1>13 DEF Unparted
  <2> QED
    BY <2>1, <1>13 DEF Closed
<1> QED
  BY <1>1, <1>12, <1>13

\* The node of each part of a level that its dummy vertex is joined to.
Links(c, l) == Spectral!DummyLinks(c)[l]

LEMMA LevelParts ==
  ASSUME NEW c, MapOK(c), NEW h, NEW b, Nested(c, h, b), NEW l, l \in Spectral!Levels(c)
  PROVE  /\ Links(c, l) \subseteq InLevel(c, l)
         /\ \A P \in SUBSET InLevel(c, l) :
              Unparted(c, b, InLevel(c, l), P) /\ Unparted(c, b, InLevel(c, l), InLevel(c, l) \ P)
                => \/ P = {} \/ P = InLevel(c, l)
                   \/ Links(c, l) \cap P # {} /\ Links(c, l) \cap (InLevel(c, l) \ P) # {}
<1> DEFINE T == InLevel(c, l)
           comp(t) == Spectral!Component(c, T, t)
           parts == {comp(t) : t \in T}
           pick(C) == Spectral!MinDegree(c, C)
<1>1. Links(c, l) = IF Cardinality(parts) = 1 THEN {} ELSE {pick(C) : C \in parts}
  <2>1. Spectral!TopMost(c, Spectral!LevelNodes(c, l)) = T
    BY TopMostOfLevel
  <2>2. Links(c, l) = Spectral!ConnectComponents(c, T)
    <3> HIDE DEF T
    <3> QED
      BY <2>1 DEF Links, Spectral!DummyLinks
  <2> QED
    BY <2>2, SameCardinality DEF Spectral!ConnectComponents
<1>2. T \subseteq Elements(c)
  BY DEF InLevel
<1>3. \A t \in T : /\ t \in comp(t) /\ comp(t) \subseteq T
                   /\ \A X \in SUBSET T : t \in X /\ Unparted(c, b, T, X) => comp(t) \subseteq X
  <2> HIDE DEF T
  <2> QED
    BY <1>2, ComponentFacts
<1> HIDE DEF T, comp
<1>4. \A t \in T : pick(comp(t)) \in comp(t)
  <2> SUFFICES ASSUME NEW t \in T PROVE pick(comp(t)) \in comp(t)
    OBVIOUS
  <2>1. comp(t) # {}
    BY <1>3
  <2> QED
    BY <2>1, MinDegreeIn
<1> HIDE DEF pick
<1>5. Links(c, l) \subseteq T
  BY <1>1, <1>3, <1>4
<1>6. ASSUME NEW P \in SUBSET T, Unparted(c, b, T, P), Unparted(c, b, T, T \ P), P # {}, P # T
      PROVE  Links(c, l) \cap P # {} /\ Links(c, l) \cap (T \ P) # {}
  <2>1. PICK s \in T, t \in T : s \in P /\ t \notin P
    BY <1>6
  <2>2. comp(s) \subseteq P /\ comp(t) \subseteq T \ P
    BY <2>1, <1>3, <1>6
  <2>3. Cardinality(parts) # 1
    <3> SUFFICES ASSUME Cardinality(parts) = 1 PROVE FALSE
      OBVIOUS
    <3>1. IsFiniteSet(parts)
      <4>1. T \in SUBSET Elements(c) /\ IsFiniteSet(Elements(c))
        BY <1>2 DEF MapOK
      <4>2. IsFiniteSet(T)
        BY <4>1, FS_Subset
      <4> DEFINE f == [x \in T |-> comp(x)]
      <4>3. parts = {f[x] : x \in T}
        OBVIOUS
      <4> HIDE DEF parts, f
      <4> QED
        BY <4>2, <4>3, FiniteImage
    <3>2. \E C : parts = {C}
      <4> HIDE DEF parts
      <4> QED
        BY <3>1, FS_Singleton
    <3>3. comp(s) = comp(t)
      BY <3>2
    <3> QED
      BY <3>3, <2>2, <1>3
  <2>4. pick(comp(s)) \in Links(c, l) /\ pick(comp(t)) \in Links(c, l)
    BY <2>3, <1>1
  <2> QED
    BY <2>4, <2>2, <1>4
<1> QED
  BY <1>5, <1>6 DEF T

(***************************************************************************)
(* The graph as spectralLayout builds it.                                  *)
(***************************************************************************)
Childless(c) == {n \in Elements(c) : InLevel(c, n) = {}}
Apart(c) == {l \in Spectral!Levels(c) : Links(c, l) # {}}

\* On the same side of X are the nodes that stand for two neighbours, and a
\* dummy with what it is joined to.
EvenMap(c, rep, X) ==
  /\ \A i \in Elements(c) : \A j \in Spectral!Neighborhood(c, i) : rep[i] \in X <=> rep[j] \in X
  /\ \A l \in Apart(c) : \A n \in Links(c, l) : Spectral!Vertex(l) \in X <=> rep[n] \in X

LEMMA TransformedForm ==
  ASSUME NEW c, NEW rep, rep = Spectral!Representative(c), NEW g, g = Spectral!Transformed(c)
  PROVE  /\ g.node = Spectral!Leaves(c) \cup {Spectral!Vertex(l) : l \in Apart(c)}
         /\ \A p : p \in g.edge <=>
              \/ \E i, j \in Elements(c) : j \in Spectral!Neighborhood(c, i) /\ p = <<rep[i], rep[j]>>
              \/ \E l \in Apart(c) : \E n \in Links(c, l) :
                    p = <<Spectral!Vertex(l), rep[n]>> \/ p = <<rep[n], Spectral!Vertex(l)>>
<1> DEFINE R == Spectral!Representative(c)
           near == {p \in Spectral!NodesOf(c) \X Spectral!NodesOf(c) : p[2] \in Spectral!Neighborhood(c, p[1])}
           real == {<<R[p[1]], R[p[2]]>> : p \in near}
           dummies == {l \in Spectral!Levels(c) : Spectral!DummyLinks(c)[l] # {}}
           joined == UNION {{<<Spectral!Vertex(l), R[n]>> : n \in Spectral!DummyLinks(c)[l]} : l \in dummies}
           back == {<<p[2], p[1]>> : p \in joined}
<1>1. /\ g.node = Spectral!Leaves(c) \cup {Spectral!Vertex(l) : l \in dummies}
      /\ g.edge = real \cup joined \cup back
  BY DEF Spectral!Transformed
<1>2. dummies = Apart(c)
  BY DEF Apart, Links
<1>3. \A p : p \in real <=> \E i, j \in Elements(c) : j \in Spectral!Neighborhood(c, i) /\ p = <<rep[i], rep[j]>>
  <2> SUFFICES ASSUME NEW p
               PROVE p \in real <=> \E i, j \in Elements(c) : j \in Spectral!Neighborhood(c, i) /\ p = <<rep[i], rep[j]>>
    OBVIOUS
  <2>1. ASSUME p \in real
        PROVE \E i, j \in Elements(c) : j \in Spectral!Neighborhood(c, i) /\ p = <<rep[i], rep[j]>>
    <3>1. PICK q \in near : p = <<R[q[1]], R[q[2]]>>
      BY <2>1
    <3>2. q[1] \in Elements(c) /\ q[2] \in Elements(c) /\ q[2] \in Spectral!Neighborhood(c, q[1])
      BY DEF Elements
    <3> QED
      BY <3>1, <3>2
  <2>2. ASSUME NEW i \in Elements(c), NEW j \in Elements(c), j \in Spectral!Neighborhood(c, i), p = <<rep[i], rep[j]>>
        PROVE p \in real
    <3> DEFINE q == <<i, j>>
    <3>1. q \in near /\ q[1] = i /\ q[2] = j
      BY <2>2 DEF Elements
    <3> HIDE DEF q, near
    <3> QED
      BY <3>1, <2>2
  <2> QED
    BY <2>1, <2>2
<1>4. \A p : p \in joined <=> \E l \in Apart(c) : \E n \in Links(c, l) : p = <<Spectral!Vertex(l), rep[n]>>
  BY <1>2 DEF Links
<1> HIDE DEF near, real, dummies, joined
<1>5. \A p : p \in back <=> \E l \in Apart(c) : \E n \in Links(c, l) : p = <<rep[n], Spectral!Vertex(l)>>
  <2> SUFFICES ASSUME NEW p
               PROVE p \in back <=> \E l \in Apart(c) : \E n \in Links(c, l) : p = <<rep[n], Spectral!Vertex(l)>>
    OBVIOUS
  <2>1. ASSUME p \in back PROVE \E l \in Apart(c) : \E n \in Links(c, l) : p = <<rep[n], Spectral!Vertex(l)>>
    <3>1. PICK q \in joined : p = <<q[2], q[1]>>
      BY <2>1
    <3>2. PICK l \in Apart(c) : \E n \in Links(c, l) : q = <<Spectral!Vertex(l), rep[n]>>
      BY <3>1, <1>4
    <3>3. PICK n \in Links(c, l) : q = <<Spectral!Vertex(l), rep[n]>>
      BY <3>2
    <3> QED
      BY <3>1, <3>3
  <2>2. ASSUME NEW l \in Apart(c), NEW n \in Links(c, l), p = <<rep[n], Spectral!Vertex(l)>>
        PROVE p \in back
    <3> DEFINE q == <<Spectral!Vertex(l), rep[n]>>
    <3>1. q \in joined
      BY <1>4
    <3>2. p = <<q[2], q[1]>>
      BY <2>2
    <3> HIDE DEF q
    <3> QED
      BY <3>1, <3>2
  <2> QED
    BY <2>1, <2>2
<1> HIDE DEF back
<1>6. g.node = Spectral!Leaves(c) \cup {Spectral!Vertex(l) : l \in Apart(c)}
  BY <1>1, <1>2
<1>7. \A p : p \in g.edge <=> p \in real \/ p \in joined \/ p \in back
  BY <1>1
<1>8. \A p : p \in g.edge <=>
              \/ \E i, j \in Elements(c) : j \in Spectral!Neighborhood(c, i) /\ p = <<rep[i], rep[j]>>
              \/ \E l \in Apart(c) : \E n \in Links(c, l) :
                    p = <<Spectral!Vertex(l), rep[n]>> \/ p = <<rep[n], Spectral!Vertex(l)>>
  BY <1>7, <1>3, <1>4, <1>5
<1> QED
  BY <1>6, <1>8

LEMMA TransformedSampled ==
  ASSUME NEW c, MapOK(c), NEW h, NEW b, Nested(c, h, b), NEW g, g = Spectral!Transformed(c)
  PROVE  Sampled(g) /\ g.node = Childless(c) \cup {Spectral!Vertex(l) : l \in Apart(c)}
<1> DEFINE rep == Spectral!Representative(c)
           V == {Spectral!Vertex(l) : l \in Apart(c)}
<1>1. /\ g.node = Spectral!Leaves(c) \cup V
      /\ \A p : p \in g.edge <=>
              \/ \E i, j \in Elements(c) : j \in Spectral!Neighborhood(c, i) /\ p = <<rep[i], rep[j]>>
              \/ \E l \in Apart(c) : \E n \in Links(c, l) :
                    p = <<Spectral!Vertex(l), rep[n]>> \/ p = <<rep[n], Spectral!Vertex(l)>>
  BY TransformedForm
<1>2. Spectral!Leaves(c) = Childless(c)
  <2>1. \A k \in Elements(c) : Spectral!IsParent(c, k) <=> InLevel(c, k) # {}
    BY ParentHasKids
  <2> QED
    BY <2>1 DEF Spectral!Leaves, Childless, Elements
<1>3. RepOK(c, b, rep)
  BY RepresentativeFacts
<1> HIDE DEF rep
<1>4. \A n \in Elements(c) : rep[n] \in Childless(c)
  BY <1>3 DEF RepOK, Childless
<1>5. Apart(c) \subseteq Elements(c) \cup {Null}
  BY DEF Apart, Spectral!Levels, Elements
<1>6. \A l \in Apart(c) : Links(c, l) \subseteq Elements(c)
  <2> SUFFICES ASSUME NEW l \in Apart(c) PROVE Links(c, l) \subseteq Elements(c)
    OBVIOUS
  <2>1. l \in Spectral!Levels(c)
    BY DEF Apart
  <2>2. Links(c, l) \subseteq InLevel(c, l)
    BY <2>1, LevelParts
  <2> QED
    BY <2>2 DEF InLevel
<1>7. \A l \in Apart(c) : Spectral!Vertex(l) \in V
  OBVIOUS
<1>8. IsFiniteSet(g.node)
  <2>1. IsFiniteSet(Elements(c)) /\ Childless(c) \in SUBSET Elements(c)
    BY DEF MapOK, Childless
  <2>2. IsFiniteSet(Childless(c))
    BY <2>1, FS_Subset
  <2>3. IsFiniteSet(Elements(c) \cup {Null})
    BY <2>1, FS_AddElement
  <2>4. IsFiniteSet(Apart(c))
    BY <2>3, <1>5, FS_Subset
  <2>5. IsFiniteSet(V)
    <3> DEFINE f == [l \in Apart(c) |-> Spectral!Vertex(l)]
    <3>1. V = {f[l] : l \in Apart(c)}
      OBVIOUS
    <3> HIDE DEF f, V
    <3> QED
      BY <3>1, <2>4, FiniteImage
  <2> HIDE DEF V
  <2> QED
    BY <1>1, <1>2, <2>2, <2>5, FS_Union
<1> HIDE DEF V
<1>9. \A p \in g.edge : p \in g.node \X g.node
  <2> SUFFICES ASSUME NEW p \in g.edge PROVE p \in g.node \X g.node
    OBVIOUS
  <2>1. CASE \E i, j \in Elements(c) : j \in Spectral!Neighborhood(c, i) /\ p = <<rep[i], rep[j]>>
    BY <2>1, <1>1, <1>2, <1>4
  <2>2. CASE \E l \in Apart(c) : \E n \in Links(c, l) :
                    p = <<Spectral!Vertex(l), rep[n]>> \/ p = <<rep[n], Spectral!Vertex(l)>>
    <3>0. PICK l \in Apart(c) : \E n \in Links(c, l) :
                    p = <<Spectral!Vertex(l), rep[n]>> \/ p = <<rep[n], Spectral!Vertex(l)>>
      BY <2>2
    <3>1. PICK n \in Links(c, l) : p = <<Spectral!Vertex(l), rep[n]>> \/ p = <<rep[n], Spectral!Vertex(l)>>
      BY <3>0
    <3>2. rep[n] \in g.node
      BY <1>1, <1>2, <1>4, <1>6
    <3>3. Spectral!Vertex(l) \in g.node
      BY <1>1, <1>7
    <3> QED
      BY <3>1, <3>2, <3>3
  <2> QED
    BY <1>1, <2>1, <2>2
<1> QED
  BY <1>1, <1>2, <1>8, <1>9 DEF Sampled, V

LEMMA TransformedEven ==
  ASSUME NEW c, MapOK(c), NEW g, g = Spectral!Transformed(c), NEW X, ~Leaving(g, X)
  PROVE  EvenMap(c, Spectral!Representative(c), X)
<1> DEFINE rep == Spectral!Representative(c)
<1>1. \A p : p \in g.edge <=>
              \/ \E i, j \in Elements(c) : j \in Spectral!Neighborhood(c, i) /\ p = <<rep[i], rep[j]>>
              \/ \E l \in Apart(c) : \E n \in Links(c, l) :
                    p = <<Spectral!Vertex(l), rep[n]>> \/ p = <<rep[n], Spectral!Vertex(l)>>
  BY TransformedForm
<1> HIDE DEF rep
<1>2. \A p \in g.edge : p[1] \in X => p[2] \in X
  BY DEF Leaving
<1>3. ASSUME NEW x, NEW y, <<x, y>> \in g.edge, <<y, x>> \in g.edge PROVE x \in X <=> y \in X
  <2> DEFINE p == <<x, y>>
             q == <<y, x>>
  <2>1. p[1] = x /\ p[2] = y /\ q[1] = y /\ q[2] = x /\ p \in g.edge /\ q \in g.edge
    BY <1>3
  <2> HIDE DEF p, q
  <2> QED
    BY <2>1, <1>2
<1>4. ASSUME NEW i \in Elements(c), NEW j \in Spectral!Neighborhood(c, i) PROVE rep[i] \in X <=> rep[j] \in X
  <2>1. j \in Elements(c) /\ i \in Spectral!Neighborhood(c, j)
    BY DEF Spectral!Neighborhood, Elements
  <2>2. <<rep[i], rep[j]>> \in g.edge /\ <<rep[j], rep[i]>> \in g.edge
    BY <2>1, <1>1
  <2> QED
    BY <2>2, <1>3
<1>5. ASSUME NEW l \in Apart(c), NEW n \in Links(c, l) PROVE Spectral!Vertex(l) \in X <=> rep[n] \in X
  <2>1. <<Spectral!Vertex(l), rep[n]>> \in g.edge /\ <<rep[n], Spectral!Vertex(l)>> \in g.edge
    BY <1>1
  <2> DEFINE v == Spectral!Vertex(l)
  <2> HIDE DEF v
  <2> QED
    BY <2>1, <1>3 DEF v
<1> QED
  BY <1>4, <1>5 DEF EvenMap, rep

(***************************************************************************)
(* No part of the sampled graph is cut off from the rest.                  *)
(***************************************************************************)
\* Everything inside k, the dummies of its levels included, is on one side of X.
Uniform(c, b, rep, X, k) ==
  \A j \in b[k] : /\ rep[j] \in X <=> rep[k] \in X
                  /\ j \in Apart(c) => (Spectral!Vertex(j) \in X <=> rep[k] \in X)

LEMMA LevelOnOneSide ==
  ASSUME NEW c, MapOK(c), NEW h, NEW b, Nested(c, h, b), NEW rep, NEW X, EvenMap(c, rep, X),
         NEW l, l \in Spectral!Levels(c), \A k \in InLevel(c, l) : Uniform(c, b, rep, X, k)
  PROVE  \A j, k \in InLevel(c, l) : /\ rep[j] \in X <=> rep[k] \in X
                                     /\ l \in Apart(c) => (Spectral!Vertex(l) \in X <=> rep[k] \in X)
<1> DEFINE T == InLevel(c, l)
           P == {k \in T : rep[k] \in X}
           L == Links(c, l)
<1>1. /\ L \subseteq T
      /\ \A Q \in SUBSET T :
           Unparted(c, b, T, Q) /\ Unparted(c, b, T, T \ Q)
             => Q = {} \/ Q = T \/ (L \cap Q # {} /\ L \cap (T \ Q) # {})
  BY LevelParts
<1>2. ASSUME NEW n \in T, NEW k \in T, Touch(c, b, n, k) PROVE rep[n] \in X <=> rep[k] \in X
  <2>1. PICK i \in b[n] : \E j \in b[k] : j \in Spectral!Neighborhood(c, i)
    BY <1>2 DEF Touch
  <2>2. PICK j \in b[k] : j \in Spectral!Neighborhood(c, i)
    BY <2>1
  <2>3. n \in Elements(c)
    BY DEF InLevel
  <2>4. i \in Elements(c)
    BY <2>3, NestedFacts
  <2>5. rep[i] \in X <=> rep[j] \in X
    BY <2>2, <2>4 DEF EvenMap
  <2>6. (rep[i] \in X <=> rep[n] \in X) /\ (rep[j] \in X <=> rep[k] \in X)
    BY DEF Uniform
  <2> QED
    BY <2>5, <2>6
<1>3. \A n \in L : l \in Apart(c) /\ (Spectral!Vertex(l) \in X <=> rep[n] \in X)
  <2>1. L # {} => l \in Apart(c)
    BY DEF Apart
  <2> QED
    BY <2>1 DEF EvenMap
<1>4. l \in Apart(c) => L # {}
  BY DEF Apart
<1> HIDE DEF T, L
<1>5. P \in SUBSET T /\ Unparted(c, b, T, P) /\ Unparted(c, b, T, T \ P)
  BY <1>2 DEF Unparted
<1>6. P = {} \/ P = T \/ (L \cap P # {} /\ L \cap (T \ P) # {})
  <2> HIDE DEF P
  <2> QED
    BY <1>1, <1>5
<1>7. P = {} \/ P = T
  BY <1>3, <1>6
<1>8. \A j, k \in T : rep[j] \in X <=> rep[k] \in X
  BY <1>7
<1>9. ASSUME l \in Apart(c), NEW k \in T PROVE Spectral!Vertex(l) \in X <=> rep[k] \in X
  <2>1. PICK n \in L : TRUE
    BY <1>4, <1>9
  <2> QED
    BY <2>1, <1>1, <1>3, <1>8
<1> QED
  BY <1>8, <1>9 DEF T

LEMMA InsideOnOneSide ==
  ASSUME NEW c, MapOK(c), NEW h, NEW b, Nested(c, h, b), NEW rep, RepOK(c, b, rep), NEW X, EvenMap(c, rep, X)
  PROVE  \A n \in Elements(c) : Uniform(c, b, rep, X, n)
<1> DEFINE D == Elements(c)
           P == {n \in D : Uniform(c, b, rep, X, n)}
<1>1. /\ h \in [D -> Nat]
      /\ \A n \in D : /\ \A k \in D : c.parent[k] = n => h[k] < h[n]
                      /\ b[n] = {n} \cup UNION {b[k] : k \in {j \in D : c.parent[j] = n}}
  BY NestedFacts
<1>2. ASSUME NEW n \in D, \A k \in D : h[k] < h[n] => k \in P PROVE n \in P
  <2> DEFINE T == InLevel(c, n)
  <2>1. b[n] = {n} \cup UNION {b[k] : k \in T}
    BY <1>1 DEF InLevel
  <2>2. T \subseteq D /\ \A k \in T : Uniform(c, b, rep, X, k)
    BY <1>1, <1>2 DEF InLevel
  <2>3. rep[n] \in b[n] /\ InLevel(c, rep[n]) = {} /\ rep[n] \in D /\ (T = {} => rep[n] = n)
    BY DEF RepOK
  <2>4. rep[rep[n]] = rep[n]
    BY <2>3 DEF RepOK
  <2>5. CASE T = {}
    <3>1. b[n] = {n}
      BY <2>1, <2>5
    <3>2. n \notin Apart(c)
      <4> SUFFICES ASSUME n \in Apart(c) PROVE FALSE
        OBVIOUS
      <4>1. n \in Spectral!Levels(c) /\ Links(c, n) # {}
        BY DEF Apart
      <4>2. Links(c, n) \subseteq T
        BY <4>1, LevelParts
      <4> QED
        BY <4>1, <4>2, <2>5
    <3> QED
      BY <3>1, <3>2 DEF Uniform
  <2>6. CASE T # {}
    <3>1. n \in Spectral!Levels(c)
      <4>1. Spectral!IsParent(c, n)
        BY <2>6, ParentHasKids
      <4> QED
        BY <4>1 DEF Spectral!Levels, Elements
    <3>2. \A j, k \in T : /\ rep[j] \in X <=> rep[k] \in X
                          /\ n \in Apart(c) => (Spectral!Vertex(n) \in X <=> rep[k] \in X)
      BY <2>2, <3>1, LevelOnOneSide
    <3>3. PICK k \in T : rep[n] \in b[k]
      <4>1. rep[n] # n
        BY <2>3, <2>6
      <4> QED
        BY <4>1, <2>1, <2>3
    <3>4. rep[n] \in X <=> rep[k] \in X
      BY <2>2, <2>4, <3>3 DEF Uniform
    <3>5. ASSUME NEW j \in b[n]
          PROVE  /\ rep[j] \in X <=> rep[n] \in X
                 /\ j \in Apart(c) => (Spectral!Vertex(j) \in X <=> rep[n] \in X)
      <4>1. CASE j = n
        BY <4>1, <3>2, <3>4
      <4>2. CASE j # n
        <5>1. PICK i \in T : j \in b[i]
          BY <4>2, <2>1
        <5>2. /\ rep[j] \in X <=> rep[i] \in X
              /\ j \in Apart(c) => (Spectral!Vertex(j) \in X <=> rep[i] \in X)
          BY <5>1, <2>2 DEF Uniform
        <5>3. rep[i] \in X <=> rep[k] \in X
          BY <3>2
        <5> QED
          BY <5>2, <5>3, <3>4
      <4> QED
        BY <4>1, <4>2
    <3> QED
      BY <3>5 DEF Uniform
  <2> QED
    BY <2>5, <2>6
<1>3. D \subseteq P
  <2> HIDE DEF P, D
  <2> QED
    BY <1>1, <1>2, FromBelow
<1> QED
  BY <1>3

\* The graph whose distances are sampled is in one piece: wherever a level
\* of the map falls apart, its dummy vertex joins the parts.
LEMMA MapIsOnePiece ==
  ASSUME NEW c, MapOK(c), NEW g, g = Spectral!Transformed(c)
  PROVE  Sampled(g) /\ OnePiece(g)
<1>1. PICK h : \E b : Nested(c, h, b)
  BY NestedExists
<1>2. PICK b : Nested(c, h, b)
  BY <1>1
<1> DEFINE D == Elements(c)
           T == InLevel(c, Null)
           rep == Spectral!Representative(c)
<1>3. Sampled(g) /\ g.node = Childless(c) \cup {Spectral!Vertex(l) : l \in Apart(c)}
  BY <1>2, TransformedSampled
<1>4. RepOK(c, b, rep)
  BY <1>2, RepresentativeFacts
<1>5. \A n \in D : \E t \in T : n \in b[t]
  <2>1. /\ Forest(D, Kids(c), c.parent, h) /\ IsBelow(b, D, Kids(c))
        /\ \A k \in D : c.parent[k] \in D => k \in ToSet(Kids(c)[c.parent[k]])
    BY <1>2 DEF Nested
  <2>2. \A n \in D : \E t \in D : c.parent[t] \notin D /\ n \in b[t]
    <3> HIDE DEF D
    <3> DEFINE kids == Kids(c)
               up == c.parent
    <3>1. Forest(D, kids, up, h) /\ IsBelow(b, D, kids) /\ \A k \in D : up[k] \in D => k \in ToSet(kids[up[k]])
      BY <2>1
    <3> HIDE DEF kids, up
    <3>2. \A n \in D : \E t \in D : up[t] \notin D /\ n \in b[t]
      BY <3>1, TopsCover
    <3> QED
      BY <3>2 DEF up
  <2>3. \A t \in D : c.parent[t] \notin D => t \in T
    BY DEF MapOK, InLevel
  <2> QED
    BY <2>2, <2>3
<1>6. Apart(c) \subseteq D \cup {Null} /\ (Null \in Apart(c) => T # {})
  <2>1. Apart(c) \subseteq D \cup {Null}
    BY DEF Apart, Spectral!Levels, Elements
  <2>2. ASSUME Null \in Apart(c) PROVE T # {}
    <3>1. Null \in Spectral!Levels(c) /\ Links(c, Null) # {}
      BY <2>2 DEF Apart
    <3>2. Links(c, Null) \subseteq T
      BY <3>1, <1>2, LevelParts
    <3> QED
      BY <3>1, <3>2
  <2> QED
    BY <2>1, <2>2
<1> HIDE DEF rep
<1>7. ASSUME NEW X \in SUBSET g.node, ~Leaving(g, X), EvenMap(c, rep, X), X # {} PROVE X = g.node
  <2>1. \A n \in D : Uniform(c, b, rep, X, n)
    BY <1>2, <1>4, <1>7, InsideOnOneSide
  <2>2. \A j, k \in T : /\ rep[j] \in X <=> rep[k] \in X
                        /\ Null \in Apart(c) => (Spectral!Vertex(Null) \in X <=> rep[k] \in X)
    <3>1. Null \in Spectral!Levels(c)
      BY DEF Spectral!Levels
    <3>2. \A k \in T : Uniform(c, b, rep, X, k)
      BY <2>1 DEF InLevel
    <3> QED
      BY <3>1, <3>2, <1>2, <1>7, LevelOnOneSide
  <2> HIDE DEF D, T
  <2>3. ASSUME NEW v \in g.node PROVE T # {} /\ \A k \in T : v \in X <=> rep[k] \in X
    <3>1. CASE v \in Childless(c)
      <4>1. v \in D /\ rep[v] = v
        BY <3>1, <1>4 DEF RepOK, Childless, D
      <4>2. PICK t \in T : v \in b[t]
        BY <4>1, <1>5
      <4>3. t \in D
        BY DEF InLevel, T, D
      <4>4. rep[v] \in X <=> rep[t] \in X
        BY <4>2, <4>3, <2>1 DEF Uniform
      <4> QED
        BY <4>1, <4>2, <4>4, <2>2
    <3>2. CASE \E l \in Apart(c) : v = Spectral!Vertex(l)
      <4>1. PICK l \in Apart(c) : v = Spectral!Vertex(l)
        BY <3>2
      <4>2. CASE l = Null
        BY <4>1, <4>2, <1>6, <2>2
      <4>3. CASE l \in D
        <5>1. PICK t \in T : l \in b[t]
          BY <4>3, <1>5
        <5>2. t \in D
          BY DEF InLevel, T, D
        <5>3. v \in X <=> rep[t] \in X
          BY <4>1, <5>1, <5>2, <2>1 DEF Uniform
        <5> QED
          BY <5>1, <5>3, <2>2
      <4> QED
        BY <4>2, <4>3, <1>6
    <3> QED
      BY <3>1, <3>2, <1>3
  <2>4. \A u, v \in g.node : u \in X <=> v \in X
    BY <2>3
  <2> QED
    BY <2>4, <1>7
<1>8. \A X \in SUBSET g.node : ~Leaving(g, X) => EvenMap(c, rep, X)
  BY TransformedEven DEF rep
<1>9. OnePiece(g)
  BY <1>7, <1>8 DEF OnePiece
<1> QED
  BY <1>3, <1>9

(***************************************************************************)
(* What every step keeps of the samples.                                   *)
(***************************************************************************)
\* What is sampled is sampled from the graph of the map being laid out.
SpectralInv ==
  /\ cy \in Maps
  /\ samples = <<>> \/ \E first \in Spectral!Transformed(cy).node :
                           samples = Spectral!GreedySamples(Spectral!Transformed(cy), first)

LEMMA SpectralStep == SpectralInv /\ [Next]_vars => SpectralInv'
<1> SUFFICES ASSUME SpectralInv, [Next]_vars PROVE SpectralInv'
  OBVIOUS
<1>1. CASE UNCHANGED <<cy, samples>>
  BY <1>1 DEF SpectralInv
<1>2. CASE SpectralLayout
  <2>1. cy' = cy
    BY <1>2 DEF SpectralLayout
  <2>2. samples' = samples \/ \E first \in Spectral!Transformed(cy).node :
                                 samples' = Spectral!GreedySamples(Spectral!Transformed(cy), first)
    BY <1>2 DEF SpectralLayout
  <2>3. cy' \in Maps
    BY <2>1 DEF SpectralInv
  <2>4. samples' = <<>> \/ \E first \in Spectral!Transformed(cy).node :
                              samples' = Spectral!GreedySamples(Spectral!Transformed(cy), first)
    BY <2>2 DEF SpectralInv
  <2> QED
    BY <2>1, <2>3, <2>4 DEF SpectralInv
<1>3. CASE TransferElements
  BY <1>3 DEF TransferElements, SpectralInv
<1>4. CASE UNCHANGED vars
  BY <1>4, <1>1 DEF vars
<1>5. CASE Run
  BY <1>5, <1>1 DEF Run
<1>6. CASE TilingPreLayout
  BY <1>6, <1>1 DEF TilingPreLayout
<1>7. CASE ClassicLayout
  BY <1>7, <1>1 DEF ClassicLayout
<1>8. CASE RunSpringEmbedder
  BY <1>8, <1>1 DEF RunSpringEmbedder
<1>9. CASE TilingPostLayout
  BY <1>9, <1>1 DEF TilingPostLayout
<1>10. CASE LayoutPositions
  BY <1>10, <1>1 DEF LayoutPositions
<1>11. CASE Done
  BY <1>11, <1>4 DEF Done
<1> QED
  BY <1>2, <1>3, <1>4, <1>5, <1>6, <1>7, <1>8, <1>9, <1>10, <1>11 DEF Next

LEMMA SpectralHolds == SpectralInv => SpectralSound
<1> SUFFICES ASSUME SpectralInv PROVE SpectralSound
  OBVIOUS
<1> DEFINE g == Spectral!Transformed(cy)
<1>1. Sampled(g) /\ OnePiece(g)
  <2>1. MapOK(cy)
    BY MapFacts DEF SpectralInv
  <2> QED
    BY <2>1, MapIsOnePiece
<1>2. samples = <<>> \/ \E first \in g.node : samples = Spectral!GreedySamples(g, first)
  BY DEF SpectralInv
<1>3. SpectralSound <=> /\ \A i \in DOMAIN samples : \A v \in g.node : Spectral!Distances(g, samples[i])[v] < Cardinality(g.node)
                        /\ IsInjective(samples)
  BY SameCardinality DEF SpectralSound, SpectralConnected, SamplesDistinct, Spectral!Infinity
<1> HIDE DEF g
<1>4. samples \in Seq(g.node) /\ IsInjective(samples)
  <2>1. CASE samples = <<>>
    BY <2>1 DEF IsInjective
  <2>2. CASE \E first \in g.node : samples = Spectral!GreedySamples(g, first)
    BY <2>2, <1>1, SamplesDiffer
  <2> QED
    BY <1>2, <2>1, <2>2
<1>5. ASSUME NEW i \in DOMAIN samples, NEW v \in g.node PROVE Spectral!Distances(g, samples[i])[v] < Cardinality(g.node)
  <2> DEFINE s == samples[i]
             dist == Spectral!Distances(g, s)
  <2>1. s \in g.node
    BY <1>4
  <2> HIDE DEF s
  <2>2. \A x \in g.node : dist[x] < Cardinality(g.node)
    <3> HIDE DEF dist
    <3> QED
      BY <1>1, <2>1, DistanceFacts DEF dist
  <2> QED
    BY <2>2 DEF s
<1> QED
  BY <1>3, <1>4, <1>5

\* Every vertex of the sampled graph is reached from every sample, and no
\* vertex is sampled twice: the matrix of distances is all there, and its
\* columns are those of different vertices.
THEOREM CoseSpectralSound == Spec => []SpectralSound
<1>1. Init => SpectralInv
  BY DEF Init, SpectralInv
<1> QED
  BY <1>1, SpectralStep, SpectralHolds, PTL DEF Spec
================================================================================
