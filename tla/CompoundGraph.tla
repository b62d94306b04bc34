---------------------------- MODULE CompoundGraph ------------------------------
(***************************************************************************)
(* The compound graph of layout-base: LNode, LEdge, LGraph, LGraphManager. *)
(* A manager m is a record.  A graph is named by the node it is created    *)
(* for, so child[n] is n or Null.  Lists are sequences, because the order  *)
(* of the nodes decides what the layout does; a method is an operator from *)
(* one manager to the next, and a throw of the code sets "thrown", after   *)
(* which nothing changes.                                                  *)
(***************************************************************************)
EXTENDS Lists, FiniteSetsExt, SequencesExt

CONSTANTS Node, Edge,
          RootNode,   \* the node addRoot() creates for the root graph
          Null        \* null and undefined

ASSUME NodeAssumption ==
  IsFiniteSet(Node) /\ RootNode \in Node /\ Null \notin Node

NewManager ==
  [graphs |-> <<>>, root |-> Null, inter |-> <<>>,          \* graphs, rootGraph, edges
   nodes  |-> [n \in Node |-> <<>>], edges |-> [n \in Node |-> <<>>],
   parent |-> [n \in Node |-> Null],                        \* of a graph
   owner  |-> [n \in Node |-> Null], child |-> [n \in Node |-> Null],
   inc    |-> [n \in Node |-> <<>>],                        \* LNode.edges
   source |-> [e \in Edge |-> Null], target |-> [e \in Edge |-> Null],
   isInter |-> [e \in Edge |-> FALSE],
   allNodes |-> Null, allEdges |-> Null, gravity |-> Null,  \* the three caches
   thrown |-> FALSE]

\* The next manager, or a throw when an assertion of the method fails.
Guarded(m, ok, next) ==
  IF m.thrown THEN m ELSE IF ok THEN next ELSE [m EXCEPT !.thrown = TRUE]

Ends(m, e) == {m.source[e], m.target[e]}

Incident(inc, ends, e) == [n \in Node |-> IF n \in ends THEN Append(inc[n], e) ELSE inc[n]]
Detached(inc, ends, e) == [n \in Node |-> IF n \in ends THEN RemoveFirst(inc[n], e) ELSE inc[n]]

(***************************************************************************)
(* LGraph.add and LGraphManager.add.                                       *)
(***************************************************************************)
AddNode(m, G, n) ==
  Guarded(m, ~Contains(m.nodes[G], n),
          [m EXCEPT !.owner[n] = G, !.nodes[G] = Append(@, n)])

AddOwnEdge(m, G, e, s, t) ==
  Guarded(m, {s, t} \subseteq ToSet(m.nodes[G]) /\ m.owner[s] = G /\ m.owner[t] = G,
          [m EXCEPT !.source[e] = s, !.target[e] = t, !.isInter[e] = FALSE,
                    !.edges[G] = Append(@, e), !.inc = Incident(@, {s, t}, e)])

AddInterEdge(m, e, s, t) ==
  Guarded(m, ~\E l \in {m.inter, m.inc[s], m.inc[t]} : Contains(l, e),
          [m EXCEPT !.source[e] = s, !.target[e] = t, !.isInter[e] = TRUE,
                    !.inter = Append(@, e), !.inc = Incident(@, {s, t}, e)])

AddEdge(m, e, s, t) ==
  Guarded(m, Null \notin {m.owner[s], m.owner[t]},
          IF m.owner[s] = m.owner[t] THEN AddOwnEdge(m, m.owner[s], e, s, t)
                                     ELSE AddInterEdge(m, e, s, t))

AddGraph(m, p) ==
  Guarded(m, ~Contains(m.graphs, p) /\ m.parent[p] = Null /\ m.child[p] = Null,
          [m EXCEPT !.graphs = Append(@, p), !.parent[p] = p, !.child[p] = p])

AddRoot(m) == [AddGraph(m, RootNode) EXCEPT !.root = RootNode]

(***************************************************************************)
(* LGraph.remove and LGraphManager.remove.                                 *)
(***************************************************************************)
KnownAtBothEnds(m, e) == \A n \in Ends(m, e) : n # Null /\ Contains(m.inc[n], e)

RemoveOwnEdge(m, G, e) ==
  Guarded(m, /\ KnownAtBothEnds(m, e) /\ \A n \in Ends(m, e) : m.owner[n] = G
             /\ Contains(m.edges[G], e),
          [m EXCEPT !.inc = Detached(@, Ends(m, e), e), !.edges[G] = RemoveFirst(@, e)])

RemoveInterEdge(m, e) ==
  Guarded(m, m.isInter[e] /\ KnownAtBothEnds(m, e) /\ Contains(m.inter, e),
          [m EXCEPT !.inc = Detached(@, Ends(m, e), e), !.inter = RemoveFirst(@, e)])

RemoveEdge(m, e) ==
  IF m.isInter[e] THEN RemoveInterEdge(m, e)
                  ELSE RemoveOwnEdge(m, m.owner[m.source[e]], e)

\* The incident edges first.  The node keeps its owner.
RemoveNode(m, G, n) ==
  LET bare == InTurn(RemoveEdge, m, m.inc[n])
  IN Guarded(m, m.owner[n] = G,
             Guarded(bare, Contains(bare.nodes[G], n),
                     [bare EXCEPT !.nodes[G] = RemoveFirst(@, n)]))

\* Removing the root graph calls setRootGraph(null), which throws.  The
\* node the graph belonged to keeps it as its child.
RemoveGraph(m, G) ==
  LET noEdges == InTurn(LAMBDA a, e : RemoveOwnEdge(a, G, e), m, m.edges[G])
      empty   == InTurn(LAMBDA a, n : RemoveNode(a, G, n), noEdges, m.nodes[G])
  IN Guarded(m, m.parent[G] # Null,
             Guarded(empty, G # m.root,
                     [empty EXCEPT !.graphs = RemoveFirst(@, G), !.parent[G] = Null]))

(***************************************************************************)
(* The cached lists.  Only a reset makes getAllNodes and getAllEdges look  *)
(* at the graphs again; the gravity list may be set only when it is null.  *)
(***************************************************************************)
LiveNodes(m) == FlattenSeq([i \in DOMAIN m.graphs |-> m.nodes[m.graphs[i]]])
LiveEdges(m) == FlattenSeq([i \in DOMAIN m.graphs |-> m.edges[m.graphs[i]]]) \o m.inter

AllNodes(m) == IF m.allNodes = Null THEN LiveNodes(m) ELSE m.allNodes
AllEdges(m) == IF m.allEdges = Null THEN LiveEdges(m) ELSE m.allEdges

GetAllNodes(m) == [m EXCEPT !.allNodes = AllNodes(m)]
GetAllEdges(m) == [m EXCEPT !.allEdges = AllEdges(m)]

SetGravity(m, list) == Guarded(m, m.gravity = Null, [m EXCEPT !.gravity = list])

(***************************************************************************)
(* Walking the graph.                                                      *)
(***************************************************************************)
Children(m, n) == IF m.child[n] = Null THEN <<>> ELSE m.nodes[m.child[n]]
ParentOf(m, n) == IF m.owner[n] = Null THEN Null ELSE m.parent[m.owner[n]]
OtherEnd(m, e, n) == IF m.source[e] = n THEN m.target[e] ELSE m.source[e]
EdgesBetween(m, s, t) == {e \in ToSet(m.inc[s]) : t \in Ends(m, e)}

\* From a node up to the root graph: the node, the compound around it, ...
\* A node that was taken out may be left without a way up.
Around(m, n) == IF m.owner[n] = m.root THEN Null ELSE ParentOf(m, n)

Chain(m, n) ==
  LET up[k \in Node] == IF Around(m, k) = Null THEN <<k>> ELSE <<k>> \o up[Around(m, k)]
  IN up[n]

WithChildren(m, n) ==
  LET all[k \in Node] == {k} \cup UNION {all[c] : c \in ToSet(Children(m, k))}
  IN all[n]

\* The node of graph G in which the other end of e lies, or Null.
OtherEndInGraph(m, e, n, G) ==
  LET on == Those(Chain(m, OtherEnd(m, e, n)), LAMBDA k : m.owner[k] = G)
  IN IF on = <<>> THEN Null ELSE on[1]

\* updateConnected: whether the nodes of G hang together, where an edge of
\* anything inside a node of G counts as an edge of that node.
IsConnectedGraph(m, G) ==
  LET near(n)  == {OtherEndInGraph(m, e, n, G) : e \in ToSet(m.inc[n])} \ {Null}
      step(V)  == V \cup UNION {WithChildren(m, k) : k \in UNION {near(n) : n \in V}}
      reach[V \in SUBSET Node] == LET W == step(V) IN IF W = V THEN V ELSE reach[W]
  IN \/ m.nodes[G] = <<>>
     \/ ToSet(m.nodes[G]) \subseteq reach[WithChildren(m, m.nodes[G][1])]

(***************************************************************************)
(* The lowest common ancestor of the ends of an edge, and the nodes of it  *)
(* in which the ends lie: the innermost graph around the source that is    *)
(* also around the target.  Null when there is none, where the code throws.*)
(***************************************************************************)
Lca(m, e) ==
  LET S == Chain(m, m.source[e])
      T == Chain(m, m.target[e])
      common == {p \in (DOMAIN S) \X (DOMAIN T) : m.owner[S[p[1]]] = m.owner[T[p[2]]]}
      inner  == CHOOSE p \in common : \A q \in common : p[1] <= q[1] /\ p[2] <= q[2]
  IN IF common = {} THEN [graph |-> Null, source |-> Null, target |-> Null]
     ELSE [graph |-> m.owner[S[inner[1]]], source |-> S[inner[1]], target |-> T[inner[2]]]

IsOneAncestorOfOther(m, a, b) ==
  a \in ToSet(Chain(m, b)) \cup {RootNode} \/ b \in ToSet(Chain(m, a)) \cup {RootNode}

\* checkLayoutSuccess drops the edges between a node and its own compound.
\* It does not reset the list of all edges.
DropInvalidEdges(m) ==
  InTurn(RemoveInterEdge, m,
         Those(m.inter, LAMBDA e : IsOneAncestorOfOther(m, m.source[e], m.target[e])))

\* updateBounds asks the first node of the root graph for its parent.
UpdateBounds(m) == Guarded(m, m.nodes[m.root] # <<>>, m)

(***************************************************************************)
(* What every manager should be: each list without duplicates, nodes and   *)
(* graphs in one tree, an edge known to exactly its two ends and to the    *)
(* one list it belongs in.                                                 *)
(***************************************************************************)
TreeOfGraphs(m) ==
  /\ IsInjective(m.graphs) /\ Contains(m.graphs, m.root)
  /\ \A G \in ToSet(m.graphs) : /\ IsInjective(m.nodes[G]) /\ m.parent[G] # Null
                                /\ m.child[m.parent[G]] = G
                                /\ \A n \in ToSet(m.nodes[G]) : m.owner[n] = G
  /\ \A n \in Node : m.child[n] # Null => Contains(m.graphs, m.child[n])

EdgesInPlace(m) ==
  LET live == ToSet(LiveNodes(m)) IN
  /\ IsInjective(LiveEdges(m))
  /\ \A e \in ToSet(LiveEdges(m)) :
        /\ Ends(m, e) \subseteq live
        /\ m.isInter[e] <=> Contains(m.inter, e)
        /\ m.isInter[e] <=> m.owner[m.source[e]] # m.owner[m.target[e]]
        /\ ~m.isInter[e] => Contains(m.edges[m.owner[m.source[e]]], e)
  /\ \A n \in live : /\ IsInjective(m.inc[n])
                     /\ ToSet(m.inc[n]) = {e \in ToSet(LiveEdges(m)) : n \in Ends(m, e)}
================================================================================
