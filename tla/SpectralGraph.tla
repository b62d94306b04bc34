---------------------------- MODULE SpectralGraph ------------------------------
(***************************************************************************)
(* spectralLayout of cytoscape-fcose up to the numerical part: from the    *)
(* elements on the map to the graph whose distances are sampled.  That     *)
(* graph has a vertex for every node without children and a dummy vertex   *)
(* wherever something falls apart.  The elements are a record of the nodes *)
(* and the edges in Cytoscape's order, the compound of each node and the   *)
(* two ends of each edge.                                                  *)
(***************************************************************************)
EXTENDS Lists, FiniteSetsExt, SequencesExt

CONSTANTS SampleSize,   \* options.sampleSize
          Null

NodesOf(cy) == ToSet(cy.nodes)
EdgeIds(cy) == ToSet(cy.edges)
EndsOf(cy, e) == {cy.ends[e][1], cy.ends[e][2]}

ChildList(cy, p) == Those(cy.nodes, LAMBDA n : cy.parent[n] = p)
IsParent(cy, p)  == \E n \in NodesOf(cy) : cy.parent[n] = p
Leaves(cy)       == {n \in NodesOf(cy) : ~IsParent(cy, n)}
Ancestors(cy, n) ==
  LET up[k \in NodesOf(cy)] ==
        IF cy.parent[k] = Null THEN {} ELSE {cy.parent[k]} \cup up[cy.parent[k]]
  IN up[n]
Descendants(cy, n) == {k \in NodesOf(cy) : n \in Ancestors(cy, k)}

ConnectedEdges(cy, n) == {e \in EdgeIds(cy) : n \in EndsOf(cy, e)}
Neighborhood(cy, n) == {k \in NodesOf(cy) : \E e \in EdgeIds(cy) : EndsOf(cy, e) = {n, k}}

\* getTopMostNodes.
TopMost(cy, S) == {n \in S : Ancestors(cy, n) \cap S = {}}

\* A node of the set with fewest edges; the code takes the first it met.
MinDegree(cy, S) ==
  CHOOSE n \in S : \A k \in S :
    Cardinality(ConnectedEdges(cy, n)) <= Cardinality(ConnectedEdges(cy, k))

\* The topmost nodes the search of connectComponents finds from t: an edge
\* of anything inside a topmost node is an edge of it.
Component(cy, tops, t) ==
  LET inside(n) == {n} \cup Descendants(cy, n)
      near(n)   == UNION {Neighborhood(cy, k) : k \in inside(n)}
      step(C)   == C \cup {k \in tops : \E n \in C : inside(k) \cap near(n) # {}}
      reach[C \in SUBSET tops] == LET D == step(C) IN IF D = C THEN C ELSE reach[D]
  IN reach[{t}]

\* connectComponents on one level: one node of each component, which the
\* dummy of the level is to be joined to; none if there is one component.
ConnectComponents(cy, tops) ==
  LET components == {Component(cy, tops, t) : t \in tops}
  IN IF Cardinality(components) = 1 THEN {} ELSE {MinDegree(cy, C) : C \in components}

\* The levels: all nodes, then what is inside each compound node.
Levels(cy) == {Null} \cup {n \in NodesOf(cy) : IsParent(cy, n)}
LevelNodes(cy, l) == IF l = Null THEN NodesOf(cy) ELSE Descendants(cy, l)

\* Mutant: only the whole map is looked at, not the inside of a compound.
OuterLinks(cy) ==
  [l \in Levels(cy) |->
     IF l = Null THEN ConnectComponents(cy, TopMost(cy, LevelNodes(cy, l))) ELSE {}]

DummyLinks(cy) ==
  [l \in Levels(cy) |-> ConnectComponents(cy, TopMost(cy, LevelNodes(cy, l)))]

\* parentChildMap: a childless child, or one of the first child's; a node
\* without children stands for itself.
Representative(cy) ==
  LET down[k \in NodesOf(cy)] ==
        LET kids   == ChildList(cy, k)
            simple == {c \in ToSet(kids) : ~IsParent(cy, c)}
        IN IF ~IsParent(cy, k) THEN k
           ELSE IF simple # {} THEN MinDegree(cy, simple) ELSE down[kids[1]]
  IN down

\* nodeIndexes and allNodesNeighborhood: the vertices and who is next to whom.
Vertex(l) == <<"dummy", l>>

Transformed(cy) ==
  LET rep     == Representative(cy)
      links   == DummyLinks(cy)
      dummies == {l \in Levels(cy) : links[l] # {}}
      near    == {p \in NodesOf(cy) \X NodesOf(cy) : p[2] \in Neighborhood(cy, p[1])}
      real    == {<<rep[p[1]], rep[p[2]]>> : p \in near}
      joined  == UNION {{<<Vertex(l), rep[n]>> : n \in links[l]} : l \in dummies}
  IN [node |-> Leaves(cy) \cup {Vertex(l) : l \in dummies},
      edge |-> real \cup joined \cup {<<p[2], p[1]>> : p \in joined}]

(***************************************************************************)
(* BFS, and allBFS with the greedy sampling the default options ask for.   *)
(* Infinity is the distance of a vertex the search does not reach, for     *)
(* which the code leaves its matrix undefined.                             *)
(***************************************************************************)
Infinity(g) == Cardinality(g.node)

\* What a turn of the search adds to what it has found: all that is next to it.
Widened(g, found) == found \cup {p[2] : p \in {q \in g.edge : q[1] \in found}}

\* What is found after one turn, two turns, ...
Found(g, pivot) ==
  InTurn(LAMBDA found, d : Append(found, Widened(g, Last(found))),
         <<{pivot}>>, [d \in 1..(Infinity(g) - 1) |-> d])

\* A vertex is as far as the number of turns it takes to find it.
Distances(g, pivot) ==
  LET found == Found(g, pivot)
  IN [v \in g.node |-> Cardinality({i \in DOMAIN found : v \notin found[i]})]

\* The vertices farthest from those sampled so far; the code takes the
\* first of them by index, and index 1 when every distance is 0.
Farthest(g, sampled) ==
  LET dist == [s \in sampled |-> Distances(g, s)]
      gap  == [v \in g.node |-> Min({dist[s][v] : s \in sampled})]
      most == Max({gap[v] : v \in g.node})
  IN {v \in g.node : gap[v] = most}

\* Mutant: the farthest from the last sample only.
NextSampleLastOnly(g, samples) == CHOOSE v \in Farthest(g, {Last(samples)}) : TRUE

NextSample(g, samples) == CHOOSE v \in Farthest(g, ToSet(samples)) : TRUE

GreedySamples(g, first) ==
  LET size == Min({Cardinality(g.node), SampleSize})
  IN InTurn(LAMBDA s, k : Append(s, NextSample(g, s)), <<first>>, [k \in 1..(size - 1) |-> k])
================================================================================
