---------------------------- MODULE GraphViewProofs ----------------------------
(***************************************************************************)
(* Theorems about the connections map: what the builder returns, what the  *)
(* filter panel makes of it (GraphFilter) and what the browser shows       *)
(* (GraphView), for any inventory and any number of clicks, fades and      *)
(* visits to the page.                                                     *)
(***************************************************************************)
EXTENDS GraphView, TLAPS

(***************************************************************************)
(* What the map builder returns, for any inventory of any size and any     *)
(* selection of its servers.                                               *)
(***************************************************************************)

\* First picks a member of any set of servers that has one.
LEMMA FirstIsMember ==
  ASSUME NEW S \in SUBSET Servers, S # {},
         NEW rank, rank \in {ListRank, NameRank}
  PROVE  First(S, rank) \in S
<1>1. \E s \in S : \A t \in S \ {s} : rank[s] < rank[t]
  BY OrderAssumption
<1> QED  BY <1>1 DEF First

\* A service on the map is drawn in a visible server that runs it.
LEMMA HomeIsHost ==
  ASSUME NEW i \in Inventory, NEW vis \in SUBSET Servers,
         NEW v \in Shown(i, vis)
  PROVE  Home(i, vis, v) \in Hosts(i, v) \cap vis
<1>1. Hosts(i, v) \cap vis \in SUBSET Servers /\ Hosts(i, v) \cap vis # {}
  BY DEF Shown
<1> QED  BY <1>1, FirstIsMember DEF Home

\* The set of visible servers is a set of servers of the inventory, and only
\* grows with a selection that is not empty.
LEMMA VisibleServers ==
  ASSUME NEW i \in Inventory, NEW S, NEW b
  PROVE  /\ Visible(i, S, b) \subseteq i.servers
         /\ i.servers \subseteq Servers
BY DEF Visible, Related, Primary, Inventory

LEMMA VisibleGrows ==
  ASSUME NEW i \in Inventory, NEW S, NEW S2, NEW b,
         S # {}, S \subseteq S2 \/ S2 = {}
  PROVE  Visible(i, S, b) \subseteq Visible(i, S2, b)
<1>1. CASE S2 = {}
  BY <1>1, VisibleServers DEF Visible, Primary
<1>2. CASE S2 # {}
  <2>1. S \subseteq S2
    BY <1>2
  <2>2. Primary(i, S) \subseteq Primary(i, S2)
    BY <1>2, <2>1 DEF Primary
  <2>3. Related(i, S, b) \subseteq Primary(i, S2) \cup Related(i, S2, b)
    <3> SUFFICES ASSUME NEW s \in Related(i, S, b), s \notin Primary(i, S2)
                 PROVE  s \in Related(i, S2, b)
      OBVIOUS
    <3>1. b /\ s \in i.servers
      BY DEF Related
    <3>2. PICK k \in Conns :
            \/ SrcServer(i, k) \in Primary(i, S) /\ DstServer(i, k) = s
            \/ DstServer(i, k) \in Primary(i, S) /\ SrcServer(i, k) = s
      BY DEF Related
    <3> QED  BY <1>2, <2>2, <3>1, <3>2 DEF Related
  <2> QED  BY <2>2, <2>3 DEF Visible
<1> QED  BY <1>1, <1>2

LEMMA RelatedOnlyAdds ==
  ASSUME NEW i \in Inventory, NEW S
  PROVE  Visible(i, S, FALSE) \subseteq Visible(i, S, TRUE)
BY DEF Visible, Related

\* More visible servers, more elements.
LEMMA IdsGrow ==
  ASSUME NEW i \in Inventory, NEW S, NEW S2, NEW b, NEW b2,
         Visible(i, S, b) \subseteq Visible(i, S2, b2)
  PROVE  Ids(Build(i, S, b)) \subseteq Ids(Build(i, S2, b2))
<1> DEFINE vis == Visible(i, S, b)
           vis2 == Visible(i, S2, b2)
<1>1. Shown(i, vis) \subseteq Shown(i, vis2)
  BY DEF Shown
<1>2. ASSUME NEW k \in Conns, EdgeOf(i, vis, k) # NoEdge
      PROVE  EdgeOf(i, vis2, k) # NoEdge
  <2>1. InScope(i, vis, k)
    BY <1>2 DEF EdgeOf
  <2>2. InScope(i, vis2, k)
    BY <2>1 DEF InScope
  <2>3. SrcServer(i, k) # Null
    <3>1. SrcServer(i, k) \in Servers
      BY <2>1, VisibleServers DEF InScope
    <3> QED  BY <3>1, KeysAssumption
  <2>4. EndNode(i, vis2, SrcServer(i, k), i.conn[k].srcSvc) # Null
    BY <2>3, KeysAssumption DEF EndNode, Shown
  <2> QED  BY <2>2, <2>4 DEF EdgeOf, NoEdge
<1>3. EdgesOf(Build(i, S, b)) \subseteq EdgesOf(Build(i, S2, b2))
  BY <1>2 DEF EdgesOf, Build
<1> QED  BY <1>1, <1>3 DEF Ids, Build

\* A click that changes the selection one way, or the checkbox alone, changes
\* the map one way.
LEMMA ClickOneWay ==
  ASSUME NEW i \in Inventory, NEW S, NEW S2, NEW b \in BOOLEAN, NEW b2 \in BOOLEAN,
         \/ b2 = b /\ (S \subseteq S2 \/ S2 \subseteq S)
         \/ S2 = S
  PROVE  \/ Ids(Build(i, S, b)) \subseteq Ids(Build(i, S2, b2))
         \/ Ids(Build(i, S2, b2)) \subseteq Ids(Build(i, S, b))
<1>1. CASE b2 = b /\ S # {} /\ (S \subseteq S2 \/ S2 = {})
  BY <1>1, VisibleGrows, IdsGrow
<1>2. CASE b2 = b /\ S2 # {} /\ (S2 \subseteq S \/ S = {})
  BY <1>2, VisibleGrows, IdsGrow
<1>3. CASE S2 = S
  <2>1. b = b2 \/ (b = FALSE /\ b2 = TRUE) \/ (b = TRUE /\ b2 = FALSE)
    OBVIOUS
  <2>2. QED
    BY <1>3, <2>1, RelatedOnlyAdds, IdsGrow
<1>4. QED
  BY <1>1, <1>2, <1>3

--------------------------------------------------------------------------------
(***************************************************************************)
(* The elements.                                                           *)
(***************************************************************************)
LEMMA BuildFields ==
  ASSUME NEW i \in Inventory, NEW S, NEW b
  PROVE  /\ Build(i, S, b).nodes = Visible(i, S, b) \cup Shown(i, Visible(i, S, b))
         /\ Build(i, S, b).edge = [k \in Conns |-> EdgeOf(i, Visible(i, S, b), k)]
         /\ Build(i, S, b).parent = [v \in Services |->
              IF v \in Shown(i, Visible(i, S, b)) THEN Home(i, Visible(i, S, b), v) ELSE Null]
         /\ Build(i, S, b).dim = Related(i, S, b) \cup
              {v \in Shown(i, Visible(i, S, b)) : Home(i, Visible(i, S, b), v) \in Related(i, S, b)}
         /\ Build(i, S, b) = [nodes |-> Build(i, S, b).nodes, parent |-> Build(i, S, b).parent,
                              edge |-> Build(i, S, b).edge, dim |-> Build(i, S, b).dim]
BY DEF Build

\* Cytoscape can draw it.
LEMMA BuildGraph ==
  ASSUME NEW i \in Inventory, NEW S, NEW b, NEW g, g = Build(i, S, b)
  PROVE  /\ g \in Graph /\ g.dim \subseteq g.nodes /\ g.dim \cap Primary(i, S) = {}
         /\ \A k \in EdgesOf(g) : Ends(g.edge[k]) \subseteq g.nodes
         /\ \A v \in g.nodes \cap Services :
              /\ g.parent[v] \in g.nodes \cap Hosts(i, v)
              /\ v \in g.dim <=> g.parent[v] \in g.dim
         /\ \A v \in Services \ g.nodes : g.parent[v] = Null
<1> DEFINE vis == Visible(i, S, b)
           related == Related(i, S, b)
           shown == Shown(i, vis)
<1>1. /\ vis \subseteq i.servers /\ i.servers \subseteq Servers
      /\ shown \subseteq Services /\ shown \cap vis = {}
      /\ related \subseteq vis /\ related \cap Primary(i, S) = {} /\ Primary(i, S) \subseteq vis
  BY VisibleServers, KeysAssumption DEF Shown, Visible, Related
<1>2. /\ g.nodes = vis \cup shown
      /\ g.edge = [k \in Conns |-> EdgeOf(i, vis, k)]
      /\ g.parent = [v \in Services |-> IF v \in shown THEN Home(i, vis, v) ELSE Null]
      /\ g.dim = related \cup {v \in shown : Home(i, vis, v) \in related}
      /\ g = [nodes |-> g.nodes, parent |-> g.parent, edge |-> g.edge, dim |-> g.dim]
  BY BuildFields
<1>3. \A v \in shown : Home(i, vis, v) \in Hosts(i, v) \cap vis
  BY <1>1, HomeIsHost
<1> HIDE DEF vis, related, shown
<1>4. ASSUME NEW k \in Conns, EdgeOf(i, vis, k) # NoEdge
      PROVE  /\ EdgeOf(i, vis, k) \in g.nodes \X g.nodes
             /\ Ends(EdgeOf(i, vis, k)) \subseteq g.nodes
  <2>1. InScope(i, vis, k)
    BY <1>4 DEF EdgeOf
  <2>2. /\ EndNode(i, vis, SrcServer(i, k), i.conn[k].srcSvc) \in vis \cup shown
        /\ EndNode(i, vis, DstServer(i, k), i.conn[k].dstSvc) \in vis \cup shown
    BY <2>1 DEF InScope, EndNode, shown
  <2>3. QED
    BY <1>2, <2>1, <2>2 DEF EdgeOf, Ends
<1>5. \A k \in EdgesOf(g) : Ends(g.edge[k]) \subseteq g.nodes
  BY <1>2, <1>4 DEF EdgesOf
<1>6. ASSUME NEW v \in g.nodes \cap Services
      PROVE  /\ g.parent[v] \in g.nodes \cap Hosts(i, v)
             /\ v \in g.dim <=> g.parent[v] \in g.dim
  <2>1. v \in shown
    BY <1>1, <1>2, KeysAssumption
  <2>2. g.parent[v] = Home(i, vis, v) /\ g.parent[v] \in Hosts(i, v) \cap vis
    BY <1>2, <1>3, <2>1
  <2>3. v \in g.dim <=> Home(i, vis, v) \in related
    BY <1>1, <1>2, <2>1
  <2>4. Home(i, vis, v) \in g.dim <=> Home(i, vis, v) \in related
    BY <1>1, <1>2, <2>2
  <2>5. QED
    BY <1>2, <2>2, <2>3, <2>4
<1>7. \A v \in Services \ g.nodes : g.parent[v] = Null
  BY <1>2
<1>8. g \in Graph
  <2>1. g.nodes \subseteq Nodes /\ g.dim \subseteq g.nodes
    BY <1>1, <1>2 DEF Nodes
  <2>2. g.parent \in [Services -> Servers \cup {Null}]
    BY <1>1, <1>2, <1>3
  <2>3. g.edge \in [Conns -> (Nodes \X Nodes) \cup {NoEdge}]
    BY <1>2, <1>4, <2>1
  <2>4. QED
    BY <1>2, <2>1, <2>2, <2>3 DEF Graph
<1>9. g.dim \subseteq g.nodes /\ g.dim \cap Primary(i, S) = {}
  BY <1>1, <1>2
<1>10. QED
  BY <1>5, <1>6, <1>7, <1>8, <1>9

--------------------------------------------------------------------------------
(***************************************************************************)
(* Inventories with every service in one place.                            *)
(***************************************************************************)
\* The only host of a service on the map is visible, named or looked up.
LEMMA OnlyHostIsVisible ==
  ASSUME NEW i \in Inventory, NEW vis \in SUBSET Servers,
         NEW v \in Shown(i, vis), NEW srv,
         \A s, t \in Hosts(i, v) : s = t,
         srv = Null \/ srv \in Hosts(i, v)
  PROVE  EffectiveServer(i, srv, v) \in vis
<1>1. PICK h : h \in Hosts(i, v) \cap vis
  BY DEF Shown
<1>2. v # Null /\ Hosts(i, v) \in SUBSET Servers
  BY KeysAssumption DEF Shown, Hosts, Inventory
<1>3. CASE srv = Null
  <2>1. First(Hosts(i, v), ListRank) \in Hosts(i, v)
    BY <1>1, <1>2, FirstIsMember
  <2> QED  BY <1>1, <1>2, <1>3, <2>1 DEF EffectiveServer, ServiceToServer
<1>4. CASE srv # Null
  BY <1>1, <1>4 DEF EffectiveServer
<1> QED  BY <1>3, <1>4

\* Whether an edge ends at the service or at its server does not depend on
\* what else is visible.
LEMMA EndFixed ==
  ASSUME NEW i \in Inventory, NEW vis \in SUBSET i.servers,
         NEW srv \in Servers \cup {Null}, NEW svc \in Services \cup {Null},
         srv # Null /\ svc # Null => srv \in Hosts(i, svc),
         EffectiveServer(i, srv, svc) \in vis
  PROVE  EndNode(i, vis, EffectiveServer(i, srv, svc), svc) =
           EndNode(i, i.servers, EffectiveServer(i, srv, svc), svc)
<1>1. CASE svc = Null
  BY <1>1, KeysAssumption DEF EndNode, Shown
<1>2. CASE svc # Null
  <2>1. EffectiveServer(i, srv, svc) # Null /\ Hosts(i, svc) \in SUBSET Servers
    BY KeysAssumption DEF Inventory, Hosts
  <2>2. EffectiveServer(i, srv, svc) \in Hosts(i, svc)
    BY <1>2, <2>1, FirstIsMember DEF EffectiveServer, ServiceToServer
  <2>3. svc \in Shown(i, vis) /\ svc \in Shown(i, i.servers)
    BY <1>2, <2>2 DEF Shown
  <2>4. QED
    BY <2>3 DEF EndNode
<1>3. QED
  BY <1>1, <1>2

\* A connection has one place for its edge, on whichever maps it is.
LEMMA EdgeFixed ==
  ASSUME NEW i \in Inventory, WellPlaced(i), NEW vis \in SUBSET i.servers, NEW k \in Conns,
         EdgeOf(i, vis, k) # NoEdge
  PROVE  EdgeOf(i, i.servers, k) = EdgeOf(i, vis, k)
<1>1. InScope(i, vis, k) /\ InScope(i, i.servers, k)
  BY DEF EdgeOf, InScope
<1>2. i.conn[k] \in Conn
  BY <1>1 DEF Inventory, InScope
<1>3. EndNode(i, vis, SrcServer(i, k), i.conn[k].srcSvc) =
        EndNode(i, i.servers, SrcServer(i, k), i.conn[k].srcSvc)
  BY <1>1, <1>2, EndFixed DEF InScope, WellPlaced, SrcServer, Conn
<1>4. EndNode(i, vis, DstServer(i, k), i.conn[k].dstSvc) =
        EndNode(i, i.servers, DstServer(i, k), i.conn[k].dstSvc)
  BY <1>1, <1>2, EndFixed DEF InScope, WellPlaced, DstServer, Conn
<1>5. QED
  BY <1>1, <1>3, <1>4 DEF EdgeOf

--------------------------------------------------------------------------------
(***************************************************************************)
(* The filter panel: what the map builder guarantees under any filter, and *)
(* what one click changes.                                                 *)
(***************************************************************************)

(***************************************************************************)
(* The selection is always one of servers of the inventory.                *)
(***************************************************************************)
THEOREM TypeCorrect == FilterSpec => []FilterTypeOK
<1>1. FilterInit => FilterTypeOK
  BY DEF FilterInit, FilterTypeOK
<1>2. FilterTypeOK /\ [FilterNext]_filterVars => FilterTypeOK'
  BY DEF FilterTypeOK, FilterNext, filterVars, FilterAll, FilterNone, FilterToggle, FilterRelated
<1> QED  BY <1>1, <1>2, PTL DEF FilterSpec

(***************************************************************************)
(* Whatever is filtered, Cytoscape gets a graph it can draw.               *)
(***************************************************************************)
LEMMA BuildDrawable == FilterTypeOK => Drawable
BY BuildGraph DEF FilterTypeOK, Map, Drawable

\* Whatever is clicked, Cytoscape can draw what the page builds.
THEOREM AlwaysDrawable == FilterSpec => []Drawable
BY TypeCorrect, BuildDrawable, PTL

(***************************************************************************)
(* With every service in one place, no connection between two elements on  *)
(* the map is left out.                                                    *)
(***************************************************************************)
LEMMA BuildHidesNothing == FilterTypeOK => NothingHidden
<1> SUFFICES ASSUME FilterTypeOK, WellPlaced(inv), NEW k \in Conns,
                    inv.conn[k] # NoConn,
                    inv.conn[k].dstSvc \in Map.nodes,
                    IF inv.conn[k].srcSvc = Null THEN inv.conn[k].srcSrv \in Map.nodes
                    ELSE inv.conn[k].srcSvc \in Map.nodes
             PROVE  Map.edge[k] # NoEdge
  BY DEF NothingHidden
<1> DEFINE vis == Visible(inv, sel, show)
           row == inv.conn[k]
<1>1. /\ inv \in Inventory /\ vis \in SUBSET Servers
      /\ Map.nodes = vis \cup Shown(inv, vis)
      /\ Map.edge[k] = EdgeOf(inv, vis, k)
  BY VisibleServers DEF FilterTypeOK, Map, Build
<1>2. row \in Conn
  BY <1>1 DEF Inventory
<1>3. row.dstSvc \in Shown(inv, vis)
  BY <1>1, <1>2, KeysAssumption DEF Conn
<1>4. DstServer(inv, k) \in vis
  BY <1>1, <1>2, <1>3, OnlyHostIsVisible DEF DstServer, WellPlaced, Conn
<1>5. SrcServer(inv, k) \in vis
  <2>1. CASE row.srcSvc = Null
    <3>1. row.srcSrv \in vis /\ row.srcSrv # Null
      BY <1>1, <1>2, <2>1, KeysAssumption DEF Conn, Shown
    <3> QED  BY <3>1 DEF SrcServer, EffectiveServer
  <2>2. CASE row.srcSvc # Null
    <3>1. row.srcSvc \in Shown(inv, vis)
      BY <1>1, <1>2, <2>2, KeysAssumption DEF Conn
    <3> QED  BY <1>1, <1>2, <2>2, <3>1, OnlyHostIsVisible DEF SrcServer, WellPlaced, Conn
  <2> QED  BY <2>1, <2>2
<1>6. InScope(inv, vis, k)
  BY <1>4, <1>5 DEF InScope
<1>7. EndNode(inv, vis, SrcServer(inv, k), row.srcSvc) # Null
  BY <1>1, <1>5, KeysAssumption DEF EndNode, Shown
<1> QED  BY <1>1, <1>6, <1>7 DEF EdgeOf, NoEdge

\* No connection between two elements on the map is missing, if each service
\* is on one server.
THEOREM NeverHides == FilterSpec => []NothingHidden
BY TypeCorrect, BuildHidesNothing, PTL

(***************************************************************************)
(* One click only adds or only removes.                                    *)
(***************************************************************************)
THEOREM ClicksAreOneWay == FilterSpec => OneWay
<1> DEFINE Step == Ids(Map) \subseteq Ids(Map') \/ Ids(Map') \subseteq Ids(Map)
<1>1. FilterTypeOK /\ FilterNext => Step
  <2> SUFFICES ASSUME FilterTypeOK, FilterNext PROVE Step
    OBVIOUS
  <2>1. /\ inv \in Inventory /\ inv' = inv /\ sel \subseteq inv.servers
        /\ show \in BOOLEAN /\ show' \in BOOLEAN
    BY DEF FilterTypeOK, FilterNext, FilterAll, FilterNone, FilterToggle, FilterRelated
  <2>2. \/ show' = show /\ (sel \subseteq sel' \/ sel' \subseteq sel)
        \/ sel' = sel
    BY <2>1 DEF FilterNext, FilterAll, FilterNone, FilterToggle, FilterRelated
  <2>3. Map' = Build(inv, sel', show')
    BY <2>1 DEF Map
  <2> QED  BY <2>1, <2>2, <2>3, ClickOneWay DEF Map
<1>2. FilterTypeOK /\ [FilterNext]_filterVars => [Step]_filterVars
  BY <1>1
<1> QED  BY <1>2, TypeCorrect, PTL DEF FilterSpec, OneWay

--------------------------------------------------------------------------------
(***************************************************************************)
(* The page and the browser: the invariant.                                *)
(***************************************************************************)
IsJob(j) ==
  /\ j = [rem |-> j.rem, add |-> j.add, left |-> j.left]
  /\ j.rem \subseteq Nodes \cup Conns /\ j.add \in Graph

TypeOK ==
  /\ phase \in {"away", "settings", "shown"}
  /\ inv \in Inventory /\ (phase # "away" => inv \in Inventories)
  /\ sel \in SUBSET inv.servers /\ show \in BOOLEAN
  /\ cy \in Graph
  /\ \A j \in BagToSet(jobs) : IsJob(j)
  /\ phase # "shown" => calm = "edited"

\* Elements of the inventory i: a connection has one place for its edge, a
\* service one for its node, which it may have lost.
From(g, i) ==
  /\ \A k \in EdgesOf(g) : g.edge[k] = EdgeOf(i, i.servers, k)
  /\ \A v \in g.nodes \cap Services : g.parent[v] \in Hosts(i, v) \cup {Null}

\* What is on the screen, or on its way there, is from the inventory of this
\* visit.
Ours == From(cy, inv) /\ \A j \in BagToSet(jobs) : From(j.add, inv)

\* If no click has ever raced, the last one is done with, or what it left to
\* be removed is all that is missing.
Fresh ==
  /\ mode = "ok"
  /\ \/ jobs = EmptyBag /\ cy = Wanted
     \/ \E j \in BagToSet(jobs) : /\ jobs = SetToBag({j}) /\ j.add = EmptyGraph
                                  /\ Minus(cy, j.rem) = Wanted

\* If the last click met a map at rest, its fade is still to end, or has
\* ended and finds nothing to do in the calls that are left.
Settled ==
  \/ \E j \in BagToSet(jobs) : /\ jobs = SetToBag({j}) /\ j.rem = Ids(cy) \ Ids(Wanted)
                               /\ j.add = Part(Wanted, Ids(Wanted) \ Ids(cy))
  \/ /\ Ids(cy) = Ids(Wanted)
     /\ \A j \in BagToSet(jobs) : j.rem = {} /\ Ids(j.add) \subseteq Ids(Wanted)

IInv ==
  /\ TypeOK
  /\ phase = "shown" /\ WellPlaced(inv) =>
       /\ Ours
       /\ calm = "fresh" => Fresh
       /\ calm = "settled" /\ mode = "ok" => Settled
--------------------------------------------------------------------------------
(***************************************************************************)
(* Cytoscape's operations on any two graphs.                               *)
(***************************************************************************)
\* An id tells a node from an edge.
LEMMA Kinds == Nodes \cap Conns = {}
BY KeysAssumption DEF Nodes

LEMMA IdsSplit ==
  ASSUME NEW g \in Graph
  PROVE  /\ g.nodes = Ids(g) \cap Nodes
         /\ EdgesOf(g) = Ids(g) \cap Conns
         /\ g.nodes \subseteq Nodes /\ EdgesOf(g) \subseteq Conns
         /\ Ids(g) \subseteq Nodes \cup Conns
         /\ \A k \in Conns \ EdgesOf(g) : g.edge[k] = NoEdge
<1>1. g.nodes \subseteq Nodes /\ EdgesOf(g) \subseteq Conns
  BY DEF Graph, EdgesOf
<1>2. \A k \in Conns \ EdgesOf(g) : g.edge[k] = NoEdge
  BY DEF EdgesOf
<1>3. QED
  BY <1>1, <1>2, Kinds DEF Ids

LEMMA SameGraph ==
  ASSUME NEW g \in Graph, NEW h \in Graph,
         g.nodes = h.nodes, g.dim = h.dim,
         \A v \in Services : g.parent[v] = h.parent[v],
         \A k \in Conns : g.edge[k] = h.edge[k]
  PROVE  g = h
<1>1. g.parent = h.parent /\ g.edge = h.edge
  BY DEF Graph
<1>2. QED
  BY <1>1 DEF Graph

LEMMA PartFacts ==
  ASSUME NEW g \in Graph, NEW X
  PROVE  /\ Part(g, X) \in Graph
         /\ Ids(Part(g, X)) = Ids(g) \cap X
         /\ Part(g, X).nodes = g.nodes \cap X /\ Part(g, X).dim = g.dim \cap X
         /\ EdgesOf(Part(g, X)) = EdgesOf(g) \cap X
         /\ \A k \in Conns : Part(g, X).edge[k] = IF k \in X THEN g.edge[k] ELSE NoEdge
         /\ \A v \in Services : Part(g, X).parent[v] = IF v \in X THEN g.parent[v] ELSE Null
<1> DEFINE par == [v \in Services |-> IF v \in X THEN g.parent[v] ELSE Null]
           edg == [k \in Conns |-> IF k \in X THEN g.edge[k] ELSE NoEdge]
           p == Part(g, X)
<1>1. p = [nodes |-> g.nodes \cap X, parent |-> par, edge |-> edg, dim |-> g.dim \cap X]
  BY DEF Part
<1>2. par \in [Services -> Servers \cup {Null}] /\ edg \in [Conns -> (Nodes \X Nodes) \cup {NoEdge}]
  BY DEF Graph
<1>3. p \in Graph
  BY <1>1, <1>2 DEF Graph
<1>4. EdgesOf(p) = EdgesOf(g) \cap X
  BY <1>1 DEF EdgesOf
<1>5. QED
  BY <1>1, <1>3, <1>4 DEF Ids

LEMMA EmptyPart ==
  ASSUME NEW g \in Graph
  PROVE  Part(g, {}) = EmptyGraph
BY DEF Part, EmptyGraph

LEMMA EmptyFacts ==
  /\ EmptyGraph \in Graph /\ Ids(EmptyGraph) = {} /\ EdgesOf(EmptyGraph) = {}
  /\ EmptyGraph.nodes = {} /\ EmptyGraph.dim = {}
  /\ \A k \in Conns : EmptyGraph.edge[k] = NoEdge
BY DEF EmptyGraph, Graph, Ids, EdgesOf, NoEdge

LEMMA WithDataFacts ==
  ASSUME NEW g \in Graph, NEW new \in Graph
  PROVE  /\ WithData(g, new) \in Graph
         /\ Ids(WithData(g, new)) = Ids(g) /\ EdgesOf(WithData(g, new)) = EdgesOf(g)
         /\ WithData(g, new).nodes = g.nodes /\ WithData(g, new).edge = g.edge
         /\ WithData(g, new).parent = g.parent
         /\ WithData(g, new).dim = (g.dim \ new.nodes) \cup (new.dim \cap g.nodes)
<1>1. /\ WithData(g, new) \in Graph
      /\ WithData(g, new).nodes = g.nodes /\ WithData(g, new).edge = g.edge
      /\ WithData(g, new).parent = g.parent
      /\ WithData(g, new).dim = (g.dim \ new.nodes) \cup (new.dim \cap g.nodes)
  BY DEF WithData, Graph
<1>2. QED
  BY <1>1 DEF Ids, EdgesOf

LEMMA PlusFacts ==
  ASSUME NEW g \in Graph, NEW new \in Graph
  PROVE  /\ Plus(g, new) \in Graph
         /\ Ids(Plus(g, new)) = Ids(g) \cup Ids(new)
         /\ EdgesOf(Plus(g, new)) = EdgesOf(g) \cup EdgesOf(new)
         /\ Plus(g, new).nodes = g.nodes \cup new.nodes
         /\ Plus(g, new).dim = g.dim \cup (new.dim \cap (new.nodes \ g.nodes))
         /\ \A k \in Conns : Plus(g, new).edge[k] =
              IF g.edge[k] # NoEdge THEN g.edge[k] ELSE new.edge[k]
         /\ \A v \in Services : Plus(g, new).parent[v] =
              IF v \notin new.nodes \ g.nodes THEN g.parent[v]
              ELSE IF new.parent[v] \in g.nodes \cup new.nodes THEN new.parent[v] ELSE Null
<1> DEFINE par == [v \in Services |-> IF v \notin new.nodes \ g.nodes THEN g.parent[v]
                                      ELSE IF new.parent[v] \in g.nodes \cup new.nodes
                                      THEN new.parent[v] ELSE Null]
           edg == [k \in Conns |-> IF g.edge[k] # NoEdge THEN g.edge[k] ELSE new.edge[k]]
           p == Plus(g, new)
<1>1. p = [nodes |-> g.nodes \cup new.nodes, parent |-> par, edge |-> edg,
           dim |-> g.dim \cup (new.dim \cap (new.nodes \ g.nodes))]
  BY DEF Plus
<1>2. par \in [Services -> Servers \cup {Null}]
  BY DEF Graph
<1>3. edg \in [Conns -> (Nodes \X Nodes) \cup {NoEdge}]
  BY DEF Graph
<1>4. p \in Graph
  BY <1>1, <1>2, <1>3 DEF Graph
<1>5. EdgesOf(p) = EdgesOf(g) \cup EdgesOf(new)
  BY <1>1 DEF EdgesOf
<1>6. QED
  BY <1>1, <1>4, <1>5 DEF Ids

LEMMA PlusEmpty ==
  ASSUME NEW g \in Graph
  PROVE  CanAdd(g, EmptyGraph) /\ Plus(g, EmptyGraph) = g
<1> DEFINE p == Plus(g, EmptyGraph)
<1>1. /\ p \in Graph /\ p.nodes = g.nodes /\ p.dim = g.dim
      /\ \A k \in Conns : p.edge[k] = g.edge[k]
      /\ \A v \in Services : p.parent[v] = g.parent[v]
  <2> DEFINE e == EmptyGraph
  <2>1. /\ e \in Graph /\ e.nodes = {} /\ e.dim = {} /\ \A k \in Conns : e.edge[k] = NoEdge
    BY EmptyFacts
  <2> HIDE DEF e
  <2>2. /\ Plus(g, e) \in Graph
        /\ Plus(g, e).nodes = g.nodes \cup e.nodes /\ Plus(g, e).dim = g.dim \cup e.dim
    BY <2>1, PlusFacts
  <2>3. \A k \in Conns : Plus(g, e).edge[k] = g.edge[k]
    BY <2>1, PlusFacts
  <2>4. \A v \in Services : Plus(g, e).parent[v] = g.parent[v]
    BY <2>1, PlusFacts
  <2>5. QED
    BY <2>1, <2>2, <2>3, <2>4 DEF e
<1>2. CanAdd(g, EmptyGraph)
  BY EmptyFacts DEF CanAdd
<1>3. QED
  BY <1>1, <1>2, SameGraph

\* What remove() leaves, for any set of ids.
Kept(g, X) ==
  LET gone == (g.nodes \cap X) \cup {v \in g.nodes \cap Services : g.parent[v] \in X}
  IN (Ids(g) \ (X \cup gone)) \ {k \in EdgesOf(g) : Ends(g.edge[k]) \cap gone # {}}

LEMMA MinusFacts ==
  ASSUME NEW g \in Graph, NEW X
  PROVE  /\ Minus(g, X) = Part(g, Kept(g, X)) /\ Minus(g, X) \in Graph
         /\ Ids(Minus(g, X)) = Kept(g, X)
<1>1. Kept(g, X) \subseteq Ids(g)
  BY DEF Kept
<1>2. Minus(g, X) = Part(g, Kept(g, X))
  BY DEF Minus, Kept
<1>3. /\ Part(g, Kept(g, X)) \in Graph
      /\ Ids(Part(g, Kept(g, X))) = Ids(g) \cap Kept(g, X)
  BY PartFacts
<1>4. QED
  BY <1>1, <1>2, <1>3

\* What is missing of a graph that can be drawn can always be added.
\* add() leaves a graph behind when it throws, too, and no node it put in has
\* a compound node.
LEMMA HalfwayFacts ==
  ASSUME NEW g \in Graph, NEW new \in Graph, NEW X
  PROVE  \E h \in Graph : /\ Halfway(g, new, X) = Plus(g, h)
                          /\ \A k \in EdgesOf(h) : h.edge[k] = new.edge[k] /\ k \in EdgesOf(new)
                          /\ \A v \in Services : h.parent[v] = Null
<1> DEFINE part == Part(new, new.nodes \cup X)
           h == [part EXCEPT !.parent = EmptyGraph.parent]
<1>1. /\ part \in Graph
      /\ EdgesOf(part) \subseteq EdgesOf(new)
      /\ \A k \in EdgesOf(part) : part.edge[k] = new.edge[k]
  BY PartFacts DEF EdgesOf
<1>2. EmptyGraph.parent \in [Services -> Servers \cup {Null}]
      /\ \A v \in Services : EmptyGraph.parent[v] = Null
  BY DEF EmptyGraph
<1> HIDE DEF part
<1>3. h \in Graph /\ h.edge = part.edge /\ h.parent = EmptyGraph.parent
  BY <1>1, <1>2 DEF Graph
<1>4. Halfway(g, new, X) = Plus(g, h)
  BY DEF Halfway, part
<1> HIDE DEF h
<1>5. EdgesOf(h) = EdgesOf(part)
  BY <1>3 DEF EdgesOf
<1>6. QED
  BY <1>1, <1>2, <1>3, <1>4, <1>5

LEMMA CanAddMissing ==
  ASSUME NEW g \in Graph, NEW new \in Graph,
         \A k \in EdgesOf(new) : Ends(new.edge[k]) \subseteq new.nodes
  PROVE  /\ CanAdd(g, Part(new, Ids(new) \ Ids(g)))
         /\ Ids(Plus(g, Part(new, Ids(new) \ Ids(g)))) = Ids(g) \cup Ids(new)
<1> DEFINE add == Part(new, Ids(new) \ Ids(g))
<1>1. /\ add \in Graph /\ Ids(add) = Ids(new) \ Ids(g)
      /\ add.nodes = new.nodes \cap (Ids(new) \ Ids(g))
      /\ EdgesOf(add) \subseteq EdgesOf(new)
      /\ \A k \in EdgesOf(add) : add.edge[k] = new.edge[k]
  BY PartFacts DEF EdgesOf
<1> HIDE DEF add
<1>2. new.nodes \subseteq g.nodes \cup add.nodes
  BY <1>1, IdsSplit
<1>3. CanAdd(g, add)
  BY <1>1, <1>2 DEF CanAdd
<1>4. Ids(Plus(g, add)) = Ids(g) \cup Ids(new)
  BY <1>1, PlusFacts
<1>5. QED
  BY <1>3, <1>4 DEF add

--------------------------------------------------------------------------------
(***************************************************************************)
(* Graphs whose elements are of one inventory.                             *)
(***************************************************************************)
LEMMA FromBuild ==
  ASSUME NEW i \in Inventory, WellPlaced(i), NEW S, NEW b
  PROVE  From(Build(i, S, b), i)
<1> DEFINE g == Build(i, S, b)
<1>1. Visible(i, S, b) \in SUBSET i.servers
  BY VisibleServers
<1>2. \A k \in EdgesOf(g) : g.edge[k] = EdgeOf(i, Visible(i, S, b), k)
  <2>1. g.edge = [k \in Conns |-> EdgeOf(i, Visible(i, S, b), k)]
    BY DEF Build
  <2> HIDE DEF g
  <2>2. QED
    BY <2>1 DEF EdgesOf
<1>3. \A v \in g.nodes \cap Services : g.parent[v] \in Hosts(i, v)
  BY BuildGraph
<1> HIDE DEF g
<1>4. \A k \in EdgesOf(g) : g.edge[k] = EdgeOf(i, i.servers, k)
  BY <1>1, <1>2, EdgeFixed DEF EdgesOf
<1>5. QED
  BY <1>3, <1>4 DEF From, g

LEMMA FromPart ==
  ASSUME NEW i \in Inventory, NEW g \in Graph, From(g, i), NEW X
  PROVE  From(Part(g, X), i)
<1> DEFINE p == Part(g, X)
<1>1. /\ p.nodes \subseteq g.nodes /\ EdgesOf(p) \subseteq EdgesOf(g)
      /\ \A k \in EdgesOf(p) : p.edge[k] = g.edge[k]
      /\ \A v \in Services : p.parent[v] \in {g.parent[v], Null}
  <2>1. p.nodes = g.nodes \cap X
    BY PartFacts
  <2>2. EdgesOf(p) = EdgesOf(g) \cap X
    BY PartFacts
  <2>3. \A k \in Conns : p.edge[k] = IF k \in X THEN g.edge[k] ELSE NoEdge
    BY PartFacts
  <2>4. \A v \in Services : p.parent[v] = IF v \in X THEN g.parent[v] ELSE Null
    BY PartFacts
  <2>5. QED
    BY <2>1, <2>2, <2>3, <2>4 DEF EdgesOf
<1> HIDE DEF p
<1>2. QED
  BY <1>1 DEF From, p

LEMMA FromPlus ==
  ASSUME NEW i \in Inventory, NEW g \in Graph, From(g, i), NEW new \in Graph, From(new, i)
  PROVE  From(Plus(g, new), i)
<1> DEFINE p == Plus(g, new)
<1>1. p.nodes = g.nodes \cup new.nodes
  BY PlusFacts
<1>2. EdgesOf(p) = EdgesOf(g) \cup EdgesOf(new)
  BY PlusFacts
<1>3. \A k \in Conns : p.edge[k] = IF g.edge[k] # NoEdge THEN g.edge[k] ELSE new.edge[k]
  BY PlusFacts
<1>4. \A v \in Services : p.parent[v] =
        IF v \notin new.nodes \ g.nodes THEN g.parent[v]
        ELSE IF new.parent[v] \in g.nodes \cup new.nodes THEN new.parent[v] ELSE Null
  BY PlusFacts
<1> HIDE DEF p
<1>5. \A k \in EdgesOf(p) : p.edge[k] = EdgeOf(i, i.servers, k)
  BY <1>2, <1>3 DEF From, EdgesOf
<1>6. \A v \in p.nodes \cap Services : p.parent[v] \in Hosts(i, v) \cup {Null}
  BY <1>1, <1>4 DEF From
<1>7. QED
  BY <1>5, <1>6 DEF From, p

LEMMA FromWithData ==
  ASSUME NEW i \in Inventory, NEW g \in Graph, From(g, i), NEW new \in Graph
  PROVE  From(WithData(g, new), i)
BY WithDataFacts DEF From

LEMMA FromMinus ==
  ASSUME NEW i \in Inventory, NEW g \in Graph, From(g, i), NEW X
  PROVE  From(Minus(g, X), i)
BY MinusFacts, FromPart

\* Taking off the map what a click no longer wants takes nothing else along.
LEMMA OnlyTheRest ==
  ASSUME NEW i \in Inventory, WellPlaced(i), NEW S, NEW b, NEW new, new = Build(i, S, b),
         NEW g \in Graph, From(g, i)
  PROVE  Ids(Minus(g, Ids(g) \ Ids(new))) = Ids(g) \cap Ids(new)
<1> DEFINE rem == Ids(g) \ Ids(new)
           gone == (g.nodes \cap rem) \cup {v \in g.nodes \cap Services : g.parent[v] \in rem}
<1>1. /\ new \in Graph /\ From(new, i)
      /\ \A k \in EdgesOf(new) : Ends(new.edge[k]) \subseteq new.nodes
      /\ \A v \in new.nodes \cap Services : new.parent[v] \in new.nodes \cap Hosts(i, v)
  BY BuildGraph, FromBuild
<1>2. /\ new.nodes = Ids(new) \cap Nodes /\ EdgesOf(new) = Ids(new) \cap Conns
      /\ g.nodes = Ids(g) \cap Nodes /\ EdgesOf(g) = Ids(g) \cap Conns
  BY <1>1, IdsSplit
<1>3. ASSUME NEW v \in g.nodes \cap Services, g.parent[v] \in rem
      PROVE  v \in rem
  <2>1. SUFFICES ASSUME v \in new.nodes PROVE FALSE
    BY <1>2
  <2>2. g.parent[v] \in Hosts(i, v) /\ new.parent[v] \in Hosts(i, v)
    <3>1. g.parent[v] # Null
      BY <1>2, <1>3, KeysAssumption DEF Ids, EdgesOf, Nodes
    <3>2. QED
      BY <1>1, <2>1, <3>1 DEF From
  <2>3. g.parent[v] = new.parent[v]
    BY <2>2 DEF WellPlaced
  <2>4. QED
    BY <1>1, <1>2, <1>3, <2>1, <2>3 DEF Ids
<1>4. gone \subseteq rem
  BY <1>3
<1>5. ASSUME NEW k \in EdgesOf(g), k \in Ids(new)
      PROVE  Ends(g.edge[k]) \cap gone = {}
  <2>1. k \in EdgesOf(new)
    BY <1>2, <1>5
  <2>2. g.edge[k] = new.edge[k]
    BY <1>1, <1>5, <2>1 DEF From
  <2>3. Ends(g.edge[k]) \subseteq Ids(new)
    BY <1>1, <1>2, <2>1, <2>2
  <2>4. QED
    BY <1>4, <2>3
<1>6. Kept(g, rem) = (Ids(g) \ (rem \cup gone)) \ {k \in EdgesOf(g) : Ends(g.edge[k]) \cap gone # {}}
  BY DEF Kept
<1> HIDE DEF gone
<1>7. Kept(g, rem) = Ids(g) \cap Ids(new)
  BY <1>4, <1>5, <1>6
<1> HIDE DEF rem
<1>8. Ids(Minus(g, rem)) = Kept(g, rem)
  BY MinusFacts
<1>9. QED
  BY <1>7, <1>8 DEF rem

\* Of two maps of one inventory, what is on both is drawn the same way, but
\* for what is dimmed.
LEMMA SameElements ==
  ASSUME NEW i \in Inventory, WellPlaced(i), NEW S, NEW b, NEW S2, NEW b2,
         NEW old, old = Build(i, S, b), NEW new, new = Build(i, S2, b2)
  PROVE  /\ \A k \in EdgesOf(old) \cap EdgesOf(new) : old.edge[k] = new.edge[k]
         /\ \A v \in Services : v \in old.nodes \cap new.nodes => old.parent[v] = new.parent[v]
<1>1. From(old, i) /\ From(new, i)
  BY FromBuild
<1>2. /\ \A v \in old.nodes \cap Services : old.parent[v] \in Hosts(i, v)
      /\ \A v \in new.nodes \cap Services : new.parent[v] \in Hosts(i, v)
  BY BuildGraph
<1>3. QED
  BY <1>1, <1>2 DEF From, WellPlaced

--------------------------------------------------------------------------------
(***************************************************************************)
(* A click on a map that shows what the click before it wanted.            *)
(***************************************************************************)
LEMMA ClickAdds ==
  ASSUME NEW i \in Inventory, WellPlaced(i), NEW S, NEW b, NEW S2, NEW b2,
         NEW old, old = Build(i, S, b), NEW new, new = Build(i, S2, b2),
         Ids(old) \subseteq Ids(new)
  PROVE  Plus(WithData(old, new), Part(new, Ids(new) \ Ids(old))) = new
<1> DEFINE now == WithData(old, new)
           add == Part(new, Ids(new) \ Ids(old))
           p == Plus(now, add)
<1>1. /\ old \in Graph /\ old.dim \subseteq old.nodes
      /\ new \in Graph /\ new.dim \subseteq new.nodes
      /\ \A v \in new.nodes \cap Services : new.parent[v] \in new.nodes
      /\ \A v \in Services \ old.nodes : old.parent[v] = Null
      /\ \A v \in Services \ new.nodes : new.parent[v] = Null
  BY BuildGraph
<1>2. /\ new.nodes = Ids(new) \cap Nodes /\ EdgesOf(new) = Ids(new) \cap Conns
      /\ old.nodes = Ids(old) \cap Nodes /\ EdgesOf(old) = Ids(old) \cap Conns
      /\ \A k \in Conns \ EdgesOf(old) : old.edge[k] = NoEdge
      /\ \A k \in Conns \ EdgesOf(new) : new.edge[k] = NoEdge
      /\ new.nodes \subseteq Nodes
  BY <1>1, IdsSplit
<1>3. /\ now \in Graph /\ now.nodes = old.nodes /\ now.edge = old.edge
      /\ now.parent = old.parent
      /\ now.dim = (old.dim \ new.nodes) \cup (new.dim \cap old.nodes)
  BY <1>1, WithDataFacts
<1>4. /\ add \in Graph
      /\ add.nodes = new.nodes \cap (Ids(new) \ Ids(old))
      /\ add.dim = new.dim \cap (Ids(new) \ Ids(old))
      /\ \A k \in Conns : add.edge[k] = IF k \in Ids(new) \ Ids(old) THEN new.edge[k] ELSE NoEdge
      /\ \A v \in Services : add.parent[v] = IF v \in Ids(new) \ Ids(old) THEN new.parent[v] ELSE Null
  BY <1>1, PartFacts
<1> HIDE DEF now, add
<1>5. /\ p \in Graph /\ p.nodes = now.nodes \cup add.nodes /\ p.dim = now.dim \cup add.dim
      /\ \A k \in Conns : p.edge[k] = IF now.edge[k] # NoEdge THEN now.edge[k] ELSE add.edge[k]
      /\ \A v \in Services : p.parent[v] =
           IF v \notin add.nodes THEN now.parent[v]
           ELSE IF add.parent[v] \in now.nodes \cup add.nodes THEN add.parent[v] ELSE Null
  <2>1. /\ p \in Graph /\ p.nodes = now.nodes \cup add.nodes
        /\ p.dim = now.dim \cup (add.dim \cap (add.nodes \ now.nodes))
        /\ \A k \in Conns : p.edge[k] = IF now.edge[k] # NoEdge THEN now.edge[k] ELSE add.edge[k]
        /\ \A v \in Services : p.parent[v] =
             IF v \notin add.nodes \ now.nodes THEN now.parent[v]
             ELSE IF add.parent[v] \in now.nodes \cup add.nodes THEN add.parent[v] ELSE Null
    BY <1>3, <1>4, PlusFacts
  <2>2. add.nodes \ now.nodes = add.nodes
    BY <1>2, <1>3, <1>4
  <2>3. add.dim \subseteq add.nodes
    BY <1>1, <1>2, <1>4
  <2>4. QED
    BY <2>1, <2>2, <2>3
<1> HIDE DEF p
<1>6. old.nodes \subseteq new.nodes /\ EdgesOf(old) \subseteq EdgesOf(new)
  BY <1>2
<1>7. p.nodes = new.nodes
  BY <1>2, <1>3, <1>4, <1>5, <1>6
<1>8. p.dim = new.dim
  <2>1. now.dim = new.dim \cap old.nodes
    BY <1>1, <1>3, <1>6
  <2>2. add.dim = new.dim \ old.nodes
    BY <1>1, <1>2, <1>4
  <2>3. QED
    BY <1>5, <2>1, <2>2
<1>9. \A k \in Conns : p.edge[k] = new.edge[k]
  <2>1. \A k \in EdgesOf(old) : old.edge[k] = new.edge[k]
    BY <1>6, SameElements
  <2>2. QED
    BY <1>2, <1>3, <1>4, <1>5, <2>1
<1>10. ASSUME NEW v \in Services
       PROVE  p.parent[v] = new.parent[v]
  <2>1. CASE v \in add.nodes
    <3>1. v \in new.nodes /\ v \in Ids(new) \ Ids(old)
      BY <1>4, <2>1
    <3>2. add.parent[v] = new.parent[v] /\ new.parent[v] \in now.nodes \cup add.nodes
      BY <1>1, <1>4, <1>5, <1>7, <3>1
    <3>3. QED
      BY <1>5, <2>1, <3>2
  <2>2. CASE v \notin add.nodes
    <3>1. p.parent[v] = old.parent[v]
      BY <1>3, <1>5, <2>2
    <3>2. v \in old.nodes <=> v \in new.nodes
      BY <1>3, <1>5, <1>6, <1>7, <2>2
    <3>3. QED
      BY <1>1, <3>1, <3>2, SameElements
  <2>3. QED
    BY <2>1, <2>2
<1>11. p = new
  BY <1>1, <1>5, <1>7, <1>8, <1>9, <1>10, SameGraph
<1>12. QED
  BY <1>11 DEF p, now, add

LEMMA ClickRemoves ==
  ASSUME NEW i \in Inventory, WellPlaced(i), NEW S, NEW b, NEW S2, NEW b2,
         NEW old, old = Build(i, S, b), NEW new, new = Build(i, S2, b2),
         Ids(new) \subseteq Ids(old)
  PROVE  Minus(WithData(old, new), Ids(old) \ Ids(new)) = new
<1> DEFINE now == WithData(old, new)
           m == Minus(now, Ids(old) \ Ids(new))
<1>1. /\ old \in Graph /\ old.dim \subseteq old.nodes
      /\ new \in Graph /\ new.dim \subseteq new.nodes
      /\ \A v \in Services \ new.nodes : new.parent[v] = Null
  BY BuildGraph
<1>2. /\ new.nodes = Ids(new) \cap Nodes /\ EdgesOf(new) = Ids(new) \cap Conns
      /\ old.nodes = Ids(old) \cap Nodes /\ EdgesOf(old) = Ids(old) \cap Conns
      /\ \A k \in Conns \ EdgesOf(new) : new.edge[k] = NoEdge
      /\ new.nodes \subseteq Nodes
  BY <1>1, IdsSplit
<1>3. /\ now \in Graph /\ now.nodes = old.nodes /\ now.edge = old.edge
      /\ now.parent = old.parent /\ Ids(now) = Ids(old)
      /\ now.dim = (old.dim \ new.nodes) \cup (new.dim \cap old.nodes)
  BY <1>1, WithDataFacts
<1>4. From(now, i)
  BY <1>1, FromBuild, FromWithData
<1> HIDE DEF now
<1>5. Ids(m) = Ids(new)
  <2>1. Ids(Minus(now, Ids(now) \ Ids(new))) = Ids(now) \cap Ids(new)
    BY <1>3, <1>4, OnlyTheRest
  <2>2. QED
    BY <1>3, <2>1
<1>6. m = Part(now, Ids(new))
  BY <1>3, <1>5, MinusFacts
<1>7. /\ m \in Graph /\ m.nodes = now.nodes \cap Ids(new) /\ m.dim = now.dim \cap Ids(new)
      /\ \A k \in Conns : m.edge[k] = IF k \in Ids(new) THEN now.edge[k] ELSE NoEdge
      /\ \A v \in Services : m.parent[v] = IF v \in Ids(new) THEN now.parent[v] ELSE Null
  <2> DEFINE X == Ids(new)
             q == Part(now, X)
  <2> HIDE DEF X, m
  <2>1. q \in Graph /\ q.nodes = now.nodes \cap X /\ q.dim = now.dim \cap X
    BY <1>3, PartFacts
  <2>2. /\ \A k \in Conns : q.edge[k] = IF k \in X THEN now.edge[k] ELSE NoEdge
        /\ \A v \in Services : q.parent[v] = IF v \in X THEN now.parent[v] ELSE Null
    BY <1>3, PartFacts
  <2> HIDE DEF q
  <2>3. m = q
    BY <1>6 DEF q, X
  <2>4. QED
    BY <2>1, <2>2, <2>3 DEF X
<1> HIDE DEF m
<1>8. new.nodes \subseteq old.nodes /\ EdgesOf(new) \subseteq EdgesOf(old)
  BY <1>2
<1>9. m.nodes = new.nodes
  BY <1>2, <1>3, <1>7, <1>8
<1>10. m.dim = new.dim
  <2>1. new.dim \subseteq Ids(new) /\ new.dim \subseteq old.nodes
    BY <1>1, <1>2, <1>8
  <2>2. (old.dim \ new.nodes) \cap Ids(new) = {}
    BY <1>1, <1>2
  <2>3. QED
    BY <1>3, <1>7, <2>1, <2>2
<1>11. \A k \in Conns : m.edge[k] = new.edge[k]
  <2>1. \A k \in EdgesOf(new) : old.edge[k] = new.edge[k]
    BY <1>8, SameElements
  <2>2. QED
    BY <1>2, <1>3, <1>7, <2>1
<1>12. \A v \in Services : m.parent[v] = new.parent[v]
  <2>1. \A v \in Services : v \in new.nodes => old.parent[v] = new.parent[v]
    BY <1>8, SameElements
  <2>2. \A v \in Services : v \in Ids(new) <=> v \in new.nodes
    BY <1>2 DEF Nodes
  <2>3. QED
    BY <1>1, <1>3, <1>7, <2>1, <2>2
<1>13. m = new
  BY <1>1, <1>7, <1>9, <1>10, <1>11, <1>12, SameGraph
<1>14. QED
  BY <1>13 DEF m, now

--------------------------------------------------------------------------------
(***************************************************************************)
(* Bags of fades.                                                          *)
(***************************************************************************)
LEMMA AddToBag ==
  ASSUME NEW B, NEW x
  PROVE  BagToSet(BagAdd(B, x)) = BagToSet(B) \cup {x}
BY DEF BagToSet, BagAdd

LEMMA RemoveFromBag ==
  ASSUME NEW B, NEW x
  PROVE  BagToSet(BagRemove(B, x)) \subseteq BagToSet(B)
BY DEF BagToSet, BagRemove

LEMMA OneInBag ==
  ASSUME NEW x
  PROVE  /\ BagAdd(EmptyBag, x) = SetToBag({x}) /\ BagRemove(SetToBag({x}), x) = EmptyBag
         /\ BagToSet(SetToBag({x})) = {x} /\ BagToSet(EmptyBag) = {}
BY DEF BagAdd, BagRemove, BagToSet, SetToBag, EmptyBag

LEMMA ForgetFacts ==
  ASSUME NEW B, NEW X
  PROVE  /\ BagToSet(Forget(B, X)) = {[j EXCEPT !.rem = @ \ X] : j \in BagToSet(B)}
         /\ Forget(EmptyBag, X) = EmptyBag
BY DEF Forget, BagOfAll, BagToSet, SetToBag, EmptyBag

LEMMA BuiltIs ==
  ASSUME NEW i \in Inventories, NEW S \in SUBSET Servers, NEW b \in BOOLEAN
  PROVE  Built[i][S][b] = Build(i, S, b)
BY DEF Built

LEMMA NothingIsFrom ==
  ASSUME NEW i
  PROVE  From(EmptyGraph, i)
BY EmptyFacts DEF From

\* What a fade is to do survives a change of its remaining calls.
LEMMA JobParts ==
  ASSUME NEW j, IsJob(j), NEW X
  PROVE  /\ IsJob([j EXCEPT !.rem = @ \ X])
         /\ [j EXCEPT !.rem = @ \ X].rem = j.rem \ X /\ [j EXCEPT !.rem = @ \ X].add = j.add
         /\ IsJob([j EXCEPT !.left = @ - 1])
         /\ [j EXCEPT !.left = @ - 1].rem = j.rem /\ [j EXCEPT !.left = @ - 1].add = j.add
BY DEF IsJob

LEMMA JobsForget ==
  ASSUME NEW B, NEW X, \A j \in BagToSet(B) : IsJob(j)
  PROVE  \A a \in BagToSet(Forget(B, X)) : /\ IsJob(a)
           /\ \E j \in BagToSet(B) : a.rem = j.rem \ X /\ a.add = j.add
<1>1. SUFFICES ASSUME NEW a \in BagToSet(Forget(B, X))
               PROVE  IsJob(a) /\ \E j \in BagToSet(B) : a.rem = j.rem \ X /\ a.add = j.add
  OBVIOUS
<1>2. PICK j \in BagToSet(B) : a = [j EXCEPT !.rem = @ \ X]
  BY ForgetFacts
<1>3. IsJob(j)
  OBVIOUS
<1> DEFINE e == [j EXCEPT !.rem = @ \ X]
<1>4. IsJob(e) /\ e.rem = j.rem \ X /\ e.add = j.add
  BY <1>3, JobParts
<1> HIDE DEF e
<1>5. a = e
  BY <1>2 DEF e
<1>6. QED
  BY <1>4, <1>5

--------------------------------------------------------------------------------
(***************************************************************************)
(* The steps.                                                              *)
(***************************************************************************)
LEMMA PageTypes ==
  ASSUME TypeOK, phase # "away", NEW S \in SUBSET inv.servers, NEW b \in BOOLEAN
  PROVE  /\ inv \in Inventories /\ inv \in Inventory /\ S \in SUBSET Servers
         /\ Built[inv][S][b] = Build(inv, S, b)
<1>1. inv \in Inventories /\ inv \in Inventory
  BY DEF TypeOK
<1>2. S \in SUBSET Servers
  BY <1>1, VisibleServers
<1>3. QED
  BY <1>1, <1>2, BuiltIs

LEMMA HandlerKeeps ==
  ASSUME IInv, NEW newSel \in SUBSET inv.servers, NEW newShow \in BOOLEAN,
         \/ newShow = show /\ (sel \subseteq newSel \/ newSel \subseteq sel)
         \/ newSel = sel,
         Handler(newSel, newShow)
  PROVE  IInv'
<1> DEFINE new == Build(inv, newSel, newShow)
           now == WithData(cy, new)
           rem == Ids(cy) \ Ids(new)
           add == Part(new, Ids(new) \ Ids(cy))
           job == [rem |-> rem, add |-> add, left |-> Cardinality(rem)]
<1>1. /\ TypeOK /\ phase \in {"settings", "shown"} /\ inv \in Inventory /\ inv \in Inventories
      /\ Built[inv][newSel][newShow] = new /\ Wanted = Build(inv, sel, show)
      /\ sel' = newSel /\ show' = newShow /\ inv' = inv
      /\ JsUpdate(new)
  BY PageTypes DEF IInv, TypeOK, Handler, Wanted
<1>2. Wanted' = new
  BY <1>1 DEF Wanted
<1>3. /\ new \in Graph
      /\ \A k \in EdgesOf(new) : Ends(new.edge[k]) \subseteq new.nodes
      /\ WellPlaced(inv) => From(new, inv)
  BY <1>1, BuildGraph, FromBuild
<1>4. cy \in Graph
  BY <1>1 DEF TypeOK
<1>5. CASE mode = "none"
  <2>1. UNCHANGED <<cy, mode, jobs, calm, phase>>
    BY <1>1, <1>5 DEF JsUpdate
  <2>2. TypeOK'
    BY <1>1, <2>1 DEF TypeOK
  <2>3. calm # "fresh" \/ phase # "shown" \/ ~WellPlaced(inv)
    BY <1>5 DEF IInv, Fresh
  <2>4. Ours => Ours'
    BY <1>1, <2>1 DEF Ours
  <2>5. QED
    BY <1>1, <1>5, <2>1, <2>2, <2>3, <2>4 DEF IInv
<1>6. CASE mode # "none"
  <2>1. /\ now \in Graph /\ Ids(now) = Ids(cy)
        /\ add \in Graph /\ Ids(add) = Ids(new) \ Ids(cy)
        /\ rem \subseteq Nodes \cup Conns
    BY <1>3, <1>4, WithDataFacts, PartFacts, IdsSplit
  <2>2. CanAdd(now, add) /\ Ids(Plus(now, add)) = Ids(cy) \cup Ids(new)
    <3> HIDE DEF now, new
    <3>1. /\ CanAdd(now, Part(new, Ids(new) \ Ids(now)))
          /\ Ids(Plus(now, Part(new, Ids(new) \ Ids(now)))) = Ids(now) \cup Ids(new)
      BY <1>3, <2>1, CanAddMissing
    <3>2. QED
      BY <2>1, <3>1
  <2>3. /\ cy' = (IF rem = {} THEN Plus(now, add) ELSE now)
        /\ phase' = phase /\ mode' = mode /\ calm' = Calm
        /\ jobs' = (IF rem = {} \/ mode = "frozen" THEN jobs ELSE BagAdd(jobs, job))
    <3> HIDE DEF new
    <3>1. QED
      BY <1>1, <1>6, <2>2 DEF JsUpdate
  <2>4. IsJob(job) /\ job.add = add /\ job.rem = rem
    BY <2>1 DEF IsJob
  <2>5. \A j \in BagToSet(jobs') : j \in BagToSet(jobs) \/ j = job
    <3> HIDE DEF job, rem
    <3>1. BagToSet(BagAdd(jobs, job)) = BagToSet(jobs) \cup {job}
      BY AddToBag
    <3>2. QED
      BY <2>3, <3>1
  <2> HIDE DEF job
  <2>6. cy' \in Graph
    BY <2>1, <2>3, PlusFacts
  <2>7. TypeOK'
    BY <1>1, <2>3, <2>4, <2>5, <2>6 DEF TypeOK, Calm
  <2>8. ASSUME phase = "shown", WellPlaced(inv), Ours
        PROVE  Ours'
    <3>1. From(now, inv)
      BY <1>1, <1>3, <1>4, <2>8, FromWithData DEF Ours
    <3>2. From(add, inv)
      BY <1>1, <1>3, <2>8, FromPart
    <3>3. From(cy', inv)
      BY <1>1, <2>1, <2>3, <3>1, <3>2, FromPlus
    <3>4. QED
      BY <1>1, <2>4, <2>5, <2>8, <3>2, <3>3 DEF Ours
  <2>9. ASSUME phase = "shown", WellPlaced(inv), calm' = "fresh"
        PROVE  Fresh'
    <3>1. jobs = EmptyBag /\ calm = "fresh"
      BY <2>3, <2>9 DEF Calm
    <3>2. mode = "ok" /\ cy = Wanted
      BY <2>9, <3>1, OneInBag DEF IInv, Fresh
    <3>3. CASE rem = {}
      <4>1. Plus(WithData(cy, new), Part(new, Ids(new) \ Ids(cy))) = new
        BY <1>1, <2>9, <3>2, <3>3, ClickAdds
      <4>2. QED
        BY <1>2, <2>3, <3>1, <3>2, <3>3, <4>1 DEF Fresh
    <3>4. CASE rem # {}
      <4>1. Ids(new) \subseteq Ids(cy)
        BY <1>1, <3>2, <3>4, ClickOneWay DEF TypeOK
      <4>2. Minus(WithData(cy, new), Ids(cy) \ Ids(new)) = new
        BY <1>1, <2>9, <3>2, <4>1, ClickRemoves
      <4>3. add = EmptyGraph
        BY <1>3, <4>1, EmptyPart
      <4>4. jobs' = SetToBag({job}) /\ job \in BagToSet(jobs')
        BY <2>3, <3>1, <3>2, <3>4, OneInBag
      <4>5. QED
        BY <1>2, <2>3, <2>4, <3>2, <3>4, <4>2, <4>3, <4>4 DEF Fresh
    <3>5. QED
      BY <3>3, <3>4
  <2>10. ASSUME phase = "shown", calm' = "settled", mode' = "ok"
         PROVE  Settled'
    <3>1. jobs = EmptyBag
      BY <2>3, <2>10 DEF Calm
    <3>2. CASE rem = {}
      <4>1. jobs' = EmptyBag /\ Ids(cy') = Ids(new)
        BY <2>2, <2>3, <3>1, <3>2
      <4>2. BagToSet(jobs') = {}
        BY <4>1, OneInBag
      <4>3. QED
        BY <1>2, <4>1, <4>2 DEF Settled
    <3>3. CASE rem # {}
      <4>1. jobs' = SetToBag({job}) /\ job \in BagToSet(jobs')
        BY <2>3, <2>10, <3>1, <3>3, OneInBag
      <4>2. Ids(cy') = Ids(cy)
        BY <2>1, <2>3, <3>3
      <4>3. QED
        BY <1>2, <2>4, <4>1, <4>2 DEF Settled
    <3>4. QED
      BY <3>2, <3>3
  <2>11. QED
    BY <1>1, <2>3, <2>7, <2>8, <2>9, <2>10 DEF IInv
<1>7. QED
  BY <1>5, <1>6

\* What a fade leaves for its later calls, and what it adds.
LEMMA FadeKeepsOthers ==
  ASSUME IInv, NEW job \in BagToSet(jobs), FadeEnds(job)
  PROVE  /\ TypeOK'
         /\ phase = "shown" /\ WellPlaced(inv) => Ours'
<1> DEFINE now == Minus(cy, job.rem)
           less == [job EXCEPT !.left = @ - 1]
           rest == IF job.left = 1 \/ Ids(job.add) = {} THEN BagRemove(jobs, job)
                   ELSE BagAdd(BagRemove(jobs, job), less)
           good == phase = "shown" /\ WellPlaced(inv)
<1>1. /\ TypeOK /\ cy \in Graph /\ IsJob(job) /\ job.add \in Graph /\ inv \in Inventory
      /\ UNCHANGED <<inv, sel, show, phase, calm>>
      /\ good => From(cy, inv) /\ From(job.add, inv)
  BY DEF IInv, TypeOK, IsJob, FadeEnds, Ours
<1>2. now \in Graph /\ (good => From(now, inv))
  BY <1>1, MinusFacts, FromMinus
<1>3. \/ /\ cy' = Plus(now, job.add)
         /\ jobs' = Forget(rest, Ids(cy) \ Ids(now))
      \/ /\ \E X : cy' = Halfway(now, job.add, X)
         /\ jobs' = EmptyBag
  BY DEF FadeEnds
<1>4. \A j \in BagToSet(rest) : IsJob(j) /\ (good => From(j.add, inv))
  <2>1. IsJob(less) /\ less.add = job.add
    BY <1>1, JobParts
  <2> HIDE DEF less, now
  <2>2. /\ BagToSet(BagRemove(jobs, job)) \subseteq BagToSet(jobs)
        /\ BagToSet(BagAdd(BagRemove(jobs, job), less)) = BagToSet(BagRemove(jobs, job)) \cup {less}
    BY RemoveFromBag, AddToBag
  <2>3. BagToSet(rest) \subseteq BagToSet(jobs) \cup {less}
    BY <2>2
  <2> HIDE DEF rest
  <2>4. QED
    BY <1>1, <2>1, <2>3 DEF IInv, TypeOK, Ours
<1> HIDE DEF now, less, rest
<1>5. CASE cy' = Plus(now, job.add) /\ jobs' = Forget(rest, Ids(cy) \ Ids(now))
  <2>1. cy' \in Graph /\ (good => From(cy', inv))
    BY <1>1, <1>2, <1>5, PlusFacts, FromPlus
  <2>2. \A a \in BagToSet(jobs') : IsJob(a) /\ (good => From(a.add, inv))
    <3>1. \A a \in BagToSet(Forget(rest, Ids(cy) \ Ids(now))) : /\ IsJob(a)
            /\ \E j \in BagToSet(rest) : a.add = j.add
      BY <1>4, JobsForget
    <3>2. QED
      BY <1>4, <1>5, <3>1
  <2>3. QED
    BY <1>1, <2>1, <2>2 DEF TypeOK, Ours
<1>6. CASE (\E X : cy' = Halfway(now, job.add, X)) /\ jobs' = EmptyBag
  <2>1. PICK X : cy' = Halfway(now, job.add, X)
    BY <1>6
  <2>2. PICK h \in Graph : /\ Halfway(now, job.add, X) = Plus(now, h)
                           /\ \A k \in EdgesOf(h) : /\ h.edge[k] = job.add.edge[k]
                                                    /\ k \in EdgesOf(job.add)
                           /\ \A v \in Services : h.parent[v] = Null
    BY <1>1, <1>2, HalfwayFacts
  <2>3. good => From(h, inv)
    BY <1>1, <2>2 DEF From
  <2>4. cy' \in Graph /\ (good => From(cy', inv))
    BY <1>1, <1>2, <2>1, <2>2, <2>3, PlusFacts, FromPlus
  <2>5. BagToSet(jobs') = {}
    BY <1>6, OneInBag
  <2>6. QED
    BY <1>1, <2>4, <2>5 DEF TypeOK, Ours
<1>7. QED
  BY <1>3, <1>5, <1>6

LEMMA FadeKeepsFresh ==
  ASSUME IInv, NEW job \in BagToSet(jobs), FadeEnds(job), Fresh
  PROVE  Fresh'
<1>1. PICK j \in BagToSet(jobs) : /\ jobs = SetToBag({j}) /\ j.add = EmptyGraph
                                  /\ Minus(cy, j.rem) = Wanted
  BY OneInBag DEF Fresh
<1>2. job = j /\ mode = "ok"
  BY <1>1, OneInBag DEF Fresh
<1>3. cy \in Graph /\ Wanted \in Graph
  BY <1>1, MinusFacts DEF IInv, TypeOK
<1>4. CanAdd(Wanted, EmptyGraph) /\ Plus(Wanted, EmptyGraph) = Wanted
  BY <1>3, PlusEmpty
<1>5. Wanted' = Wanted
  BY DEF FadeEnds, Wanted
<1>6. BagRemove(jobs, job) = EmptyBag
  BY <1>1, <1>2, OneInBag
<1>7. \A X : Forget(EmptyBag, X) = EmptyBag
  BY ForgetFacts
<1>8. cy' = Wanted /\ jobs' = EmptyBag /\ mode' = mode
  BY <1>1, <1>2, <1>4, <1>6, <1>7, EmptyFacts DEF FadeEnds
<1>9. QED
  BY <1>2, <1>5, <1>8 DEF Fresh

LEMMA FadeKeepsSettled ==
  ASSUME IInv, phase = "shown", WellPlaced(inv), NEW job \in BagToSet(jobs),
         FadeEnds(job), Settled
  PROVE  Settled' /\ mode' = "ok"
<1> DEFINE now == Minus(cy, job.rem)
           less == [job EXCEPT !.left = @ - 1]
           X == Ids(cy) \ Ids(now)
           rest == IF job.left = 1 \/ Ids(job.add) = {} THEN BagRemove(jobs, job)
                   ELSE BagAdd(BagRemove(jobs, job), less)
           done(j) == j.rem = {} /\ Ids(j.add) \subseteq Ids(Wanted)
<1>1. CanAdd(now, job.add) =>
        cy' = Plus(now, job.add) /\ jobs' = Forget(rest, X) /\ mode' = "ok"
  BY DEF FadeEnds
<1>2. /\ cy \in Graph /\ IsJob(job) /\ job.add \in Graph /\ now \in Graph
      /\ From(cy, inv) /\ inv \in Inventory
      /\ Wanted = Build(inv, sel, show) /\ Wanted' = Wanted
      /\ \A j \in BagToSet(jobs) : IsJob(j)
  <2>1. TypeOK /\ Ours /\ cy \in Graph /\ IsJob(job) /\ \A j \in BagToSet(jobs) : IsJob(j)
    BY DEF IInv, TypeOK
  <2>2. Wanted = Build(inv, sel, show)
    BY <2>1, PageTypes DEF TypeOK, Wanted
  <2>3. QED
    BY <2>1, <2>2, MinusFacts DEF TypeOK, Ours, IsJob, FadeEnds, Wanted
<1>3. IsJob(less) /\ less.rem = job.rem /\ less.add = job.add
  BY <1>2, JobParts
<1>4. SUFFICES /\ CanAdd(now, job.add)
               /\ Ids(now) \cup Ids(job.add) = Ids(Wanted)
               /\ \A j \in BagToSet(rest) : j.rem \subseteq X /\ Ids(j.add) \subseteq Ids(Wanted)
  <2> HIDE DEF now, rest, X
  <2>1. Ids(cy') = Ids(Wanted)
    <3>1. cy' = Plus(now, job.add)
      BY <1>1, <1>4
    <3>2. Ids(Plus(now, job.add)) = Ids(now) \cup Ids(job.add)
      BY ONLY <1>2, PlusFacts
    <3>3. Ids(cy') = Ids(Plus(now, job.add))
      BY ONLY <3>1
    <3>4. QED
      BY <1>4, <3>2, <3>3
  <2>2. \A a \in BagToSet(jobs') : \E j \in BagToSet(rest) : a.rem = j.rem \ X /\ a.add = j.add
    <3>1. BagToSet(rest) \subseteq BagToSet(jobs) \cup {less}
      <4> HIDE DEF less
      <4>1. QED
        BY RemoveFromBag, AddToBag DEF rest
    <3>2. \A j \in BagToSet(rest) : IsJob(j)
      BY <1>2, <1>3, <3>1
    <3>3. QED
      BY <1>1, <1>4, <3>2, JobsForget
  <2>3. \A a \in BagToSet(jobs') : a.rem = {} /\ Ids(a.add) \subseteq Ids(Wanted)
    BY <1>4, <2>2
  <2>4. QED
    BY <1>1, <1>2, <1>4, <2>1, <2>3 DEF Settled
<1> HIDE DEF less
<1>5. CASE \E j \in BagToSet(jobs) : /\ jobs = SetToBag({j}) /\ j.rem = Ids(cy) \ Ids(Wanted)
                                     /\ j.add = Part(Wanted, Ids(Wanted) \ Ids(cy))
  <2>1. PICK j \in BagToSet(jobs) : /\ jobs = SetToBag({j}) /\ j.rem = Ids(cy) \ Ids(Wanted)
                                    /\ j.add = Part(Wanted, Ids(Wanted) \ Ids(cy))
    BY <1>5
  <2>2. j = job
    BY <2>1, OneInBag
  <2>3. Ids(now) = Ids(cy) \cap Ids(Wanted)
    BY <1>2, <2>1, <2>2, OnlyTheRest
  <2>4. /\ Wanted \in Graph
        /\ \A k \in EdgesOf(Wanted) : Ends(Wanted.edge[k]) \subseteq Wanted.nodes
    BY <1>2, BuildGraph
  <2>5. job.add = Part(Wanted, Ids(Wanted) \ Ids(now))
    <3>1. Ids(Wanted) \ Ids(cy) = Ids(Wanted) \ Ids(now)
      BY <2>3
    <3>2. QED
      BY <2>1, <2>2, <3>1
  <2>6. /\ Ids(job.add) = Ids(Wanted) \ Ids(cy)
        /\ CanAdd(now, job.add)
    <3> HIDE DEF now
    <3>1. CanAdd(now, Part(Wanted, Ids(Wanted) \ Ids(now)))
      BY <1>2, <2>4, CanAddMissing
    <3>2. Ids(Part(Wanted, Ids(Wanted) \ Ids(cy))) = Ids(Wanted) \cap (Ids(Wanted) \ Ids(cy))
      BY <2>4, PartFacts
    <3>3. QED
      BY <2>1, <2>2, <2>5, <3>1, <3>2
  <2>7. \A a \in BagToSet(rest) : a = less
    <3>1. BagRemove(jobs, job) = EmptyBag /\ BagAdd(EmptyBag, less) = SetToBag({less})
      BY <2>1, <2>2, OneInBag
    <3>2. BagToSet(EmptyBag) = {} /\ BagToSet(SetToBag({less})) = {less}
      BY OneInBag
    <3>3. QED
      BY <3>1, <3>2
  <2> HIDE DEF now, rest
  <2>8. job.rem \subseteq X
    BY <2>1, <2>2, <2>3
  <2>9. QED
    BY <1>3, <2>3, <2>6, <2>7, <2>8
<1>6. CASE Ids(cy) = Ids(Wanted) /\ \A j \in BagToSet(jobs) : done(j)
  <2>1. job.rem = {} /\ Ids(job.add) \subseteq Ids(cy)
    BY <1>6
  <2>2. Kept(cy, {}) = Ids(cy)
    BY DEF Kept
  <2>3. Ids(now) = Ids(cy)
    BY <1>2, <2>1, <2>2, MinusFacts
  <2> HIDE DEF now
  <2>4. EdgesOf(job.add) \subseteq EdgesOf(now)
    BY <1>2, <2>1, <2>3, IdsSplit
  <2>5. CanAdd(now, job.add)
    BY <2>4 DEF CanAdd
  <2>6. BagToSet(rest) \subseteq BagToSet(jobs) \cup {less}
    BY RemoveFromBag, AddToBag
  <2> HIDE DEF rest
  <2>7. \A a \in BagToSet(rest) : done(a)
    BY <1>3, <1>6, <2>6
  <2>8. QED
    BY <1>6, <2>1, <2>3, <2>5, <2>7
<1>7. QED
  BY <1>5, <1>6 DEF Settled

LEMMA FadeKeeps ==
  ASSUME IInv, NEW job \in BagToSet(jobs), FadeEnds(job)
  PROVE  IInv'
<1>1. UNCHANGED <<inv, sel, show, phase, calm>> /\ mode = "ok"
  BY DEF FadeEnds
<1>2. QED
  BY <1>1, FadeKeepsOthers, FadeKeepsFresh, FadeKeepsSettled DEF IInv

LEMMA DeleteKeeps ==
  ASSUME IInv, NEW X \in SUBSET Ids(cy), DeleteKey(X)
  PROVE  IInv'
<1> DEFINE ids == X \cup {k \in EdgesOf(cy) : Ends(cy.edge[k]) \cap X # {}}
           job == [rem |-> ids, add |-> EmptyGraph, left |-> 1]
<1>1. /\ jobs' = jobs \/ jobs' = BagAdd(jobs, job)
      /\ calm' = "edited" /\ UNCHANGED <<inv, sel, show, phase, cy, mode>>
  BY DEF DeleteKey
<1>2. IsJob(job) /\ From(job.add, inv)
  <2>1. cy \in Graph
    BY DEF IInv, TypeOK
  <2>2. ids \subseteq Nodes \cup Conns
    BY <2>1, IdsSplit
  <2>3. QED
    BY <2>2, EmptyFacts, NothingIsFrom DEF IsJob
<1> HIDE DEF job
<1>3. \A j \in BagToSet(jobs') : j \in BagToSet(jobs) \/ j = job
  <2>1. BagToSet(BagAdd(jobs, job)) = BagToSet(jobs) \cup {job}
    BY AddToBag
  <2>2. QED
    BY <1>1, <2>1
<1>4. TypeOK'
  BY <1>1, <1>2, <1>3 DEF IInv, TypeOK
<1>5. Ours => Ours'
  BY <1>1, <1>2, <1>3 DEF Ours
<1>6. QED
  BY <1>1, <1>4, <1>5 DEF IInv

LEMMA NoInventoryIsOne == NoInventory \in Inventory
BY DEF NoInventory, Inventory

LEMMA AwayKeeps ==
  ASSUME IInv, Away,
         UNCHANGED <<cy, jobs>> \/ (cy' = EmptyGraph /\ jobs' = EmptyBag)
  PROVE  IInv'
<1>1. /\ phase' = "away" /\ inv' = NoInventory /\ sel' = {} /\ show' = FALSE
      /\ calm' = "edited"
  BY DEF Away
<1>2. cy' \in Graph /\ \A j \in BagToSet(jobs') : IsJob(j)
  BY EmptyFacts, OneInBag DEF IInv, TypeOK
<1>3. TypeOK'
  BY <1>1, <1>2, NoInventoryIsOne DEF TypeOK
<1>4. QED
  BY <1>1, <1>3 DEF IInv

LEMMA OpenKeeps ==
  ASSUME IInv, OpenPage
  PROVE  IInv'
<1>1. /\ phase' = "settings" /\ inv' \in Inventories /\ sel' = inv'.servers
      /\ show' = FALSE /\ calm' = "edited" /\ UNCHANGED <<cy, mode, jobs>>
  BY DEF OpenPage
<1>2. TypeOK'
  BY <1>1, ViewAssumption DEF IInv, TypeOK
<1>3. QED
  BY <1>1, <1>2 DEF IInv

LEMMA SettingsKeep ==
  ASSUME IInv, SettingsLoaded
  PROVE  IInv'
<1>1. /\ phase = "settings" /\ phase' = "shown" /\ inv' = inv
      /\ sel' \in SUBSET inv.servers /\ show' \in BOOLEAN
      /\ JsInit(Built[inv][sel'][show'])
  BY DEF SettingsLoaded, IInv, TypeOK
<1>2. PICK S \in SUBSET inv.servers, b \in BOOLEAN : sel' = S /\ show' = b
  BY <1>1
<1> DEFINE new == Build(inv, S, b)
<1>3. inv \in Inventories /\ inv \in Inventory /\ Built[inv][S][b] = new
  BY <1>1, PageTypes DEF IInv
<1>4. new \in Graph /\ (WellPlaced(inv) => From(new, inv))
  BY <1>3, BuildGraph, FromBuild
<1>5. cy' = new /\ mode' = "ok" /\ jobs' = EmptyBag /\ calm' = "fresh" /\ Wanted' = new
  BY <1>1, <1>2, <1>3 DEF JsInit, Wanted
<1> HIDE DEF new
<1>6. BagToSet(jobs') = {}
  BY <1>5, OneInBag
<1>7. TypeOK'
  BY <1>1, <1>2, <1>3, <1>4, <1>5, <1>6 DEF TypeOK
<1>8. WellPlaced(inv) => Ours'
  BY <1>1, <1>4, <1>5, <1>6 DEF Ours
<1>9. Fresh'
  BY <1>5 DEF Fresh
<1>10. QED
  BY <1>1, <1>5, <1>7, <1>8, <1>9 DEF IInv

LEMMA Starts == Init => IInv
<1>1. SUFFICES ASSUME Init PROVE IInv
  OBVIOUS
<1>2. /\ inv = NoInventory /\ sel = {} /\ show = FALSE /\ phase = "away"
      /\ cy = EmptyGraph /\ jobs = EmptyBag /\ calm = "edited"
  BY <1>1 DEF Init
<1>3. cy \in Graph /\ BagToSet(jobs) = {} /\ inv \in Inventory
  BY <1>2, NoInventoryIsOne, EmptyFacts, OneInBag
<1>4. TypeOK
  BY <1>2, <1>3 DEF TypeOK
<1>5. QED
  BY <1>2, <1>4 DEF IInv

LEMMA Steps == IInv /\ [Next]_vars => IInv'
<1>1. SUFFICES ASSUME IInv, [Next]_vars PROVE IInv'
  OBVIOUS
<1>2. CASE OpenPage
  BY <1>1, <1>2, OpenKeeps
<1>3. CASE SettingsLoaded
  BY <1>1, <1>3, SettingsKeep
<1>4. CASE LeavePage \/ Reload \/ DoubleTap
  BY <1>1, <1>4, AwayKeeps DEF LeavePage, Reload, DoubleTap
<1>5. sel \subseteq inv.servers /\ sel \in SUBSET inv.servers /\ show \in BOOLEAN
  BY <1>1 DEF IInv, TypeOK
<1>6. CASE SelectAll
  BY <1>1, <1>5, <1>6, HandlerKeeps DEF SelectAll
<1>7. CASE DeselectAll
  BY <1>1, <1>5, <1>7, HandlerKeeps DEF DeselectAll
<1>8. CASE OnShowRelatedChanged
  BY <1>1, <1>5, <1>8, HandlerKeeps DEF OnShowRelatedChanged
<1>9. CASE OnLabelsChanged
  BY <1>1, <1>5, <1>9, HandlerKeeps DEF OnLabelsChanged
<1>10. ASSUME NEW s \in Servers, ToggleServer(s)
       PROVE  IInv'
  <2> DEFINE S == IF s \in sel THEN sel \ {s} ELSE sel \cup {s}
  <2>1. S \in SUBSET inv.servers /\ (sel \subseteq S \/ S \subseteq sel) /\ Handler(S, show)
    BY <1>5, <1>10 DEF ToggleServer
  <2> HIDE DEF S
  <2>2. QED
    BY <1>1, <1>5, <2>1, HandlerKeeps
<1>11. ASSUME NEW job \in BagToSet(jobs), FadeEnds(job)
       PROVE  IInv'
  BY <1>1, <1>11, FadeKeeps
<1>12. ASSUME NEW X \in SUBSET Ids(cy), DeleteKey(X)
       PROVE  IInv'
  BY <1>1, <1>12, DeleteKeeps
<1>13. CASE UNCHANGED vars
  <2>1. TypeOK'
    BY <1>1, <1>13 DEF IInv, TypeOK, vars
  <2>2. Wanted' = Wanted
    BY <1>13 DEF vars, Wanted
  <2>3. (Ours => Ours') /\ (Fresh => Fresh') /\ (Settled => Settled')
    BY <1>13, <2>2 DEF vars, Ours, Fresh, Settled
  <2>4. QED
    BY <1>1, <1>13, <2>1, <2>3 DEF IInv, vars
<1>14. QED
  BY <1>1, <1>2, <1>3, <1>4, <1>6, <1>7, <1>8, <1>9, <1>10, <1>11, <1>12, <1>13 DEF Next

\* Nothing but a callback ends the render loop.
LEMMA OnlyFadesFreeze ==
  ASSUME [Next]_vars, mode = "ok", mode' = "frozen"
  PROVE  \E job \in BagToSet(jobs) : FadeEnds(job)
<1>1. \A new : ~JsInit(new) /\ ~(JsUpdate(new) /\ mode' # mode)
  BY DEF JsInit, JsUpdate
<1>2. ~(OpenPage \/ SettingsLoaded \/ LeavePage \/ Reload \/ DoubleTap)
  BY <1>1 DEF OpenPage, SettingsLoaded, LeavePage, Reload, DoubleTap
<1>3. \A S, b : ~Handler(S, b)
  BY <1>1 DEF Handler
<1>4. ~(SelectAll \/ DeselectAll \/ OnShowRelatedChanged \/ OnLabelsChanged)
      /\ \A s \in Servers : ~ToggleServer(s)
  BY <1>3 DEF SelectAll, DeselectAll, OnShowRelatedChanged, OnLabelsChanged, ToggleServer
<1>5. \A X : ~DeleteKey(X)
  BY DEF DeleteKey
<1>6. QED
  BY <1>2, <1>4, <1>5 DEF Next, vars

\* The invariant holds in every state of the page and the browser.
THEOREM Invariance == Spec => []IInv
BY Starts, Steps, PTL DEF Spec

\* graphMap.update never throws back into the circuit, for any inventory,
\* service on two servers or not, and any order of clicks, fades, deletions,
\* visits and reloads.
THEOREM UpdateNeverThrows == Spec => []HandlersSurvive
<1>1. IInv => HandlersSurvive
  BY DEF IInv, TypeOK, HandlersSurvive
<1>2. QED
  BY <1>1, Invariance, PTL

\* A fade that nothing overtook finds the ends of all the edges its click
\* adds, whatever the map has been through, as long as no service is on two
\* servers.
THEOREM LoneFades == Spec => LoneFadeIsSafe
<1>1. IInv /\ [Next]_vars =>
        [mode = "ok" /\ mode' = "frozen" /\ WellPlaced(inv) => calm \notin {"fresh", "settled"}]_vars
  <2> SUFFICES ASSUME IInv, [Next]_vars, mode = "ok", mode' = "frozen", WellPlaced(inv),
                      calm \in {"fresh", "settled"}
               PROVE  FALSE
    OBVIOUS
  <2>1. phase = "shown" /\ (calm = "fresh" => Fresh) /\ (calm = "settled" => Settled)
    BY DEF IInv, TypeOK
  <2>2. PICK job \in BagToSet(jobs) : FadeEnds(job)
    BY OnlyFadesFreeze
  <2>3. CASE calm = "fresh"
    BY <2>1, <2>2, <2>3, FadeKeepsFresh DEF Fresh
  <2>4. CASE calm = "settled"
    BY <2>1, <2>2, <2>4, FadeKeepsSettled
  <2>5. QED
    BY <2>3, <2>4
<1>2. QED
  BY <1>1, Invariance, PTL DEF Spec, LoneFadeIsSafe

\* When nothing fades and the last click came to a map at rest, the screen
\* shows the elements the builder returns for the panel, whatever raced
\* before.
THEOREM ScreenCatchesUp == Spec => []Converged
<1>1. ASSUME IInv, AtRest, calm \in {"fresh", "settled"}, WellPlaced(inv)
      PROVE  /\ Ids(cy) = Ids(Wanted) /\ cy.edge = Wanted.edge
             /\ calm = "fresh" => cy = Wanted
  <2>1. /\ phase = "shown" /\ mode = "ok" /\ jobs = EmptyBag /\ BagToSet(jobs) = {}
        /\ TypeOK /\ Ours /\ (calm = "fresh" => Fresh) /\ (calm = "settled" => Settled)
    BY <1>1, OneInBag DEF AtRest, IInv
  <2>2. calm = "fresh" => cy = Wanted
    BY <2>1 DEF Fresh
  <2>3. Ids(cy) = Ids(Wanted)
    BY <1>1, <2>1, <2>2 DEF Settled
  <2>4. /\ Wanted = Build(inv, sel, show) /\ inv \in Inventory
        /\ cy \in Graph /\ From(cy, inv)
    BY <2>1, PageTypes DEF TypeOK, Wanted, Ours
  <2>5. Wanted \in Graph /\ From(Wanted, inv)
    BY <1>1, <2>4, BuildGraph, FromBuild
  <2>6. EdgesOf(cy) = EdgesOf(Wanted)
    BY <2>3, <2>4, <2>5, IdsSplit
  <2>7. \A k \in Conns : cy.edge[k] = Wanted.edge[k]
    BY <2>4, <2>5, <2>6 DEF From, EdgesOf
  <2>8. cy.edge = Wanted.edge
    BY <2>4, <2>5, <2>7 DEF Graph
  <2>9. QED
    BY <2>2, <2>3, <2>8
<1>2. IInv => Converged
  BY <1>1 DEF Converged
<1>3. QED
  BY <1>2, Invariance, PTL
================================================================================
