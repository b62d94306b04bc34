----------------------------- MODULE GraphMapBuild -----------------------------
(***************************************************************************)
(* GraphMapElementsBuilder: from the inventory a page has loaded and the   *)
(* filter its user has set to the elements Cytoscape is to show.  A pure   *)
(* function; labels, ports and icons are left out.                         *)
(***************************************************************************)
EXTENDS Integers

CONSTANTS Servers, Services, Conns,
          Null,       \* no server, no service
          ListRank,   \* order in which GetAllAsync lists the servers
          NameRank    \* order of their names

ASSUME KeysAssumption ==
  /\ Servers \cap Services = {}
  /\ Conns \cap (Servers \cup Services) = {}
  /\ Null \notin Servers \cup Services \cup Conns

\* Both orders are those of finite lists: any set of servers has a first one.
ASSUME OrderAssumption ==
  \A rank \in {ListRank, NameRank} : \A S \in (SUBSET Servers) \ {{}} :
     \E s \in S : \A t \in S \ {s} : rank[s] < rank[t]

First(S, rank) == CHOOSE s \in S : \A t \in S \ {s} : rank[s] < rank[t]

(***************************************************************************)
(* What the three queries of OnInitializedAsync return.  They run one      *)
(* after another, so a connection may name a server or a service that the  *)
(* later queries no longer, or not yet, find.                              *)
(***************************************************************************)
Conn   == [srcSrv : Servers \cup {Null}, srcSvc : Services \cup {Null},
           dstSrv : Servers \cup {Null}, dstSvc : Services]
NoConn == [srcSrv |-> Null, srcSvc |-> Null, dstSrv |-> Null, dstSvc |-> Null]

Inventory ==
  {inv \in [servers : SUBSET Servers,
            host    : SUBSET (Servers \X Services),
            conn    : [Conns -> Conn \cup {NoConn}]] :
     \A h \in inv.host : h[1] \in inv.servers}

Hosts(inv, v) == {s \in inv.servers : <<s, v>> \in inv.host}

\* The server of a service when a connection does not name one: the first
\* of the list that has it, selected or not.
ServiceToServer(inv, v) ==
  IF Hosts(inv, v) = {} THEN Null ELSE First(Hosts(inv, v), ListRank)

\* Mutant: only a server the connection names itself.
EffectiveServerExplicit(inv, srv, svc) == srv

EffectiveServer(inv, srv, svc) ==
  IF srv # Null THEN srv
  ELSE IF svc # Null THEN ServiceToServer(inv, svc) ELSE Null

SrcServer(inv, k) == EffectiveServer(inv, inv.conn[k].srcSrv, inv.conn[k].srcSvc)
DstServer(inv, k) == EffectiveServer(inv, inv.conn[k].dstSrv, inv.conn[k].dstSvc)

(***************************************************************************)
(* Which servers and services are on the map.                              *)
(***************************************************************************)
Primary(inv, sel) == IF sel = {} THEN inv.servers ELSE inv.servers \cap sel

Related(inv, sel, show) ==
  IF ~show \/ sel = {} THEN {}
  ELSE {s \in inv.servers \ Primary(inv, sel) : \E k \in Conns :
          \/ SrcServer(inv, k) \in Primary(inv, sel) /\ DstServer(inv, k) = s
          \/ DstServer(inv, k) \in Primary(inv, sel) /\ SrcServer(inv, k) = s}

Visible(inv, sel, show) == Primary(inv, sel) \cup Related(inv, sel, show)

Shown(inv, vis) == {v \in Services : Hosts(inv, v) \cap vis # {}}

\* The compound node a service is drawn in: the first visible server by name.
Home(inv, vis, v) == First(Hosts(inv, v) \cap vis, NameRank)

(***************************************************************************)
(* The elements.  A graph has nodes, the compound node of each service     *)
(* node, the two ends of each edge, and the nodes drawn dimmed.            *)
(***************************************************************************)
Nodes  == Servers \cup Services
NoEdge == <<Null, Null>>
Ends(e) == {e[1], e[2]}

Graph == [nodes  : SUBSET Nodes,
          parent : [Services -> Servers \cup {Null}],
          edge   : [Conns -> (Nodes \X Nodes) \cup {NoEdge}],
          dim    : SUBSET Nodes]

EdgesOf(g) == {k \in Conns : g.edge[k] # NoEdge}
Ids(g) == g.nodes \cup EdgesOf(g)

InScope(inv, vis, k) ==
  inv.conn[k] # NoConn /\ {SrcServer(inv, k), DstServer(inv, k)} \subseteq vis

\* Mutant: whether the service is on the map is not looked at.
EndNodeAlwaysService(inv, vis, srv, svc) == IF svc # Null THEN svc ELSE srv

\* An edge ends at the service if that is on the map, else at its server.
EndNode(inv, vis, srv, svc) == IF svc \in Shown(inv, vis) THEN svc ELSE srv

EdgeOf(inv, vis, k) ==
  IF InScope(inv, vis, k)
  THEN <<EndNode(inv, vis, SrcServer(inv, k), inv.conn[k].srcSvc),
         EndNode(inv, vis, DstServer(inv, k), inv.conn[k].dstSvc)>>
  ELSE NoEdge

Build(inv, sel, show) ==
  LET related == Related(inv, sel, show)
      vis     == Visible(inv, sel, show)
      shown   == Shown(inv, vis)
  IN [nodes  |-> vis \cup shown,
      parent |-> [v \in Services |-> IF v \in shown THEN Home(inv, vis, v) ELSE Null],
      edge   |-> [k \in Conns |-> EdgeOf(inv, vis, k)],
      dim    |-> related \cup {v \in shown : Home(inv, vis, v) \in related}]

\* Every service is on one server at most, and a connection that names a
\* server beside a service names the one the service is on.
WellPlaced(inv) ==
  /\ \A v \in Services : \A s, t \in Hosts(inv, v) : s = t
  /\ \A k \in Conns : LET row == inv.conn[k] IN
       /\ row.srcSrv # Null /\ row.srcSvc # Null => row.srcSrv \in Hosts(inv, row.srcSvc)
       /\ row.dstSrv # Null => row.dstSrv \in Hosts(inv, row.dstSvc)
================================================================================
