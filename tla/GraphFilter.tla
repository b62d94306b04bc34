------------------------------ MODULE GraphFilter ------------------------------
(***************************************************************************)
(* The filter panel of the connections map: the inventory the page loaded, *)
(* the servers its user has selected and the "show related" checkbox.      *)
(* What the map is to show is a function of them (GraphMapBuild!Build);    *)
(* this module says what holds of it, and of its change in one click.      *)
(* Its names start with Filter, as GraphView extends it with the browser.  *)
(***************************************************************************)
EXTENDS GraphMapBuild

VARIABLES inv,   \* what OnInitializedAsync loaded
          sel,   \* _selectedServerIds
          show   \* _showRelated

filterVars == <<inv, sel, show>>

FilterTypeOK ==
  /\ inv \in Inventory
  /\ sel \in SUBSET inv.servers
  /\ show \in BOOLEAN

\* Every server is selected unless stored settings, read once, say otherwise.
FilterInit ==
  /\ inv \in Inventory
  /\ sel \in SUBSET inv.servers
  /\ show \in BOOLEAN

FilterAll == sel' = inv.servers /\ UNCHANGED <<inv, show>>

FilterNone == sel' = {} /\ UNCHANGED <<inv, show>>

\* Mutant: a click on a server selects it alone instead of adding it.
FilterToggleAlone(s) ==
  /\ s \in inv.servers
  /\ sel' = IF s \in sel THEN sel \ {s} ELSE {s}
  /\ UNCHANGED <<inv, show>>

FilterToggle(s) ==
  /\ s \in inv.servers
  /\ sel' = IF s \in sel THEN sel \ {s} ELSE sel \cup {s}
  /\ UNCHANGED <<inv, show>>

FilterRelated == show' = ~show /\ UNCHANGED <<inv, sel>>

FilterNext ==
  \/ FilterAll
  \/ FilterNone
  \/ \E s \in Servers : FilterToggle(s)
  \/ FilterRelated

FilterSpec == FilterInit /\ [][FilterNext]_filterVars

--------------------------------------------------------------------------------
Map == Build(inv, sel, show)

\* Cytoscape can draw whatever the builder returns: both ends of an edge and
\* the compound node of a service are among the nodes, a service sits in a
\* server that runs it, and everything in a related server is dimmed with it.
Drawable ==
  /\ \A k \in EdgesOf(Map) : Ends(Map.edge[k]) \subseteq Map.nodes
  /\ \A v \in Map.nodes \cap Services :
       /\ Map.parent[v] \in Map.nodes \cap Hosts(inv, v)
       /\ v \in Map.dim <=> Map.parent[v] \in Map.dim
  /\ Map.dim \subseteq Map.nodes
  /\ Map.dim \cap Primary(inv, sel) = {}

\* No connection is hidden while both its ends are on the map, as long as no
\* service is on two servers.  (When one is, the lookup by list order may
\* settle on a server that is filtered out.)
NothingHidden ==
  WellPlaced(inv) =>
    \A k \in Conns : LET row == inv.conn[k] IN
      /\ row # NoConn
      /\ row.dstSvc \in Map.nodes
      /\ IF row.srcSvc = Null THEN row.srcSrv \in Map.nodes ELSE row.srcSvc \in Map.nodes
      => Map.edge[k] # NoEdge

\* One click only ever adds elements to the map or only removes some.
\* graphMap.update makes what is new wait until what goes has faded: so only
\* clicks that overtake a fade ever wait for it.
OneWay ==
  [][LET before == Ids(Map)
         after  == Ids(Map')
     IN before \subseteq after \/ after \subseteq before]_filterVars
================================================================================
