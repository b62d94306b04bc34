------------------------------- MODULE GraphView -------------------------------
(***************************************************************************)
(* The connections map on the screen: the page GraphMap.razor in the       *)
(* server's circuit and graphmap.js with its Cytoscape instance in the     *)
(* browser.  Every click sends the whole new map; the browser compares it  *)
(* with what it shows, fades out what is gone for 300 ms and only then     *)
(* removes it and adds what is new.  Clicks go on meanwhile.               *)
(*                                                                         *)
(* Messages to the browser arrive in the order they are sent, and building *)
(* the map does not look at the browser, so a handler and the JavaScript   *)
(* call it ends in are one step.  The end of a fade is a step of its own.  *)
(***************************************************************************)
EXTENDS GraphFilter, FiniteSets, Bags, BagsExt

CONSTANTS Inventories,  \* what the queries of a visit to the page may return
          MaxFades,     \* bound: fades under way at the same time
          MaxSelected   \* bound: elements selected when Delete is pressed

ASSUME ViewAssumption ==
  Inventories \subseteq Inventory /\ MaxFades \in Nat \ {0} /\ MaxSelected \in Nat

\* The page's fields inv, sel and show are those of GraphFilter.
VARIABLES phase,  \* where the circuit is
          cy,     \* the elements of the Cytoscape instance
          mode,   \* "none": no instance; "frozen": its render loop died
          jobs,   \* fades under way, a bag: each callback removes rem and
                  \* adds add, and is still to be called left times
          calm    \* what the last update met (see Calm below)

vars == <<inv, sel, show, phase, cy, mode, jobs, calm>>

EmptyGraph == [nodes |-> {}, parent |-> [v \in Services |-> Null],
               edge |-> [k \in Conns |-> NoEdge], dim |-> {}]

\* The fields of a page that is not open.
NoInventory == [servers |-> {}, host |-> {}, conn |-> [k \in Conns |-> NoConn]]

Init ==
  /\ inv = NoInventory /\ sel = {} /\ show = FALSE
  /\ phase = "away" /\ cy = EmptyGraph /\ mode = "none"
  /\ jobs = EmptyBag /\ calm = "edited"

(***************************************************************************)
(* Cytoscape.                                                              *)
(***************************************************************************)
Part(g, X) == [nodes  |-> g.nodes \cap X,
               parent |-> [v \in Services |-> IF v \in X THEN g.parent[v] ELSE Null],
               edge   |-> [k \in Conns |-> IF k \in X THEN g.edge[k] ELSE NoEdge],
               dim    |-> g.dim \cap X]

\* add() throws at an edge whose end is neither there nor added with it.
CanAdd(g, new) ==
  \A k \in EdgesOf(new) \ EdgesOf(g) : Ends(new.edge[k]) \subseteq g.nodes \cup new.nodes

\* It passes over an element whose id is taken.
Plus(g, new) ==
  LET fresh == new.nodes \ g.nodes IN
  [nodes  |-> g.nodes \cup new.nodes,
   parent |-> [v \in Services |-> IF v \notin fresh THEN g.parent[v]
                                  ELSE IF new.parent[v] \in g.nodes \cup new.nodes
                                  THEN new.parent[v] ELSE Null],
   edge   |-> [k \in Conns |-> IF g.edge[k] # NoEdge THEN g.edge[k] ELSE new.edge[k]],
   dim    |-> g.dim \cup (new.dim \cap fresh)]

\* What is in when add() throws: the nodes, not yet in their compound nodes,
\* and the edges X that came before the bad one.
Halfway(g, new, X) ==
  Plus(g, [Part(new, new.nodes \cup X) EXCEPT !.parent = EmptyGraph.parent])

\* remove() takes the children of a compound node and the edges of every
\* node along.
Minus(g, X) ==
  LET gone == (g.nodes \cap X) \cup {v \in g.nodes \cap Services : g.parent[v] \in X}
      keep == (Ids(g) \ (X \cup gone)) \ {k \in EdgesOf(g) : Ends(g.edge[k]) \cap gone # {}}
  IN Part(g, keep)

\* Mutant: elements that exist are left as they are.
WithoutData(g, new) == g

\* data() of an existing element: source, target and parent cannot change.
WithData(g, new) == [g EXCEPT !.dim = (@ \ new.nodes) \cup (new.dim \cap g.nodes)]

(***************************************************************************)
(* graphMap.init and graphMap.update.                                      *)
(***************************************************************************)
\* Mutant: the previous instance is not destroyed, and its callbacks, which
\* use the variable cy, work on the new one.
JsInitOverOld(new) ==
  /\ cy' = new /\ mode' = "ok" /\ UNCHANGED jobs /\ calm' = "fresh"

\* Any previous instance is destroyed, its animations with it.
JsInit(new) ==
  /\ cy' = new /\ mode' = "ok" /\ jobs' = EmptyBag /\ calm' = "fresh"

\* fresh: every update since init met a map at rest.  settled: the last one
\* did.  raced: the last one met a fade.  edited: the user removed elements
\* with the Delete key, or the instance is not this page's.
Calm ==
  IF phase # "shown" THEN "edited"
  ELSE IF jobs # EmptyBag THEN IF calm = "edited" THEN "edited" ELSE "raced"
  ELSE IF calm = "fresh" THEN "fresh" ELSE "settled"

JsUpdate(new) ==
  LET rem == Ids(cy) \ Ids(new)
      add == Part(new, Ids(new) \ Ids(cy))
      now == WithData(cy, new)
      added == rem = {} /\ CanAdd(now, add)
  IN IF mode = "none" THEN UNCHANGED <<cy, mode, jobs, calm, phase>>
     ELSE /\ cy' = IF added THEN Plus(now, add) ELSE now
          /\ phase' = IF rem = {} /\ ~added THEN "dead" ELSE phase
          /\ jobs' = IF rem = {} \/ mode = "frozen" THEN jobs
                     ELSE BagAdd(jobs, [rem |-> rem, add |-> add,
                                        left |-> Cardinality(rem)])
          /\ calm' = Calm
          /\ UNCHANGED mode

\* An element that leaves the map is no longer what other fades would remove:
\* they hold the object, not the id.
Forget(js, X) == BagOfAll(LAMBDA job : [job EXCEPT !.rem = @ \ X], js)

\* animate() starts one animation per element and calls back at the end of
\* each: the first call removes all of them, every call adds what is not
\* there.  An exception in a callback ends the render loop.
FadeEnds(job) ==
  /\ mode = "ok"
  /\ LET now  == Minus(cy, job.rem)
         rest == IF job.left = 1 \/ Ids(job.add) = {} THEN BagRemove(jobs, job)
                 ELSE BagAdd(BagRemove(jobs, job), [job EXCEPT !.left = @ - 1])
     IN IF CanAdd(now, job.add)
        THEN /\ cy' = Plus(now, job.add)
             /\ jobs' = Forget(rest, Ids(cy) \ Ids(now))
             /\ UNCHANGED mode
        ELSE /\ \E X \in SUBSET EdgesOf(job.add) :
                  /\ CanAdd(now, Part(job.add, job.add.nodes \cup X))
                  /\ cy' = Halfway(now, job.add, X)
             /\ mode' = "frozen" /\ jobs' = EmptyBag
  /\ UNCHANGED <<inv, sel, show, phase, calm>>

\* The Delete key: selected nodes and edges, with the edges at those nodes.
DeleteKey(X) ==
  /\ mode # "none" /\ BagCardinality(jobs) < MaxFades
  /\ X # {} /\ X \subseteq Ids(cy) /\ Cardinality(X) <= MaxSelected
  /\ jobs' = IF mode = "frozen" THEN jobs
             ELSE BagAdd(jobs, [rem  |-> X \cup {k \in EdgesOf(cy) : Ends(cy.edge[k]) \cap X # {}},
                                add  |-> EmptyGraph, left |-> 1])
  /\ calm' = "edited"
  /\ UNCHANGED <<inv, sel, show, phase, cy, mode>>

(***************************************************************************)
(* The page.                                                               *)
(***************************************************************************)
Away ==
  /\ phase' = "away" /\ inv' = NoInventory /\ sel' = {} /\ show' = FALSE
  /\ calm' = "edited"

\* The elements of a visit's inventory under each filter.
Built == [i \in Inventories |-> [S \in SUBSET Servers |-> [related \in BOOLEAN |-> Build(i, S, related)]]]

\* Navigating within the application: the browser keeps its scripts' state.
OpenPage ==
  /\ phase = "away"
  /\ inv' \in Inventories /\ sel' = inv'.servers /\ show' = FALSE
  /\ phase' = "settings"
  /\ calm' = "edited"
  /\ UNCHANGED <<cy, mode, jobs>>

\* LoadSettingsAsync answers (any stored selection that still names servers
\* of the list, or none), the map is built and drawn.
SettingsLoaded ==
  /\ phase = "settings"
  /\ sel' \in ((SUBSET inv.servers) \ {{}}) \cup {sel}
  /\ show' \in BOOLEAN
  /\ phase' = "shown"
  /\ JsInit(Built[inv][sel'][show'])
  /\ UNCHANGED inv

\* The panel's handlers; they are live while the settings are awaited.
Handler(newSel, newShow) ==
  /\ phase \in {"settings", "shown"} /\ BagCardinality(jobs) < MaxFades
  /\ sel' = newSel /\ show' = newShow
  /\ JsUpdate(Built[inv][newSel][newShow])
  /\ UNCHANGED inv

SelectAll == Handler(inv.servers, show)

DeselectAll == Handler({}, show)

\* Mutant: a click on a server selects it alone instead of adding it.
ToggleServerAlone(s) ==
  /\ s \in inv.servers
  /\ Handler(IF s \in sel THEN sel \ {s} ELSE {s}, show)

ToggleServer(s) ==
  /\ s \in inv.servers
  /\ Handler(IF s \in sel THEN sel \ {s} ELSE sel \cup {s}, show)

OnShowRelatedChanged == Handler(sel, ~show)

\* OnShowEdgeLabelsChanged and OnShowServerIpChanged: only labels differ.
OnLabelsChanged == Handler(sel, show)

\* The component is disposed; the instance and its fades live on.
LeavePage ==
  /\ phase \in {"settings", "shown"}
  /\ Away
  /\ UNCHANGED <<cy, mode, jobs>>

\* A reload of the browser page ends circuit and scripts.
Reload ==
  /\ Away
  /\ cy' = EmptyGraph /\ mode' = "none" /\ jobs' = EmptyBag

\* A double tap on a node leaves for its page by a navigation of the browser.
DoubleTap ==
  /\ mode # "none" /\ cy.nodes # {}
  /\ Reload

Next ==
  \/ OpenPage \/ SettingsLoaded \/ LeavePage \/ Reload \/ DoubleTap
  \/ SelectAll \/ DeselectAll \/ OnShowRelatedChanged \/ OnLabelsChanged
  \/ \E s \in Servers : ToggleServer(s)
  \/ \E job \in BagToSet(jobs) : FadeEnds(job)
  \/ \E X \in SUBSET Ids(cy) : DeleteKey(X)

Spec == Init /\ [][Next]_vars

--------------------------------------------------------------------------------
Wanted == Built[inv][sel][show]
AtRest == phase = "shown" /\ mode = "ok" /\ jobs = EmptyBag

\* Once nothing fades any more, the screen shows the elements the builder
\* returned for the panel's present state, provided that the last click came
\* when the map was at rest (earlier ones may have raced) and no service is
\* on two servers.  If no click ever raced, services sit in their servers
\* and are dimmed as they should be, too: a service that lost its compound
\* node in a race is not given a new one.
Converged ==
  AtRest /\ calm \in {"fresh", "settled"} /\ WellPlaced(inv) =>
    /\ Ids(cy) = Ids(Wanted)
    /\ cy.edge = Wanted.edge
    /\ calm = "fresh" => cy = Wanted

\* With no service on two servers, a fade that nothing overtook never throws,
\* whatever the Delete key or earlier races have made of the map: what its
\* click adds finds its ends there when the fade is over.
LoneFadeIsSafe ==
  [][mode = "ok" /\ mode' = "frozen" /\ WellPlaced(inv)
       => calm \notin {"fresh", "settled"}]_vars

\* However clicks, fades and deletions interleave, graphMap.update itself
\* never throws: that exception would come back through the interop call
\* and end the circuit.
HandlersSurvive == phase # "dead"

--------------------------------------------------------------------------------
(***************************************************************************)
(* What comments and scenarios of the repository say, and the code does    *)
(* not keep up.                                                            *)
(***************************************************************************)

\* The scenario "the graph renders without JavaScript errors" fails even for
\* a user who only clicks, and waits for every fade, once two services are
\* on two servers each: the compound node of a service is chosen anew for
\* every filter, but a node that exists stays in the one it has and goes with
\* it, and the edge to be added finds no end.
NoScriptErrors == phase = "shown" => mode = "ok"
================================================================================
