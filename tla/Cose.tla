--------------------------------- MODULE Cose ----------------------------------
(***************************************************************************)
(* The layout the connections map asks for: fcose with quality "proof" and *)
(* random starting positions.  The map's elements are turned into a        *)
(* compound graph; nodes without edges are taken out and tiled, then       *)
(* leaves are pruned layer by layer; the spring embedder ticks until it is *)
(* still, puts the leaves back, ticks on while it cools, and the tiled     *)
(* nodes go back to where their compounds ended up.                        *)
(*                                                                         *)
(* Coordinates are left out: whether the nodes hold still is a choice, and *)
(* two nodes of one graph are always near enough to repel each other.      *)
(***************************************************************************)
EXTENDS Integers, CompoundGraph

CONSTANTS Maps,          \* the element lists a page can hand to cytoscape
          SampleSize,    \* as in SpectralGraph
          MaxIterations, \* 2500
          CheckPeriod,   \* CONVERGENCE_CHECK_PERIOD, 100
          GridPeriod,    \* GRID_CALCULATION_CHECK_PERIOD, 10
          GrowPeriod,    \* ticks between two layers of leaves, 10
          Cooldown       \* ticks until the cooling factor is 0, 100

ASSUME PeriodAssumption ==
  {SampleSize, MaxIterations, CheckPeriod, Cooldown} \subseteq Nat \ {0}
  /\ GridPeriod \in Nat \ {0, 1} /\ GrowPeriod \in Nat \ {0, 1}

VARIABLES cy,          \* the elements being laid out
          phase,       \* what runLayout does next
          samples,     \* the vertices the spectral layout sampled
          m,           \* the graph manager
          tiling,      \* compoundOrder, tiledMemberPack, memberGroups
          pruned,      \* prunedNodesAll: layers of [node, edge, graph]
          withGravity, \* nodesWithGravity
          weight,      \* noOfChildren; Null where it is undefined
          clock,       \* the counters and flags of tick
          grid,        \* the nodes in the cells of the grid
          surrounding, \* the nodes each node repels
          inside       \* <<n, c>>: n has been placed where c is now

vars == <<cy, phase, samples, m, tiling, pruned, withGravity, weight, clock, grid,
          surrounding, inside>>

Spectral == INSTANCE SpectralGraph

\* The id "DummyCompound_" + id of the parent.
Dummy(p) == <<"dummy", p>>

\* What Cytoscape makes sure of: an id is taken once, the compound of a node
\* and the ends of an edge are nodes, no node lies in itself.  And nobody
\* takes the ids of the root node and the dummies.
ASSUME MapAssumption ==
  \A c \in Maps :
    LET nodes == Spectral!NodesOf(c) IN
    /\ c.nodes \in Seq(Node) /\ IsInjective(c.nodes) /\ c.edges \in Seq(Edge) /\ IsInjective(c.edges)
    /\ \A n \in nodes : c.parent[n] \in nodes \cup {Null}
    /\ \A S \in (SUBSET nodes) \ {{}} : \E n \in S : c.parent[n] \notin S
    /\ \A e \in Spectral!EdgeIds(c) : c.ends[e] \in nodes \X nodes
    /\ RootNode \notin nodes
    /\ \A p \in nodes \cup {RootNode} : Dummy(p) \in Node \ (nodes \cup {RootNode})

(***************************************************************************)
(* processChildrenList and processEdges: the elements as a compound graph. *)
(* No self-loops, and one edge at most between two nodes.                  *)
(***************************************************************************)
Preorder(c) ==
  LET list[n \in Spectral!NodesOf(c)] ==
        LET kids == Spectral!ChildList(c, n)
        IN <<n>> \o FlattenSeq([i \in DOMAIN kids |-> list[kids[i]]])
      tops == Those(c.nodes, LAMBDA n : n \in Spectral!TopMost(c, Spectral!NodesOf(c)))
  IN FlattenSeq([i \in DOMAIN tops |-> list[tops[i]]])

ProcessChild(c, a, n) ==
  LET b == AddNode(a, IF c.parent[n] = Null THEN a.root ELSE c.parent[n], n)
  IN IF Spectral!IsParent(c, n) THEN AddGraph(b, n) ELSE b

ProcessEdge(c, a, e) ==
  LET s == c.ends[e][1]
      t == c.ends[e][2]
  IN IF s # t /\ EdgesBetween(a, s, t) = {} THEN AddEdge(a, e, s, t) ELSE a

Transferred(c) ==
  InTurn(LAMBDA a, e : ProcessEdge(c, a, e),
         InTurn(LAMBDA a, n : ProcessChild(c, a, n), AddRoot(NewManager), Preorder(c)),
         c.edges)

(***************************************************************************)
(* Tiling.  The edges are those of the node alone, or also of what is in it.*)
(***************************************************************************)
HasDegree(a, n) == \E e \in ToSet(a.inc[n]) : a.source[e] # a.target[e]

HasDegreeWithChildren(a, n) == \E k \in WithChildren(a, n) : HasDegree(a, k)

\* A compound with nothing but loose nodes and such compounds in it.
ToBeTiled(a, n) ==
  LET tiled[k \in Node] ==
        /\ a.child[k] # Null
        /\ \A c \in ToSet(Children(a, k)) :
              ~HasDegree(a, c) /\ (a.child[c] = Null \/ tiled[c])
  IN tiled[n]

\* groupZeroDegreeMembers: the loose nodes of a compound that is not itself
\* tiled move into a dummy compound, if there are two or more.
ZeroDegree(a) ==
  Those(AllNodes(a), LAMBDA n : /\ ~HasDegreeWithChildren(a, n)
                                /\ ParentOf(a, n) = RootNode \/ ~ToBeTiled(a, ParentOf(a, n)))

Groups(a) ==
  LET zero == ZeroDegree(a)
      of(p) == Those(zero, LAMBDA n : ParentOf(a, n) = p)
  IN [p \in {q \in {ParentOf(a, n) : n \in ToSet(zero)} : Len(of(q)) > 1} |-> of(p)]

MoveIntoDummy(a, p, members) ==
  InTurn(LAMBDA b, n : AddNode(RemoveNode(b, p, n), Dummy(p), n),
         AddNode(AddGraph(a, Dummy(p)), p, Dummy(p)), members)

\* performDFSOnCompounds: the compounds to be tiled, inner ones first.
CompoundOrder(a) ==
  LET visit[n \in Node] ==
        LET kids == Children(a, n)
        IN FlattenSeq([i \in DOMAIN kids |-> visit[kids[i]]])
             \o (IF ToBeTiled(a, n) THEN <<n>> ELSE <<>>)
  IN FlattenSeq([i \in DOMAIN a.nodes[a.root] |-> visit[a.nodes[a.root][i]]])

ClearCompound(a, c) == [RemoveGraph(a, a.child[c]) EXCEPT !.child[c] = Null]

\* adjustLocations: the members take their places in the compound; what had
\* been placed in a member is no longer where the member is.
AdjustLocations(placed, c, members) ==
  {p \in placed : p[2] \notin members} \cup {<<n, c>> : n \in members}

\* Mutant: repopulateCompounds goes through the compounds inner ones first.
InnerBackFirst(loose, order, pack) ==
  InTurn(LAMBDA placed, c : AdjustLocations(placed, c, pack[c]), loose, order)

RepopulateCompounds(loose, order, pack) ==
  InTurn(LAMBDA placed, c : AdjustLocations(placed, c, pack[c]), loose, Reverse(order))

(***************************************************************************)
(* reduceTrees: while there are leaves, a layer of them is taken out.  Of  *)
(* two leaves joined to each other only the first goes.                    *)
(***************************************************************************)
IsLeaf(a, n) == Len(a.inc[n]) = 1 /\ ~a.isInter[a.inc[n][1]] /\ a.child[n] = Null

Prune(a, n, layer) ==
  IF Len(a.inc[n]) # 1 THEN [m |-> a, layer |-> layer]
  ELSE [m |-> RemoveNode(a, a.owner[n], n),
        layer |-> Append(layer, [node |-> n, edge |-> a.inc[n][1], graph |-> a.owner[n]])]

PruneLayer(a) ==
  InTurn(LAMBDA r, n : Prune(r.m, n, r.layer), [m |-> a, layer |-> <<>>],
         Those(AllNodes(a), LAMBDA n : IsLeaf(a, n)))

\* Mutant: the list of all nodes is not reset.
ResetListsEdgesOnly(a) == [a EXCEPT !.allEdges = Null]

ResetLists(a) == [a EXCEPT !.allNodes = Null, !.allEdges = Null]

ReduceTrees(a) ==
  LET reduce[k \in 0..Cardinality(Node)] ==    \* k layers at most
        IF k = 0 THEN [m |-> a, layers |-> <<>>]
        ELSE LET last == reduce[k - 1]
                 b    == GetAllNodes(last.m)
                 r    == PruneLayer(b)
             IN IF ~\E n \in ToSet(AllNodes(b)) : IsLeaf(b, n) THEN [last EXCEPT !.m = b]
                ELSE [m |-> ResetLists(r.m), layers |-> Append(last.layers, r.layer)]
  IN reduce[Cardinality(Node)]

\* Mutant: the edge goes into the list of its graph only.
RegrowLoosely(a, p) ==
  [AddNode(a, p.graph, p.node) EXCEPT !.edges[p.graph] = Append(@, p.edge)]

\* growTree: the last layer that was taken out goes back.
RegrowNode(a, p) ==
  AddOwnEdge(AddNode(a, p.graph, p.node), p.graph, p.edge, a.source[p.edge], a.target[p.edge])

\* Mutant: the first layer that was taken out goes back first.
GrowFirst(a, layers) ==
  [m |-> ResetLists(InTurn(RegrowNode, a, layers[1])), layers |-> Tail(layers)]

GrowTree(a, layers) ==
  [m |-> ResetLists(InTurn(RegrowNode, a, Last(layers))), layers |-> Front(layers)]

\* Mutant: only the root graph is looked at.
RootGravity(a) == IF IsConnectedGraph(a, a.root) THEN <<>> ELSE a.nodes[a.root]

(***************************************************************************)
(* Gravity pulls on the nodes of every graph that does not hang together,  *)
(* found before the leaves are pruned; then on those of them still there.  *)
(***************************************************************************)
NodesWithGravity(a) ==
  FlattenSeq([i \in DOMAIN a.graphs |->
                IF IsConnectedGraph(a, a.graphs[i]) THEN <<>> ELSE a.nodes[a.graphs[i]]])

UpdateGravity(a, list) ==
  SetGravity([GetAllNodes(a) EXCEPT !.gravity = Null],
             Those(list, LAMBDA n : Contains(AllNodes(a), n)))

(***************************************************************************)
(* calcNoOfChildrenForAllNodes: a displacement is divided by the number of *)
(* simple nodes in what it moves.                                          *)
(***************************************************************************)
GetNoOfChildren(a, n) ==
  LET count[k \in Node] ==
        IF Children(a, k) = <<>> THEN 1
        ELSE InTurn(LAMBDA d, c : d + count[c], 0, Children(a, k))
  IN count[n]

\* Mutant: counted when the leaves are out.
CountsReduced(a) ==
  LET b == ReduceTrees(a).m
  IN [n \in Node |-> IF Contains(AllNodes(b), n) THEN GetNoOfChildren(b, n) ELSE Null]

NoOfChildren(a) ==
  [n \in Node |-> IF Contains(AllNodes(a), n) THEN GetNoOfChildren(a, n) ELSE Null]

\* The nodes an earlier node of the list has not yet dealt with.
RepelledBy(a, cells, n) ==
  LET list   == AllNodes(a)
      before == {k \in ToSet(list) : SelectInSeq(list, LAMBDA x : x = k)
                                       < SelectInSeq(list, LAMBDA x : x = n)}
  IN {k \in cells \ (before \cup {n}) : a.owner[k] = a.owner[n]}

(***************************************************************************)
(* The steps of runLayout before the spring embedder.                      *)
(***************************************************************************)
NewClock == [total |-> 0, growing |-> FALSE, finished |-> FALSE, growIter |-> 0,
             afterIter |-> 0, cooling |-> Cooldown, still |-> TRUE]

NoTiling == [order |-> <<>>, pack |-> <<>>, groups |-> <<>>]

Init ==
  /\ cy \in Maps
  /\ phase = "run" /\ samples = <<>> /\ m = NewManager /\ tiling = NoTiling
  /\ pruned = <<>> /\ withGravity = <<>> /\ weight = [n \in Node |-> Null] /\ clock = NewClock
  /\ grid = {} /\ surrounding = [n \in Node |-> {}] /\ inside = {}

\* Layout.run: a map without elements is not laid out.  The page gives no
\* constraints and does not load the plugin that packs components.
Run ==
  /\ phase = "run" /\ phase' = IF cy.nodes = <<>> THEN "positions" ELSE "spectral"
  /\ UNCHANGED <<cy, samples, m, tiling, pruned, withGravity, weight, clock, grid, surrounding, inside>>

\* With one or two vertices nothing is sampled.
SpectralLayout ==
  /\ phase = "spectral" /\ phase' = "transfer"
  /\ LET g == Spectral!Transformed(cy) IN
     IF Cardinality(g.node) <= 2 THEN UNCHANGED samples
     ELSE \E first \in g.node : samples' = Spectral!GreedySamples(g, first)
  /\ UNCHANGED <<cy, m, tiling, pruned, withGravity, weight, clock, grid, surrounding, inside>>

TransferElements ==
  /\ phase = "transfer" /\ phase' = "tile"
  /\ samples' = <<>>
  /\ m' = Transferred(cy)
  /\ UNCHANGED <<cy, tiling, pruned, withGravity, weight, clock, grid, surrounding, inside>>

TilingPreLayout ==
  /\ phase = "tile" /\ phase' = "layout"
  /\ LET groups == Groups(m)
         level  == Those(<<RootNode>> \o cy.nodes, LAMBDA p : p \in DOMAIN groups)
         a      == InTurn(LAMBDA b, p : MoveIntoDummy(b, p, groups[p]), GetAllNodes(m), level)
         order  == CompoundOrder(a)
         packs  == [c \in ToSet(order) |-> ToSet(Children(a, c))]
     IN /\ tiling' = [order |-> order, pack |-> packs, groups |-> groups]
        /\ m' = [InTurn(ClearCompound, a, order) EXCEPT !.allNodes = Null]
  /\ UNCHANGED <<cy, samples, pruned, withGravity, weight, clock, grid, surrounding, inside>>

\* checkLayoutSuccess, classicLayout and initSpringEmbedder.
ClassicLayout ==
  /\ phase = "layout" /\ phase' = "ticking"
  /\ LET a    == DropInvalidEdges(m)
         list == NodesWithGravity(a)
         b    == GetAllEdges(GetAllNodes(SetGravity(a, list)))
         lcas == {Lca(b, e).graph : e \in ToSet(AllEdges(b))}
         r    == ReduceTrees(Guarded(b, Null \notin lcas, b))
     IN /\ withGravity' = list
        /\ weight' = NoOfChildren(a)
        /\ m' = UpdateGravity(r.m, list)
        /\ pruned' = r.layers
  /\ clock' = NewClock
  /\ UNCHANGED <<cy, samples, tiling, grid, surrounding, inside>>

(***************************************************************************)
(* tick.  Until the leaves come back a tick counts and, now and then,      *)
(* looks whether the nodes hold still; whether they did in the tick before *)
(* is clock.still, and "osc" says that they only swing to and fro.  Beyond *)
(* MaxIterations nothing asks how many ticks there were, so Now stops.     *)
(***************************************************************************)
Now == Min({clock.total, MaxIterations}) + 1
Converged(osc) == clock.still \/ (osc /\ 3 * Now > MaxIterations)
Running == ~clock.growing /\ ~clock.finished
Settled(osc) ==
  Running /\ (Now = MaxIterations \/ (Now % CheckPeriod = 0 /\ Converged(osc)))
GrowDue == clock.growIter % GrowPeriod = 0

\* Mutant: the lists of the nodes to repel are renewed after growth only.
ForcedAfterwards(c) == c.afterIter % GrowPeriod = 1 /\ c.finished

Forced(c) == \/ c.growIter % GrowPeriod = 1 /\ c.growing
             \/ c.afterIter % GrowPeriod = 1 /\ c.finished

\* calcSpringForces to moveNodes, on manager a with the nodes of cells in
\* the grid.  With a cooling factor of 0 nothing moves.
ApplyForces(a, cells, c) ==
  LET ready   == GetAllEdges(GetAllNodes(UpdateBounds(a)))
      running == ~c.growing /\ ~c.finished
      regrid  == c.total % GridPeriod = 1 /\ running
      cells2  == IF regrid THEN ToSet(AllNodes(a)) ELSE cells
  IN /\ m' = ready
     /\ grid' = cells2
     /\ surrounding' = IF regrid \/ Forced(c)
                       THEN [n \in Node |-> IF n \in ToSet(AllNodes(a))
                                            THEN RepelledBy(a, cells2, n) ELSE surrounding[n]]
                       ELSE surrounding
     /\ \E still \in IF c.cooling = 0 THEN {TRUE} ELSE BOOLEAN :
           clock' = [c EXCEPT !.still = still]

SpringTick(osc) ==
  /\ Running /\ ~Settled(osc)
  /\ ApplyForces(m, grid, [clock EXCEPT !.total = Now])
  /\ UNCHANGED pruned

\* Every GrowPeriod ticks the last layer of leaves goes back, beside a node
\* whose place is looked up in a fresh grid.
GrowTick(osc) ==
  /\ pruned # <<>>
  /\ clock.growing \/ Settled(osc)
  /\ LET r == GrowTree(GetAllNodes(UpdateBounds(m)), pruned)
         a == UpdateBounds(UpdateGravity(r.m, withGravity))
         c == [clock EXCEPT !.total = Now, !.growing = TRUE, !.growIter = @ + 1]
     IN IF GrowDue
        THEN /\ pruned' = r.layers
             /\ ApplyForces(a, ToSet(AllNodes(a)), [c EXCEPT !.cooling = Cooldown])
        ELSE UNCHANGED pruned /\ ApplyForces(m, grid, c)

\* The ticks between two layers when the last layer is back already.
WaitTick ==
  /\ clock.growing /\ pruned = <<>> /\ ~GrowDue
  /\ ApplyForces(m, grid, [clock EXCEPT !.total = Now, !.growIter = @ + 1])
  /\ UNCHANGED pruned

GrowthOver == clock.finished \/ (clock.growing /\ GrowDue /\ pruned = <<>>)

\* Mutant: the count of the ticks since the growth starts again.
CoolTickAgain(osc) ==
  /\ GrowthOver /\ ~Converged(osc)
  /\ LET after == clock.afterIter % Cooldown
     IN ApplyForces(m, IF after % GrowPeriod = 0 THEN ToSet(AllNodes(m)) ELSE grid,
          [clock EXCEPT !.total = Now, !.growing = FALSE, !.finished = TRUE,
                        !.growIter = IF clock.growing THEN @ + 1 ELSE @,
                        !.cooling = Cooldown - after, !.afterIter = after + 1])
  /\ UNCHANGED pruned

\* Only stillness ends these ticks.  No bound stops the factor at 0.
CoolTick(osc) ==
  /\ GrowthOver /\ ~Converged(osc)
  /\ LET after == clock.afterIter
     IN ApplyForces(m, IF after % GrowPeriod = 0 THEN ToSet(AllNodes(m)) ELSE grid,
          [clock EXCEPT !.total = Now, !.growing = FALSE, !.finished = TRUE,
                        !.growIter = IF clock.growing THEN @ + 1 ELSE @,
                        !.cooling = Cooldown - after, !.afterIter = after + 1])
  /\ UNCHANGED pruned

Tick(osc) == SpringTick(osc) \/ GrowTick(osc) \/ WaitTick \/ CoolTick(osc)

\* Mutant: a layout that has settled ends, whatever was pruned.
EndsBare(osc) == Settled(osc) \/ (GrowthOver /\ Converged(osc))

LayoutEnds(osc) ==
  \/ Settled(osc) /\ pruned = <<>>
  \/ GrowthOver /\ Converged(osc)

RunSpringEmbedder ==
  /\ phase = "ticking"
  /\ \E osc \in BOOLEAN :
        \/ Tick(osc) /\ UNCHANGED phase
        \/ /\ LayoutEnds(osc)
           /\ phase' = "untile" /\ m' = UpdateBounds(m)
           /\ UNCHANGED <<pruned, clock, grid, surrounding>>
  /\ UNCHANGED <<cy, samples, tiling, withGravity, weight, inside>>

\* repopulateZeroDegreeMembers, then repopulateCompounds from the outermost
\* compound to the innermost.
TilingPostLayout ==
  /\ phase = "untile" /\ phase' = "positions"
  /\ LET loose == FoldSet(LAMBDA p, placed : AdjustLocations(placed, Dummy(p), ToSet(tiling.groups[p])),
                          {}, DOMAIN tiling.groups)
     IN inside' = RepopulateCompounds(loose, tiling.order, tiling.pack)
  /\ UNCHANGED <<cy, samples, m, tiling, pruned, withGravity, weight, clock, grid, surrounding>>

\* layoutPositions asks getPositions for every simple node, which reads the
\* label of the layout node it finds, and of undefined where there is none.
LayoutPositions ==
  /\ phase = "positions" /\ phase' = "done"
  /\ LET mapped == ToSet(Preorder(cy)) \cap {n \in Node : m.owner[n] # Null}
     IN m' = Guarded(m, Spectral!Leaves(cy) \subseteq mapped, m)
  /\ UNCHANGED <<cy, samples, tiling, pruned, withGravity, weight, clock, grid, surrounding, inside>>

Done == phase = "done" /\ UNCHANGED vars

Next == \/ Run \/ SpectralLayout \/ TransferElements \/ TilingPreLayout \/ ClassicLayout
        \/ RunSpringEmbedder \/ TilingPostLayout \/ LayoutPositions \/ Done

\* runLayout is one call: a step follows a step until it returns.  This is
\* WF_vars(Next), as a step is possible until then: no run deadlocks.
Fairness == []<>(phase = "done") \/ []<><<Next>>_vars

Spec == Init /\ [][Next]_vars /\ Fairness

-------------------------------------------------------------------------------
(***************************************************************************)
(* Properties.                                                             *)
(***************************************************************************)
Phases == {"run", "spectral", "transfer", "tile", "layout", "ticking", "untile", "positions", "done"}
Laid == phase \in {"layout", "ticking", "untile", "positions", "done"}
Ticked == phase = "ticking" /\ clock.total > 0

\* Every vertex is at a known distance from every sample: the dummies of
\* connectComponents leave nothing the breadth-first search cannot reach, so
\* no entry of the distance matrix stays undefined.
SpectralConnected ==
  LET g == Spectral!Transformed(cy) IN
  \A i \in DOMAIN samples :
     LET dist == Spectral!Distances(g, samples[i])
     IN \A v \in g.node : dist[v] < Spectral!Infinity(g)

\* No vertex is sampled twice: a repeated column makes the matrix that is
\* inverted singular.
SamplesDistinct == IsInjective(samples)

\* The distances the spectral layout draws from are all there and differ.
SpectralSound == SpectralConnected /\ SamplesDistinct

\* None of the assertions of LGraph and LGraphManager is ever thrown, and
\* between two steps the nodes and graphs are one tree and every edge is where
\* its two ends and its list say, however nodes were taken out and put back.
WellFormed ==
  /\ ~m.thrown
  /\ m.root # Null => TreeOfGraphs(m) /\ EdgesInPlace(m)

\* The cached lists are what the graphs hold, and the gravity list is the
\* part of the nodes with gravity that is in the graphs.
CachesFresh ==
  /\ Laid => m.allNodes \in {Null, LiveNodes(m)} /\ m.allEdges \in {Null, LiveEdges(m)}
  /\ phase = "ticking" =>
       m.gravity = Those(withGravity, LAMBDA n : Contains(LiveNodes(m), n))

\* Wherever the nodes of a graph do not hang together by edges, gravity pulls
\* on each of them: repulsion alone would drive them apart for ever.
NothingDrifts ==
  phase = "ticking" =>
    \A i \in DOMAIN m.graphs : \/ IsConnectedGraph(m, m.graphs[i])
                               \/ ToSet(m.nodes[m.graphs[i]]) \subseteq ToSet(m.gravity)

\* The lists a tick goes through are up to date and leave nothing out.
ListsSound == CachesFresh /\ NothingDrifts

\* What moves a node is divided by the number of simple nodes in it, those
\* included that are pruned at the moment, and never by undefined, which no
\* later tick would get out of the coordinates again.
WeightsKnown ==
  phase = "ticking" =>
    LET out    == UNION {{pruned[i][j].node : j \in DOMAIN pruned[i]} : i \in DOMAIN pruned}
        simple == {k \in ToSet(LiveNodes(m)) \cup out : m.child[k] = Null}
    IN \A n \in ToSet(LiveNodes(m)) : weight[n] = Cardinality({k \in simple : n \in ToSet(Chain(m, k))})

\* In every tick any two nodes of one graph repel each other exactly once,
\* those just put back included, and nothing else does.
RepelOnce ==
  Ticked =>
    LET live == ToSet(LiveNodes(m)) IN
    \A n \in live : /\ surrounding[n] \subseteq live \ {n}
                    /\ \A k \in live \ {n} :
                         m.owner[n] = m.owner[k] <=> ((k \in surrounding[n]) # (n \in surrounding[k]))

\* In every tick each node is moved by the forces due to it, by no more and
\* by known amounts.
ForcesSound == RepelOnce /\ WeightsKnown

\* When the layout is over every node of the map is in the graph or in one
\* pack, and the edges are those that were transferred, less those between a
\* node and its own compound: tiling and pruning lose nothing.
NothingLost ==
  phase = "done" =>
    LET live  == ToSet(LiveNodes(m))
        packs == {tiling.pack[c] : c \in DOMAIN tiling.pack}
        first == Transferred(cy)
    IN /\ \A n \in Spectral!NodesOf(cy) : (n \in live) # (\E P \in packs : n \in P)
       /\ \A P, Q \in packs : P = Q \/ P \cap Q = {}
       /\ ToSet(LiveEdges(m)) = {e \in ToSet(LiveEdges(first)) :
            ~IsOneAncestorOfOther(first, first.source[e], first.target[e])}

\* When the layout is over every tiled node lies where its compound is, also
\* when that compound was itself moved into another.
PlacedInside ==
  phase = "done" => \A c \in DOMAIN tiling.pack : \A n \in tiling.pack[c] : <<n, c>> \in inside

\* What was taken out of the graph is back in it, or back in its compound.
EverythingBack == NothingLost /\ PlacedInside

\* The layout ends: Settled, growth and cooling lead to a last tick.
Terminates == <>(phase = "done")
================================================================================
