# SecurityRule in TLA+

SecurityRule is an inventory of servers, the services on them, the network
connections between services, certificates and Active Directory accounts. It is
a Blazor Server application (`src/src/SecurityRule.Web`) over EF Core and SQL
Server (`src/src/SecurityRule.Infrastructure`), with a map of the connections
drawn in the browser by Cytoscape (`wwwroot/js/graphmap.js`) and laid out there
by fcose (`layout-base.js`, `cose-base.js`, `cytoscape-fcose.js`).

This directory holds TLA+ modules translated from that code, TLC configurations
that check them on small instances, and TLAPS proofs for every value of the
constants. `PROJECT.json` lists components, runs, the source lines of every
definition (`map`), hazards, findings and theorems.

    tlc -workers 2 -config MCCircuitStore.cfg MCCircuitStore
    tlapm CircuitStoreProofs.tla

## 1. Inventory

Three facts about the platform shape everything below.

* **A circuit is one actor.** Blazor Server runs the handlers of one browser tab
  on one synchronisation context. A handler gives way to others only where it
  awaits. An exception nobody catches ends the circuit; only a reload of the
  page starts a new one.
* **`AppDbContext` is scoped, and the scope is the circuit.** Every page a user
  visits shares one change tracker, for as long as the tab is open. The
  repository tests use a new context for every test; the application does not.
* **Two circuits meet only in the database**, when they read and when
  `SaveChanges` commits.

| Component | State | Operations | Talks to | What makes it hard |
|---|---|---|---|---|
| Repositories and DbContext (`ServerRepository`, `AppServiceRepository`, `ServiceConnectionRepository`, `AppDbContext`) | tables, join table, one change tracker per circuit | Get, Add, Update, Delete, SaveChanges | SQL Server; the pages call it | snapshots of any age, refused deletes that stay pending, cascades by tracker and by database |
| Page handlers (Servers, Services, FirewallRules: Create, Edit, Details) | the form of the open page | Save (catches nothing), Delete (catches everything) | repositories, navigation | what a caught exception leaves behind; dead circuits |
| Map builder (`GraphMapElementsBuilder`) | none | `Build` | the map page | two lookups of the same thing that can disagree |
| Map page and script (`GraphMap.razor`, `graphmap.js`) | filter, loaded inventory; Cytoscape instance, fades under way, stored settings | clicks, visit, init, update, Delete key | JavaScript interop, localStorage | 300 ms fades overtaken by clicks, callbacks called several times, an instance that outlives the page |
| Global search (`GlobalSearch`, `SearchService`) | text, results, progress mark, popup | keystroke, navigation | the same DbContext | debounce and cancellation, overtaken searches, two operations on one context |
| Layout of the map (`cytoscape-fcose.js` over `cose-base.js` over `layout-base.js`) | compound graph, caches, pruned trees, tiles, grid, counters of the tick loop; a box per node | one `runLayout` of many ticks | the map's elements; positions back to Cytoscape | nodes taken out and put back in layers, cached lists, a loop that ends by counters only, geometry with many cases |
| Server form, tags (`ServerFormService`, `TagRepository`, `TagInputState`) | tags, the form, a task of the user | resolve tags one by one, create, update, delete | repositories, one SaveChanges per new tag | look-up-then-insert against a unique index; tags committed before the server is refused; restarts in between |
| Audit interceptor | the lines of one SaveChanges | on every SaveChanges | DbContext | they are written before the transaction, of rows that have no key yet |
| Reconnect modal (`ReconnectModal.razor.js`) and the map's settings (localStorage) | the dialog, attempts under way; filter, stored filter | retry, resume, reload; save, load | Blazor, the circuit, JavaScript interop | overlapping attempts, late answers, a circuit lost between a click and its save |
| Certificates, users, groups | single tables | CRUD | repositories, AD | `Update()` of a detached instance |
| Active Directory and its stand-in (`FakeAdService`) | directory / its own tables | read; seed, reset | AD | nothing the program relies on: a stand-in for development |
| Startup, migrations | schema | Migrate, seed | SQL Server | a list of migrations |
| Layout of the pages, theme, dialogs, authentication stand-in, deployment files | little or none | presentation, configuration | | nothing to interleave |

What makes each component correct:

* **Store**: whatever circuits commit, in whatever order and on whatever stale
  trackers, references resolve; nothing comes back from the dead; relations
  change only by an edit of theirs; a failed operation leaves nothing behind
  that a later one writes (it does, for deletes: section 4).
* **Map builder**: what it returns can be drawn; no connection between two
  elements on the map is missing.
* **Map on the screen**: when the animations are over, the screen shows what the
  filter says; no interleaving of clicks ends the circuit.
* **Search**: what is shown as final is the answer to the text in the box; an
  announced search ends; its queries do not collide with one another.
* **Layout of the map**: it ends, throws nothing, and loses nothing it took out;
  in every tick each node is moved by exactly the forces due to it; boxes that
  overlap come apart, and packed ones fit the room made for them.
* **Server form**: a reported save has stored what was on the form; one that
  failed leaves nothing half done; losing the race for a tag's name is no dead
  end.
* **Audit**: what a transaction writes is in the log before it commits.
* **Reconnect and settings**: the dialog tells the truth; no late answer reloads
  a page that works again; the page gets back once the server does, and the
  filter saved last with it.

## 2. Plan

Most important behaviour first. All groups are built.

1. **Store** - `ChangeTracker` (EF Core's tracker and one SaveChanges as
   operators), `CircuitStore` (pages and circuits over it); `Inventory`, the
   abstract specification it implements. Proofs: `CircuitStoreProofs`.
2. **Map** - `GraphMapBuild` (pure), `GraphFilter` (the panel over it) and
   `GraphView` (page and browser over it). Proofs of all three:
   `GraphViewProofs`.
3. **Search** - `GlobalSearch`, `GlobalSearchProofs`.
4. **Server form** - `ServerForm`: tags, forms and the audit log over
   `CircuitStore`'s database and trackers, which it takes by INSTANCE;
   `ServerFormProofs`.
5. **Session** - `Reconnect` (the dialog) and `MapSession`, which composes it
   with the map's filter and its copy in localStorage; `MapSessionProofs`.
6. **Layout** - `CompoundGraph` (layout-base's graph manager), `SpectralGraph`
   (what fcose samples) and `Cose`, the layout as a whole without coordinates,
   over `Lists` (loops over a list); `CompoundGraphProofs`, `CoseProofs`.
   `Rectangles` and `Boxes`, the coordinates without the loop; `BoxesProofs`.

Left for whoever continues: `CertificateEdit` (an update that attaches an
instance the circuit may track already), of one actor and small.

Every run has two or three circuits, servers or services and few connections:
each race has two sides, and each lookup two candidates.

## 3. Modules

### ChangeTracker and CircuitStore

`db` holds the tables: servers and services (`ent`), join rows (`link`) and
connections (`conn`) with three references: an optional source server (`srv`),
an optional source service (`src`) and a destination service (`svc`). `trk[c]` is the change tracker
of circuit `c`: a state per row, and for connections original and current
values, since EF Core writes only the columns that differ. `op[c]` is the
handler in flight. `view[c]` are the keys on the page the circuit shows, hence
what a user can click, however long ago they were read. `used` are keys ever
inserted (identity columns never hand one out twice).

A handler is two steps. The first reads, changes the tracker and awaits
SaveChanges (`AddServer`, `UpdateServer`, ..., `DeleteConn`, `CreateTag`). The
second is `SaveSucceeds` or `SaveFails`: a Delete handler catches the exception
and the circuit goes on with the tracker as it is, a Save handler does not and
the circuit is `Dead` until `Reload`. In between, other circuits run.
`CreateTag` stands for any save of a handler that touches none of these tables
but commits what the tracker holds.

`ChangeTracker` models what EF Core and SQL Server do in one save, from how
`AppDbContext` configures them: `Cascade` (a pending delete nulls both optional
references of tracked connections and deletes tracked join rows), `Refused` (missing rows, taken keys, missing references,
`OnDelete(Restrict)`), `Committed` (the new tables, the database's own cascades
included) and `Accepted` (the tracker afterwards).

`Inventory` is what the pages may rely on: `db` and `used` only, and one action,
`Transaction(id, gone)`, which inserts or edits the row `id` and removes the
rows `gone`. Another connection may lose its source server to a transaction that
deletes a server, and its source service to one that deletes a service
(`OnlyLoses`); another join row may go with an end. `ImplementsInventory` in
`CircuitStore` is that specification, with `trk`, `op` and `view` hidden. It
allows the deletes of others' refused handlers in `gone`, since the code does
carry them along; it forbids that an edit or insert is carried along.

Left out: names, addresses and other plain columns (`touched` stands for "some
of them changed"), validation messages, the optional `DestinationServerId` (it
is declared, written and nulled just as `SourceServerId`), the account of a
service (`AppService.UserId`), and the other tables.

### GraphMapBuild, GraphFilter, GraphView

`Build(inv, sel, show)` is `GraphMapElementsBuilder.Build` without labels and
icons: from an inventory and a filter to nodes, the compound node of each
service, edges and the dimmed set. `Inventory` includes what three separate
queries may return together: a connection may name a server the other query no
longer finds. Two orders matter and are constants: that of the list
(`ListRank`, decides the server of a service) and that of names (`NameRank`,
decides the compound node).

`GraphFilter` is the panel over it, with definitions named `Filter...` because
`GraphView` extends it and adds the browser: `cy` is the
Cytoscape instance, `jobs` the bag of fades under way, each with what its callback will
remove and add and how often it is still to be called (Cytoscape calls
`complete` once per element). `mode` says whether the render loop lives (an
exception inside a callback kills it), `phase` where the circuit is. `Plus`,
`Minus` and `WithData` are Cytoscape's add, remove and data. `add` passes over an
element whose id is taken, so that the second callback of a fade only adds what
has gone since; it throws at an edge without an end (`CanAdd`), with some of the
elements in already (`Halfway`). A handler and the JavaScript call that ends it are one step:
messages arrive in order and building reads nothing of the browser. `calm`
records how careful the user has been: `fresh` (no click came during a fade
since the map was drawn), `settled` (the last click found the map at rest),
`raced`, `edited` (the Delete key removed something).

`DoubleTap` leaves the map for the page of a node and takes the script along.

Left out: hover and tooltips; how the map is laid out (`Cose`, `Boxes`); what
exactly localStorage holds (any valid stored selection is possible here,
`MapSession` says which).

### GlobalSearch

`tasks` are the invocations of `OnQueryChanged` still awaiting: in the delay, in
a query, or with a continuation queued. `Type` and `TypeShort` cancel the one
before, which ends it if it is in its delay and only marks it otherwise. Text
is read when the delay is over (`StartSearch`). Whatever is queued runs before
time goes on (`Tick`); a query ends at any moment up to `latency`. `page` is
the open page, which uses the same DbContext. A second operation on a busy
context throws; `fate` then names the pair and the circuit stops.

### ServerForm

`task[c]` is what user `c` wants stored: a server, new or edited, with tags. A
Save (`Submit`) resolves the names one after the other: `GetOrCreate` finds a tag or
inserts it by a SaveChanges of its own (`TagSaved`); then `ServerInvalid`
refuses the form, or `AddServer` and `UpdateServer` write it. `db`, `used` and
`trk` are those of `CircuitStore`, whose operators do every save:

    Store == INSTANCE CircuitStore WITH Services <- Tags, Conns <- {}, ...

A tag is joined to servers just as a service is. `log[c]` holds the lines the
interceptor writes when SaveChanges is called, one step before the transaction:
entity, action and `EntityId`, which is the first key column. A new server or tag
has only a temporary value there (`Null`), and so have the join rows of a new
server; a join row is named by its server, so that two of them may read alike,
and each line is kept beside the entry it is about.
`SaveFails` covers a name that another circuit took first (the unique index) and
a missing row; it ends the circuit of a Save and leaves a Delete's pending.
`Reload` starts a new circuit in which the user repeats the task; `Restart` ends
all circuits at any point and keeps the database.

### Reconnect and MapSession

`Reconnect` is `ReconnectModal.razor.js`: the dialog (`modal`), whether a return
to the tab retries (`listening`), and up to `Calls` attempts of the script's own
besides Blazor's (`auto`). The server decides an attempt in one step (`Answer`)
and the script acts on it in another (`Succeeds`, `Refused`, `Fails`); in
between the connection may be lost again, or another attempt succeed. `circuit`
says whether the server still has the page's circuit (`live`), its state only
(`kept`) or nothing.

`MapSession` puts the map on that page. A click changes `sel` at once and
`saves` counts the ones whose localStorage write is still to come; a new circuit
loads what is `stored`, as far as its servers still exist (`Valid`), and starts
with all of them if nothing is left. `hurried` says that the user has clicked
while the settings were loading.

### CompoundGraph, SpectralGraph, Cose

`CompoundGraph` has the methods of `LGraph`, `LGraphManager`, `LNode` and
`LEdge` that the map reaches, each from one manager record to the next, with the
three caches and with `thrown` for their assertions. `SpectralGraph` is
`spectralLayout` up to the numerical part: levels, dummy nodes, breadth-first
distances, greedy samples. `Cose` runs the whole of `runLayout` over them, one
action per stage: spectral draft, transfer of the elements, tiling
(`TilingPreLayout`), pruning and counting (`ClassicLayout`), the tick loop
(`SpringTick`, `GrowTick`, `WaitTick`, `CoolTick`), tiles back
(`TilingPostLayout`), positions. Whether the nodes hold still, and whether they
oscillate, is a free choice in every tick; nothing else of coordinates is in it.
Where the code's choice depends on coordinates or on hash order a CHOOSE or an
\E stands for it.

`Maps` are the element lists a page can hand over. `MapAssumption` says what
Cytoscape has made sure of by then: an id is taken once, parents and ends are
nodes, no node lies in itself, and nobody has taken the id of a dummy. Loops
over a list are `InTurn` (`Lists`), a recursive function of the position.

### Rectangles and Boxes

`Rectangles` is `IGeometry` and `RectangleD`: intersection, separation, clip
point, repulsion's direction. `Boxes` follows two boxes of the root graph
through a layout: members are packed row by row (`InsertMember`), the packed box
and a server with its services lie anywhere (`Sized`), the grid is made
(`UpdateGrid`), both boxes move in the directions their forces have (`MoveNodes`), a
pruned leaf grows back (`GrowTree`), tiles return (`Repopulate...`), the map
moves to where its middle was (`RelocateComponent`). Forces have a direction and
no size. What the code halves is even in the instances, so that integers are
exact.

## 4. Runs

| Run | Instance | Distinct states | Shows |
|---|---|---|---|
| `two_circuits` | 2 circuits, 1 connection, and either a server and a service or two services | 653,646 | references always resolve; idle circuits hold nothing unsaved but refused deletes; only a circuit that tracks a connection can delete what it refers to; relations change by their own edits; a circuit whose pending delete was done by another writes nothing; no row comes back; each commit is one edit or insert with whole deletes (`Inventory`) |
| `one_circuit` | 1 circuit, 2 servers, 2 services, 1 connection | 497,869 | a refused delete carried out later takes a connection's source server or source service only with that very row |
| `map_filter` | 3 servers, 2 services, 1 connection, every inventory | 70,838 | what is built can be drawn and hides no connection; one click only adds or only removes |
| `map_on_screen` | 2 servers, 2 services, 1 connection; two inventories, one of them with a service on two servers | 539,598 | the screen converges to the filter; a fade that nothing overtook does not kill the render loop; no interleaving makes `update` throw back into the circuit |
| `search` | 2 texts, 4 keystrokes, 2 queries per search, delay 3, queries of up to 1 or up to 3 | 22,816 | results shown as final belong to the text in the box; an announced search ends; with fast queries the searches of one box do not meet |
| `layout` | 3 servers and 3 services in every nesting, every choice of up to 3 of 9 connections; 4 deep maps; an empty one | 24,767 | no assertion of the graph manager fails and the graph stays a tree; the sampled distances are all known and no vertex is sampled twice; lists and gravity are up to date in every tick; every two nodes of a graph repel once, by known weights; all that was tiled or pruned is back at the end; the loop ends |
| `boxes` | up to 3 members of 4 shapes, 3 labels and none, 9 places, 8 moves of the two | 96,782 | every box is in the grid and found there; overlaps come apart; clip points are on the border; a leaf grows back on an emptiest side at its spring's length; tiles fit and do not meet; the map stays where it was |
| `session` | 2 servers to select, two lists, 2 attempts, 2 saves outstanding | 375,368 | the dialog is open exactly while the page is disconnected; no reload of a page in use; the page recovers once the server stays; the filter saved last is the one shown |
| `forms` | 2 users, 2 servers, 2 tags, 3 tasks, 1 restart | 549,096 | nothing half done in any tracker; a reported save has stored its tags; the audit log has a true line for every insert, update and delete; every new server lands in the end |

Bounds and why they suffice:

* Two circuits: every race of the store is between one handler and one commit of
  another circuit; the tracker of the first already stands for any past.
  Keys are used up (`used`), so state is finite without a bound on steps.
  `Retired` has the sets of keys of which one is used up from the start: in
  `two_circuits` a server or a service, so that each kind of source is met by a
  destination without the product of both. `Offers` are the rows the form of a
  connection may submit: there no source, the server or the other service, in
  `one_circuit` all that there are. A commit handles the two sources by
  conjuncts of their own, so that a row with both shows no more than one of each.
* Three servers on the map give a selected one, a related one and one off the
  map; `ListRank` and `NameRank` are opposite, so that the two lookups disagree
  wherever they can.
* `MaxFades = 2`: one fade under way and one overtaking it. `MaxSelected = 1`:
  the Delete key removes one element (and what hangs on it) at a time. For
  `script_error` they are 1 and 0: a user who waits and deletes nothing, but three
  servers.
* `layout`: three services are enough for a path that is pruned in two layers
  from both ends, a cycle that is not pruned, a node apart that is tiled, and
  two trees that meet; the four deep maps (all five others inside one server)
  prune two layers and leave a rest. Periods are 2 and `MaxIterations` 3 instead
  of 10, 100 and 2500: what matters is that each of the counters' conditions is
  true at some ticks and false at others, in every order.
* `boxes`: `MemberLimit = 3` gives a first row, one that is joined, and a second;
  four shapes are high, wide, square and small; nine places have the packed box
  inside, over, beside and far from the server; `Ticks = 1` because a tick starts
  from any place anyway; the move it makes is enough for tiles put at the place
  where their box was sized to be found outside of it.
* `session`: `Calls = 2` is one attempt and one overlapping it; `MaxSaves = 2` a
  click during the save of another; a server is deleted and created anew while
  the page is away.
* `forms`: two users and one name make the race; `MaxVisits = 3` lets the first
  finish and come back to what the second has changed; one restart can come at
  any point.
* `MaxTyped = 4`: three keystrokes reach a running, a waiting and a new search;
  the fourth follows a navigation. Two queries have a first, a last and a gap.
* Symmetry is used for interchangeable keys and circuits in runs without
  liveness; services in `map_filter`, nowhere servers with an order.

`SearchesNeverMeet` speaks of sessions in which a search takes less than the
300 ms delay. Nothing in the code ensures that. In the slow sessions of the same
run a cancelled search, which goes on because no token reaches it, meets the
next one and the circuit ends.

**Deadlock** is checked everywhere but in `GlobalSearch`, where the circuit may
be gone. `Cose` and `Boxes` stutter when they are done.

**Fairness** is assumed where something must eventually happen.

* `search`: weak fairness of the queued continuations and of time. The
  synchronisation context runs what is queued, timers fire, and the database
  answers or fails.
* `session`: weak fairness of each attempt of the script (the server answers or
  the connection fails, and a promise that is settled continues), of Blazor's
  own attempts, and of a user who leaves the tab and returns to it; strong
  fairness of the resume button, because the dialog that offers it may close and
  open again. `Recovers` needs the user: when all attempts have failed, the
  script itself waits for one. `Recovers` speaks of servers that stay in reach.
* `forms`: every handler comes to an end, which is what the scheduler of the
  process and the timeouts of the database ensure; users submit the form
  they have filled in and reload a page that is dead.
* `layout`: `runLayout` is one synchronous call, so a step follows a step.

Nothing makes a user act in the other modules, so they assume none.

**Variants.** Next to some definitions stands a second one marked "Mutant": the
same step with a plausible bug. With it in place, the property paired with it in
`PROJECT.json` fails, which shows that the property depends on that step.

A property made of parts (`ListsSound`, `GridSound`, ...) has a variant for each
part that can fail on its own.

### Findings

Each is a run that ends in a counterexample to what a test, a comment or a
scenario says.

| Run | What happens |
|---|---|
| `saved_conn` | `FindAsync` answers from the tracker. A submitted value equal to the stale snapshot is no change and is not written over what another circuit has stored. |
| `new_service` | A service created on existing servers inserts them again, or collides with tracked instances. |
| `script_error` | A fade takes a service along with the compound node it still sat in; the edge to be added then has lost its end, and `add` throws inside the render loop. |

The first two go back to one decision: the tests have a context that nothing
used before, the circuits have one with a past. More that the models show of the
code, where no text of the repository says otherwise:

* A refused delete stays pending in the tracker. A connection the circuit then
  creates with that server is stored without it: the cascade nulls the
  reference, the tracker still deletes the server.
* A server another circuit has deleted is still found in the tracker; the delete
  fails, and with it every later save of that circuit (`StuckUntilReload`).
* Removing a compound node takes along a service that is in the new set because
  it is also on a selected server (`script_error` is this with an edge to be
  added, and needs only clicks and patience); and a click within the 300 ms of a fade finds
  elements present that are then removed, although the new filter wants them.
  `Converged` says when neither happens.
* A cancelled search goes on, because no token reaches it; when it takes longer
  than the delay it meets the next one in the DbContext, and any search may meet
  a page that loads.
* `shiftToLastRow` never shifts: it reads a width from a field that nodes do not
  have (`MoreThan` in `Boxes`), against the comment above it.
* The update of a server that another circuit has deleted is reported as done
  (the exception in `SavedWithItsTags`).

## 5. Proofs

`CircuitStoreProofs` proves, for any sets of circuits, servers, services and
connections that satisfy `KeysAssumption` (kinds of keys are disjoint, `Null` is
none of them), and any `Offers` and `Retired` (`StoreAssumption`: rows and sets of
keys):

* `TypeCorrect` - `Spec => []TypeOK`.
* `Integrity` - `Spec => []ReferentialIntegrity`.
* `OnlyDeletesLingerAlways` - `Spec => []OnlyDeletesLinger`.
* `RestrictHolds` - `Spec => RestrictProtects`, an action property.

The argument. `CommittedConsistent` is the core: a save that is not `Refused`
takes a consistent database to a consistent one whatever the tracker holds, so
integrity does not depend on trackers being fresh. It does need them to be
trackers, and that is where induction comes in: `FindConn` may return an entry
left from earlier handlers, and an update is well-typed only if that entry is
not a half-finished insert. So the inductive invariant is

    IInv == TypeOK /\ ReferentialIntegrity /\ \A c \in Circuits : Lingering(c)

where `Lingering(c)` strengthens `OnlyDeletesLinger` to circuits that are in the
middle of a Delete: their tracker, too, holds pending deletes only, because a
Delete that is refused makes the circuit idle with the tracker as it is. One
lemma per helper (`CascadeType`, `AcceptedLingers`, ...), one step per handler,
one conjunct each. `RestrictHolds` follows from `Refused` and the definition
of `Committed` under `IInv`.

It goes on with what a commit does to the inventory:

* `DeletedForGood` - `Spec => NoResurrection`.
* `RelationsByEdit` - `Spec => RelationsChangeOnlyByEdit`.
* `StuckForGood` - `Spec => StuckUntilReload`: no handler takes a pending delete
  back (`HandlerKeepsGone`), and such a delete refuses every save (`StuckRefuses`).
* `Implements` - `Spec => ImplementsInventory`, step simulation with the identity
  as refinement mapping on `db` and `used`
  (`Promised == INSTANCE Inventory WITH ...` in `CircuitStore`).

For these `IInv` is too weak: it says what an idle circuit holds, not what a
Save under way holds. `SInv == IInv /\ KeysInv` adds, for each circuit that
awaits its Save (`Pending`), that the tracker has one edit or insert, of the row
the handler is about, and otherwise deletes and what they cascade to
(`OneEdit`); that a row to be inserted has a key never used, and no other
circuit's handler has it (keys come from identity columns); and that what is
tracked otherwise was in the database once (`Known`). `Known` is why a handler
that adds a server cannot overwrite a pending delete: the key would be used. Each
handler ends in `Await`, so one lemma (`AwaitKeys`) carries the induction over
all of them. `CommittedIds`, `CommittedConn` and `CommittedLink` turn `OneEdit`
into what one commit may change, and `SaveIsTransaction` puts them together.

One theorem is about a user alone, in any inventory (`OneCircuit`: there are no
two circuits, as in the run `one_circuit`):

* `SourceIsSafe` - `OneCircuit => (Spec => SourceLostOnlyIfDeleted)`.

With two circuits it is false: the snapshot of one may name a server or service
that the other has replaced since, and cascading its delete nulls the new one. The
invariant `AInv` adds to `SInv` that the sources of a tracked connection are
those in the database. It holds because what is written becomes the snapshot, and
because a failing Save, which could leave changes that were not written, ends
the circuit.

`GraphViewProofs` proves of the filter alone, for any inventory and any two orders
that satisfy `OrderAssumption` (every non-empty set of servers has a first one):

* `TypeCorrect` - `FilterSpec => []FilterTypeOK`.
* `AlwaysDrawable` - services sit in drawn servers, edges end at drawn nodes.
* `NeverHides` - if each service is on one server (`WellPlaced`), every
  connection between elements on the map is on it. Without that premise the
  list lookup may choose a server that is not visible.
* `ClicksAreOneWay` - no click both adds and removes, so that without a race
  nothing new has to wait for a fade: `VisibleGrows` and `IdsGrow`
  show that the elements are monotone in the visible servers, and each click
  moves those one way.

And of the map on the screen, for any inventories, orders, and number of clicks,
fades and visits:

* `UpdateNeverThrows` - `Spec => []HandlersSurvive`.
* `LoneFades` - `Spec => LoneFadeIsSafe`, an action property.
* `ScreenCatchesUp` - `Spec => []Converged`.

`update` never throws for any inventory, because it only adds elements whose
nodes are there or come with them. The other two say what is on the screen once
no fade is under way; the invariant says how far a screen with fades under way
is from the filter. With every service on one server, all that is on the screen
or about to be put there is from this visit's inventory, where an element has
one place (`Ours`). If no click has raced, the map lacks nothing but the removal
that is still to come (`Fresh`). If
the last click found the map at rest, one fade has all of the difference, or the
map has the wanted elements and the callbacks still to come change nothing
(`Settled`). Each click
either only adds or only removes (`ClickOneWay`), so that a fade leaves one of
these for the next. `Converged` follows for an empty bag of fades.

`GlobalSearchProofs` proves, for any texts, delays and latencies that satisfy
`SearchAssumption`:

* `TypeCorrect` - `Spec => []TypeOK`.
* `ResultsAreOfQuery` - `Spec => []ResultsMatchQuery`.
* `SearchesStayApart` - `Spec => []SearchesNeverMeet`.

The inductive invariant adds to `TypeOK` what a task has done so far (`Counted`);
that whatever a task which is not cancelled will show answers the text in the box
(`Current`); and, for fast queries, `Apart`: at most one task is in its delay and
one past it, and the latter's `Rest(t)`, the longest it may still take, is less
than what is left of the other's delay. `Tick` takes one off both sides.

`MapSessionProofs` proves, for any attempts, servers, lists and outstanding saves:

* `TypeCorrect` - `Spec => []TypeOK`.
* `DialogIsTrue` - `Spec => []DialogTellsTruth`.
* `FilterIsKept` - `Spec => []FilterKept`.
* `ReloadsAreDue` - `Spec => NoReloadInUse`.

What a reload looks at, the answer of its own attempt, does not show that nobody
uses the circuit: another attempt may have connected since. It follows from what
an answer still tells about the circuit whatever the others did (`RecInv`): only
a live circuit is connected, a yes means that it stays live until it is handled,
a no to a resume that there is nothing left to come back to. `FilterInv` is
`FilterKept` also for pages that are not connected, since a circuit may come back
as it was, and says that all is selected until settings or a click change it.

`ServerFormProofs` proves, for any servers, tags and circuits that satisfy
`FormAssumption` (servers, tags and join rows differ, `Null` is none of them,
somebody is there), and any number of visits and restarts:

* `SavesLeaveNothing` - `Spec => []NothingHalfDone`.
* `TagsArrive` - `Spec => SavedWithItsTags`.
* `AuditIsComplete` - `Spec => AuditComplete`.

A Save is a commit for each tag and one for the server, and between them other
circuits insert the same names, delete the server, or come to an end. The invariant has a part for
each thing it relies on then: nothing of the form is pending between two saves
(`Clean`); a tag once found stays, since nobody deletes tags (`TagsStay`); tags
found and tags to be found make up the form (`InHand`); the log has the lines of
what the awaited transaction will write (`Logged`), which are true of it because
a row that is inserted has no key in the database yet (`InsertsAreNew`) and all
others are found by the one they have (`LinesAreTrue`); nobody else has a new server's key
(`OwnKey`), so that no join row of it is tracked before (`KnownLinks`); and the
join rows queued are those of the tags on the form (`Rejoined`), but for a server
whose delete is pending and which the commit therefore removes or refuses.

`BoxesProofs` proves the geometry for any lists of members, labels, places and
moves of integer coordinates that satisfy `BoxesAssumption` and
`TilingAssumption`. The latter says that what is tiled has members and that sizes
are even where the code halves them; that `TilePadding` is positive is as
`graphmap.js` sets it (`tilingPaddingVertical: 10`).

* `TypeCorrect` - `Spec => []TypeOK`: each member that is inserted is in one place
  of one row.
* `TilesStayInPlace` - `Spec => []TilesInPlace`.
* `GridServesForces` - `Spec => []GridSound`.
* `LeafGrowsInPlace` - `Spec => []LeafInPlace`.
* `MapKeepsItsPlace` - `Spec => []CentreKept`.
* `BoxesComeApart` - `Spec => []SeparationClears`.
* `LinesLeaveOnBorders` - `Spec => []ClipsOnBorder`, one case for each quarter and
  each side; products of slopes are compared, never divided.
* `SeparationAlwaysClears`, `ClipIsOnBorder` - the same of any two boxes, whether a
  layout has them or not.
* `CellsAreInGrid`, `NearAlwaysFound` - for any width of a cell, a box inside the
  bounds falls into the grid, and two boxes in range share a searched cell.
  `GridServesForces` rests on them.

Tiling keeps the width and height of rows as it goes and never adds them up;
repopulation adds them up and never looks at what was kept. The invariant
therefore says that what is kept is a sum of what is in the rows (`Measured`),
of which `TilesInPlace` is a consequence: the boxes that are laid out one after
another end where the kept size says. Sums are a recursive function, and no
induction theorem of the library can be used on them; `SumsExist` and
`SumsDiffer` argue by the least number at which a claim would fail
(`LeastNatural`, from well-foundedness). The other parts are that the grid is
the one of the boxes as they are whenever it is read (`GridOK`), and that the
leaf is where it grew (`LeafOK`).

`CoseProofs` proves, for any finite set of nodes, any maps that satisfy
`MapAssumption` and any periods that satisfy `PeriodAssumption`:

* `CoseWellFormed` - `Spec => []WellFormed`.
* `CoseListsSound` - `Spec => []ListsSound` (and `CoseCachesFresh`, its first half).
* `CoseEverythingBack` - `Spec => []EverythingBack`.
* `CoseForcesSound` - `Spec => []ForcesSound`.
* `CoseSpectralSound` - `Spec => []SpectralSound`.
* `TransferredIsPlaced`, `ReduceGood`, `GrowReduced`, `CountsSimple` - what the
  loops these rest on do to any well-formed graph.

It rests on `CompoundGraphProofs`, which has what a method of the graph manager
does to any well-formed manager, and two theorems of its own:

* `LcaExists` - `calcLowestCommonAncestors` finds an ancestor for every edge.
* `ConnectedHangs` - `updateConnected` says that a graph is connected exactly if
  its nodes are not two sets that no edge joins.

The inductive invariant (`CoseInvariant`) is `CoseInv`:

* `PhaseInv`: only a map with elements gets as far as the spectral layout.
* `GraphInv`: the manager as a function of the map and the phase. Up to the ticks
  it is known exactly (`Start`, `Packed`). From then on (`Springy`) the graph is
  well formed, and it together with the pruned layers is what it was before
  pruning.
* `TickInv`: gravity and weights are those of the graph before pruning; once the
  growth is over no layer is left out.
* `TilingInv`: what was tiled, in which order, is a function of the map as well.

How each part goes:

* **Loops.** A loop is a recursive function of the position. `Turns` carries a
  predicate of the turn's number from each turn to the next, by the least turn
  where it would fail; the lemmas about loops cite it. Recursion over the
  tree of compounds goes by height in the same way (`FromBelow`,
  `TreeRecursion`), a search by the number of nodes not yet reached (`ReachFacts`).
* **Pruning.** A layer keeps with each leaf its edge and its graph. What has to
  be shown is that both are there when the layer goes back: the other end of the
  edge was pruned in a later layer, if at all, and is back earlier. `Reduced`
  says so of a graph and the layers beside it, and that the two together are the
  graph before pruning; a pruned layer or one put back keeps it.
* **Tiling.** Compounds are packed inner ones first and come back outermost
  first. Nothing that was placed in a compound moves with another one, since
  whatever holds it comes earlier in the order.
* **Lists.** A list of nodes that gravity pulls on is made before pruning and
  filtered later. A graph that hung together then still does, whatever leaves are
  out (`LeavesHang`): a cut of what is left, with each leaf put on the side of its
  neighbour, would cut the whole.
* **Forces.** The lists of nodes to repel are renewed in some ticks only.
  `ForceInv` adds that after the first tick they are right for the graph as it
  is, which holds because the counters ask for new lists in each tick in
  which a layer comes back. What each weight adds up to along the list of
  children is the number of simple nodes below, which is at least one.
* **Sampling.** A set of vertices that no edge leaves has, by induction on the
  height of a compound, all or nothing of what is inside it: the search of
  `connectComponents` puts two children into one part if edges join them, and
  the dummy vertex joins one node of each part (`MapIsOnePiece`). In a graph that
  is in one piece each turn of the breadth-first search finds a vertex, so that
  every distance is below the number of vertices (`DistanceFacts`), and the
  vertex farthest from all samples is not one of them (`NextIsNew`).

Every invariant and every action property of a passing run is thus proved.
Only model-checked are the liveness properties (`SearchEnds`, `Terminates`,
`Recovers`, `NewServersLand`): liveness under fairness and ENABLED are out of the
prover's reach. The findings of section 4 are counterexamples and stay with TLC.

## 6. Not modelled

* **Numerics of the layout**: power iteration and singular values, the size of
  forces, ideal edge lengths, estimated sizes and depths. They are real-valued;
  the models keep what they decide (still or not, direction) as a choice.
* **Parts of the layout the map never reaches**: constraints (the options set
  none), draft quality, component packing (its library is not loaded), the
  radial layout and `getFlatForest`, which the random draft replaces, tiling by
  another order than area, event emitters and the linked list of layout-base.
* **Hover, tooltips and dimming by the pointer**: they need a pointer over a drawn
  graph. The key listener `init` adds again with every visit acts on the one
  current instance.
* **Certificates, users, groups**: single tables; an edit that fails because the
  circuit already tracks the row depends on its own past only. The account of a
  service (a copied name beside a reference) is left out with them.
* **`ActiveDirectoryService`** only reads an external directory;
  **`FakeAdService`** is a development stand-in for it.
* **Migrations, the list of operating systems** are data; registration and a
  restart of the process are in `CircuitStore` and `ServerForm`.
* **Records of transactions that fail afterwards**: the audit log promises nothing
  about them.
* **A search that meets a page load** is reachable in `GlobalSearch` (`fate`); no
  text of the code says that it may not happen, so no property does.
* Presentation, themes, dialogs, the development authentication handler and
  deployment files have no state whose order matters; Cytoscape itself is modelled
  as far as `graphmap.js` uses it.
