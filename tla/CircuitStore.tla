------------------------------ MODULE CircuitStore ------------------------------
(***************************************************************************)
(* The inventory as its users edit it: several Blazor Server circuits over *)
(* one database.  AppDbContext is registered scoped and every page of a    *)
(* circuit shares the scope, so a circuit owns one change tracker from its *)
(* first page to its last.                                                 *)
(*                                                                         *)
(* A handler of a page runs in two steps: it reads and changes the tracker *)
(* (AddServer ... DeleteConn), then it awaits SaveChanges; other circuits  *)
(* run in between.  Save handlers catch nothing, so an exception ends the  *)
(* circuit; Delete handlers catch everything and the circuit goes on with  *)
(* the tracker as it is.                                                   *)
(***************************************************************************)
EXTENDS ChangeTracker

CONSTANTS Circuits,
          Offers,   \* bound: the rows the form of a connection may submit
          Retired   \* bound: sets of keys, one of which is used up at the start

ASSUME StoreAssumption ==
  Offers \subseteq Row /\ Retired \subseteq SUBSET (Ents \cup Conns)

VARIABLES db,    \* the database
          used,  \* keys that have ever been in a table
          trk,   \* the change tracker of each circuit's DbContext
          op,    \* the handler each circuit is running, and its subject
          view   \* the keys on the page each circuit shows

vars == <<db, used, trk, op, view>>

Ids == Ents \cup Conns

OpKinds == {"idle", "save", "delete", "dead"}
Idle == [kind |-> "idle", id |-> Null]
Dead == [kind |-> "dead", id |-> Null]
Saving(id)   == [kind |-> "save", id |-> id]
Deleting(id) == [kind |-> "delete", id |-> id]
Busy(c) == op[c].kind \in {"save", "delete"}

TypeOK ==
  /\ db \in Database
  /\ used \in SUBSET Ids
  /\ trk \in [Circuits -> Tracker]
  /\ op \in [Circuits -> [kind : OpKinds, id : Ids \cup {Null}]]
  /\ view \in [Circuits -> SUBSET Ids]

\* The application starts on whatever consistent database it finds; rows may
\* have been deleted from it.
Init ==
  /\ db \in Database /\ Consistent(db)
  /\ \A k \in Conns : db.conn[k] \in Offers \cup {NoRow}
  /\ \E gone \in Retired : used = IdsOf(db) \cup gone /\ gone \cap IdsOf(db) = {}
  /\ trk  = [c \in Circuits |-> EmptyTracker]
  /\ op   = [c \in Circuits |-> Idle]
  /\ view = [c \in Circuits |-> {}]

(***************************************************************************)
(* Tracking queries.  A row that is already tracked keeps its entry.       *)
(***************************************************************************)
Track(t, E) == [t EXCEPT !.ent = [e \in Ents |->
                  IF e \in E /\ t.ent[e] = "none" THEN "unchanged" ELSE t.ent[e]]]

\* FindAsync asks the tracker first and the database only if it must.
FindConn(t, k) ==
  IF t.conn[k] # NoEntry THEN t.conn[k]
  ELSE IF db.conn[k] = NoRow THEN NoEntry
  ELSE [st |-> "unchanged", orig |-> db.conn[k], cur |-> db.conn[k]]

FindEnt(t, e) ==
  IF t.ent[e] # "none" THEN t.ent[e]
  ELSE IF e \in db.ent THEN "unchanged" ELSE "none"

\* A key the identity column may hand out next.
Fresh(id) == id \notin used /\ \A c \in Circuits : op[c].id # id

\* A handler that queued work and now awaits SaveChanges.
Await(c, t, o) ==
  /\ trk' = [trk EXCEPT ![c] = t]
  /\ op'  = [op EXCEPT ![c] = o]
  /\ UNCHANGED <<db, view>>

\* A handler that found no row, returned, and reported success; the page
\* it navigates to is loaded afresh.
NothingFound(c) ==
  /\ view' = [view EXCEPT ![c] = IdsOf(db)]
  /\ UNCHANGED <<db, trk, op>>

(***************************************************************************)
(* ServerRepository and AppServiceRepository.                              *)
(***************************************************************************)
\* The services are loaded with tracking before the server is added.
AddServer(c, s, sel) ==
  /\ op[c] = Idle
  /\ s \in Servers /\ Fresh(s)
  /\ sel \subseteq Services \cap view[c]
  /\ LET t == Track(trk[c], sel \cap db.ent) IN
     Await(c, [t EXCEPT !.ent[s] = "added",
                        !.link = [l \in Links |->
                           IF l[1] = s /\ l[2] \in sel \cap db.ent
                           THEN "added" ELSE t.link[l]]],
           Saving(s))
  /\ UNCHANGED used

\* Mutant: the servers are inserted as if they were new rows.
AddServiceInsertsServers(c, v, sel) ==
  /\ op[c] = Idle
  /\ v \in Services /\ Fresh(v)
  /\ sel \subseteq Servers \cap view[c]
  /\ Await(c, [trk[c] EXCEPT !.ent = [e \in Ents |->
                 IF e \in sel \cup {v} THEN "added" ELSE trk[c].ent[e]]], Saving(v))
  /\ UNCHANGED used

\* The servers hang off the new service as the page read them, untracked:
\* Add marks them Added with the key they have, or throws if the context
\* already tracks one of them.
AddService(c, v, sel) ==
  /\ op[c] = Idle
  /\ v \in Services /\ Fresh(v)
  /\ sel \subseteq Servers \cap view[c]
  /\ IF \E s \in sel : trk[c].ent[s] # "none"
     THEN Await(c, EmptyTracker, Dead)
     ELSE Await(c, [trk[c] EXCEPT
                      !.ent = [e \in Ents |-> IF e = v THEN "added"
                                              ELSE IF e \in sel THEN "keyed"
                                              ELSE trk[c].ent[e]],
                      !.link = [l \in Links |->
                                  IF l[2] = v /\ l[1] \in sel
                                  THEN "added" ELSE trk[c].link[l]]],
                Saving(v))
  /\ UNCHANGED used

\* Clear and re-add of the navigation collection of e, seen as what
\* DetectChanges makes of it; touched: a scalar column changes as well.
Relinked(t, e, sel, touched) ==
  LET own    == {l \in Links : e \in Ends(l)}
      chosen == {l \in own : Ends(l) \ {e} \subseteq sel \cap db.ent}
      met    == UNION {Ends(l) : l \in chosen \cup (own \cap db.link)}
      u      == Track(t, met \cup {e})
      loaded(l) == IF t.link[l] = "none" /\ l \in db.link THEN "unchanged"
                                                          ELSE t.link[l]
  IN [u EXCEPT
        !.ent[e] = IF touched /\ @ = "unchanged" THEN "modified" ELSE @,
        !.link = [l \in Links |->
                    IF l \notin own THEN t.link[l]
                    ELSE IF l \in chosen /\ loaded(l) = "none" THEN "added"
                    ELSE IF l \notin chosen /\ loaded(l) = "unchanged" THEN "deleted"
                    ELSE loaded(l)]]

Update(c, e, sel, touched) ==
  /\ op[c] = Idle
  /\ e \in view[c]
  /\ IF e \notin db.ent THEN NothingFound(c)
     ELSE Await(c, Relinked(trk[c], e, sel, touched), Saving(e))
  /\ UNCHANGED used

UpdateServer(c, s, sel, touched) ==
  /\ sel \subseteq Services \cap view[c]
  /\ Update(c, s, sel, touched)

UpdateService(c, v, sel, touched) ==
  /\ sel \subseteq Servers \cap view[c]
  /\ Update(c, v, sel, touched)

\* FindAsync, Remove.
Delete(c, e) ==
  /\ op[c] = Idle
  /\ e \in view[c]
  /\ IF FindEnt(trk[c], e) = "none" THEN NothingFound(c)
     ELSE Await(c, [trk[c] EXCEPT !.ent[e] = "deleted"], Deleting(e))
  /\ UNCHANGED used

DeleteServer(c, s)  == s \in Servers /\ Delete(c, s)
DeleteService(c, v) == v \in Services /\ Delete(c, v)

(***************************************************************************)
(* ServiceConnectionRepository.                                            *)
(***************************************************************************)
\* The lists of the form are those its page read when it was opened.
OnPage(c, row) == {row.srv, row.src, row.svc} \subseteq view[c] \cup {Null}

AddConn(c, k, row) ==
  /\ op[c] = Idle
  /\ k \in Conns /\ Fresh(k)
  /\ OnPage(c, row)
  /\ Await(c, [trk[c] EXCEPT !.conn[k] = [st |-> "added", orig |-> NoRow, cur |-> row]],
           Saving(k))
  /\ UNCHANGED used

UpdateConn(c, k, row, touched) ==
  /\ op[c] = Idle
  /\ k \in view[c]
  /\ OnPage(c, row)
  /\ LET n == FindConn(trk[c], k)
         m == IF n.st = "deleted" THEN n    \* assignments to it are ignored
              ELSE [n EXCEPT !.st = IF touched THEN "modified" ELSE @, !.cur = row]
     IN IF n = NoEntry THEN NothingFound(c)
        ELSE Await(c, [trk[c] EXCEPT !.conn[k] = m], Saving(k))
  /\ UNCHANGED used

DeleteConn(c, k) ==
  /\ op[c] = Idle
  /\ k \in view[c]
  /\ LET n == FindConn(trk[c], k) IN
     IF n = NoEntry THEN NothingFound(c)
     ELSE Await(c, [trk[c] EXCEPT !.conn[k] = [n EXCEPT !.st = "deleted"]], Deleting(k))
  /\ UNCHANGED used

\* GetOrCreateAsync of a new tag, which a Save handler awaits for each tag
\* before it calls its repository: a SaveChanges of its own, which takes
\* along whatever else the tracker holds.  The page stays where it is.
CreateTag(c) ==
  /\ op[c] = Idle
  /\ Await(c, trk[c], Saving(Null))
  /\ UNCHANGED used

(***************************************************************************)
(* SaveChangesAsync: everything pending, in one transaction.  After it the *)
(* page navigates, and the page it opens reads the tables.                 *)
(***************************************************************************)
SaveSucceeds(c) ==
  LET t == Cascade(trk[c]) IN
  /\ Busy(c)
  /\ ~Refused(db, t)
  /\ db'   = Committed(db, t)
  /\ trk'  = [trk EXCEPT ![c] = Accepted(t)]
  /\ op'   = [op EXCEPT ![c] = Idle]
  /\ view' = [view EXCEPT ![c] = IF op[c].id = Null THEN @ ELSE IdsOf(db')]
  /\ used' = used \cup IdsOf(db')

\* Mutant: Save handlers catch the exception too.
SaveFailsAndIsCaught(c) ==
  LET t == Cascade(trk[c]) IN
  /\ Busy(c)
  /\ Refused(db, t)
  /\ trk' = [trk EXCEPT ![c] = t]
  /\ op'  = [op EXCEPT ![c] = Idle]
  /\ UNCHANGED <<db, used, view>>

\* The exception leaves the tracker as the cascade made it.  No Save handler
\* catches it, which ends the circuit and disposes its scope; every Delete
\* handler does, and shows a message.
SaveFails(c) ==
  LET t == Cascade(trk[c]) IN
  /\ Busy(c)
  /\ Refused(db, t)
  /\ trk' = [trk EXCEPT ![c] = IF op[c].kind = "save" THEN EmptyTracker ELSE t]
  /\ op'  = [op EXCEPT ![c] = IF op[c].kind = "save" THEN Dead ELSE Idle]
  /\ UNCHANGED <<db, used, view>>

(***************************************************************************)
(* The circuit itself.                                                     *)
(***************************************************************************)
OpenPage(c) ==
  /\ op[c] = Idle
  /\ view' = [view EXCEPT ![c] = IdsOf(db)]
  /\ UNCHANGED <<db, used, trk, op>>

\* A reload of the browser page starts a new circuit with a new scope.
Reload(c) ==
  /\ ~Busy(c)
  /\ trk'  = [trk EXCEPT ![c] = EmptyTracker]
  /\ op'   = [op EXCEPT ![c] = Idle]
  /\ view' = [view EXCEPT ![c] = IdsOf(db)]
  /\ UNCHANGED <<db, used>>

\* The server process restarts: every circuit is lost, with what it awaited.
Restart ==
  /\ trk'  = [c \in Circuits |-> EmptyTracker]
  /\ op'   = [c \in Circuits |-> Idle]
  /\ view' = [c \in Circuits |-> {}]
  /\ UNCHANGED <<db, used>>

Handler(c) ==
  \/ \E s \in Servers, sel \in SUBSET Services : AddServer(c, s, sel)
  \/ \E v \in Services, sel \in SUBSET Servers : AddService(c, v, sel)
  \/ \E s \in Servers, sel \in SUBSET Services, touched \in BOOLEAN :
        UpdateServer(c, s, sel, touched)
  \/ \E v \in Services, sel \in SUBSET Servers, touched \in BOOLEAN :
        UpdateService(c, v, sel, touched)
  \/ \E s \in Servers : DeleteServer(c, s)
  \/ \E v \in Services : DeleteService(c, v)
  \/ \E k \in Conns, row \in Offers : AddConn(c, k, row)
  \/ \E k \in Conns, row \in Offers, touched \in BOOLEAN : UpdateConn(c, k, row, touched)
  \/ \E k \in Conns : DeleteConn(c, k)
  \/ CreateTag(c)

Next ==
  \/ \E c \in Circuits :
       Handler(c) \/ SaveSucceeds(c) \/ SaveFails(c) \/ OpenPage(c) \/ Reload(c)
  \/ Restart

Spec == Init /\ [][Next]_vars

--------------------------------------------------------------------------------
(***************************************************************************)
(* Properties.                                                             *)
(***************************************************************************)

\* The inventory as the pages may rely on it.
Promised == INSTANCE Inventory WITH
  Servers <- Servers, Services <- Services, Conns <- Conns, Null <- Null,
  db <- db, used <- used

\* Whatever order circuits commit in and whatever their trackers remember,
\* no committed state has a connection or a join row with a missing end.
ReferentialIntegrity == Consistent(db)

\* What an idle circuit still holds unsaved is confirmed deletes that were
\* refused, and what they cascade to; a half-done edit or insert survives
\* no handler.  It rests on Save handlers ending the circuit when they fail.
Cascaded(n, gone) == \E E \in SUBSET gone : n.cur = Without(n.orig, E)

OnlyDeletesPending(t) ==
  /\ \A e \in Ents : t.ent[e] \in {"none", "unchanged", "deleted"}
  /\ \A k \in Conns :
       /\ t.conn[k].st \in {"none", "unchanged", "deleted"}
       /\ t.conn[k].st = "unchanged" => Cascaded(t.conn[k], Gone(t))
  /\ \A l \in Links : \/ t.link[l] \in {"none", "unchanged"}
                      \/ t.link[l] = "deleted" /\ Ends(l) \cap Gone(t) # {}

OnlyDeletesLinger ==
  \A c \in Circuits : op[c].kind = "idle" => OnlyDeletesPending(trk[c])

\* A server or service that a connection refers to is only ever deleted by a
\* circuit whose own tracker holds that connection: for every other circuit
\* OnDelete(Restrict) refuses.
DeleterTracksReferrers ==
  \A e \in db.ent \ db'.ent, k \in Conns : Refers(db.conn[k], e) =>
    \E c \in Circuits : /\ Busy(c) /\ e \in Gone(trk[c])
                        /\ trk[c].conn[k] # NoEntry

RestrictProtects == [][DeleterTracksReferrers]_vars

\* A surviving connection changes only in a Save of that very connection,
\* or loses its source server or source service, and nothing else, in a
\* transaction that deletes a server or a service, respectively.  A join
\* row comes or goes only in a Save of one of its ends, or with an end.
RelationsChangeOnlyByEdit ==
  [][/\ \A k \in Conns :
          db.conn[k] # NoRow /\ db'.conn[k] # NoRow /\ db'.conn[k] # db.conn[k] =>
            \/ \E c \in Circuits : op[c] = Saving(k)
            \/ Promised!OnlyLoses(db.conn[k], db'.conn[k], db.ent \ db'.ent)
     /\ \A l \in Links : (l \in db.link) # (l \in db'.link) =>
            \/ \E c \in Circuits, e \in Ends(l) : op[c] = Saving(e)
            \/ ~(Ends(l) \subseteq db'.ent)]_vars

\* With a single circuit, so that no snapshot is stale, a connection that is
\* not edited loses its source server or service only when that very row is
\* deleted, and nothing else.
SourceLostOnlyIfDeleted ==
  [][\A k \in Conns :
       db.conn[k] # NoRow /\ db'.conn[k] # NoRow /\ db'.conn[k] # db.conn[k] =>
         \/ \E c \in Circuits : op[c] = Saving(k)
         \/ db'.conn[k] = Without(db.conn[k], db.ent \ db'.ent)]_vars

\* Once a row whose delete is pending in a circuit is gone, removed by
\* somebody else, the circuit writes nothing more until it is reloaded or ends.
Stuck(c) == \E e \in Gone(trk[c]) : e \notin db.ent

StuckUntilReload ==
  [][\A c \in Circuits : Stuck(c) =>
       /\ op'[c] # op[c] => db' = db
       /\ Stuck(c)' \/ trk'[c] = EmptyTracker]_vars

\* A deleted server, service or connection never comes back, however many
\* circuits still track it or show it on a page.
NoResurrection == [][IdsOf(db') \cap used \subseteq IdsOf(db)]_vars

\* With the trackers hidden the store is a shared inventory: every commit is
\* one edit or insert of its user, together with whole deletes.
ImplementsInventory == Promised!Spec

--------------------------------------------------------------------------------
(***************************************************************************)
(* What the repository tests assert of one context that nothing has used   *)
(* before.  A circuit's context has a past, and each of these fails there. *)
(***************************************************************************)

\* ServiceConnectionRepositoryTests.UpdateAsync_ShouldChangeSourceServer:
\* what UpdateAsync queues, written over the row as it is in the database at
\* that moment, gives it the source server that was submitted.
SavedConnIsAsSubmitted ==
  [][\A c \in Circuits, k \in Conns :
       op[c] = Idle /\ op'[c] = Saving(k) /\ Live(trk'[c].conn[k])
         => WrittenConn(db, trk'[c], k).srv = trk'[c].conn[k].cur.srv]_vars

\* AppServiceRepositoryTests.AddAsync_ServiceCanBeOnMultipleServers: a new
\* service whose servers exist is stored with them.
NewServiceCanHaveServers ==
  [][\A c \in Circuits, v \in Services :
       op[c] = Saving(v) /\ trk[c].ent[v] = "added"
         /\ (\A l \in Links : trk[c].link[l] = "added" => l[1] \in db.ent)
         => op'[c] # Dead]_vars
================================================================================
