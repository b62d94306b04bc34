----------------------------- MODULE ChangeTracker -----------------------------
(***************************************************************************)
(* The relational database behind AppDbContext and the EF Core change      *)
(* tracker that stands between it and the repositories.  There is no       *)
(* state here: the module defines what a database and a tracker are and    *)
(* what one SaveChanges does to them.                                      *)
(*                                                                         *)
(* The tables kept are Servers, AppServices, ServiceConnections and the    *)
(* join table ServerServices.  A connection keeps its optional source, a   *)
(* server (SourceServerId; DestinationServerId is declared alike) and a    *)
(* service (SourceServiceId), and its required DestinationServiceId;       *)
(* scalar columns are reduced to "some column differs from the tracked     *)
(* snapshot".                                                              *)
(***************************************************************************)
CONSTANTS Servers,    \* identity values of table Servers
          Services,   \* identity values of table AppServices
          Conns,      \* identity values of table ServiceConnections
          Null        \* SQL NULL

ASSUME KeysAssumption ==
  /\ Servers \cap Services = {}
  /\ Conns \cap (Servers \cup Services) = {}
  /\ Null \notin Servers \cup Services \cup Conns

Ents  == Servers \cup Services
Links == Servers \X Services
Ends(l) == {l[1], l[2]}

(***************************************************************************)
(* Database: the rows of the four tables.                                  *)
(***************************************************************************)
Row   == [srv : Servers \cup {Null}, src : Services \cup {Null}, svc : Services]
NoRow == [srv |-> Null, src |-> Null, svc |-> Null]

Database == [ent  : SUBSET Ents,
             conn : [Conns -> Row \cup {NoRow}],
             link : SUBSET Links]

\* The identity values a page that reads every table gets to see.
IdsOf(d) == d.ent \cup {k \in Conns : d.conn[k] # NoRow}

Refers(row, e) == e \in {row.srv, row.src, row.svc}

\* The row with its optional references to rows of E set to NULL.
Without(row, E) == [srv |-> IF row.srv \in E THEN Null ELSE row.srv,
                    src |-> IF row.src \in E THEN Null ELSE row.src,
                    svc |-> row.svc]

\* The foreign keys AppDbContext declares: no dangling reference.
Consistent(d) ==
  /\ \A k \in Conns : d.conn[k] # NoRow =>
        /\ {d.conn[k].srv, d.conn[k].src} \subseteq d.ent \cup {Null}
        /\ d.conn[k].svc \in d.ent
  /\ \A l \in d.link : Ends(l) \subseteq d.ent

(***************************************************************************)
(* Tracker: one entry per row a DbContext has met.  "keyed" is an Added    *)
(* entry that already carries a key value.  A connection entry keeps the   *)
(* snapshot of the references it was loaded with (orig) and their current  *)
(* values (cur); "modified" says that one of its other columns changed.    *)
(***************************************************************************)
EntState  == {"none", "unchanged", "modified", "added", "keyed", "deleted"}
LinkState == {"none", "unchanged", "added", "deleted"}
NoEntry   == [st |-> "none", orig |-> NoRow, cur |-> NoRow]
Entry == {NoEntry}
         \cup [st : {"added"}, orig : {NoRow}, cur : Row]
         \cup [st : {"unchanged", "modified", "deleted"}, orig : Row, cur : Row]

Tracker == [ent  : [Ents -> EntState],
            conn : [Conns -> Entry],
            link : [Links -> LinkState]]

EmptyTracker == [ent  |-> [e \in Ents |-> "none"],
                 conn |-> [k \in Conns |-> NoEntry],
                 link |-> [l \in Links |-> "none"]]

Gone(t)  == {e \in Ents : t.ent[e] = "deleted"}
Added(t) == {e \in Ents : t.ent[e] = "added"}
Live(n)  == n.st \in {"unchanged", "modified", "added"}
Dirty(n) == n.st \in {"modified", "added", "deleted"} \/ n.cur # n.orig

(***************************************************************************)
(* Before it writes, SaveChanges carries every pending delete over to the  *)
(* tracked dependents: an optional reference, to the source server or the  *)
(* source service, is nulled, a join row is deleted with its end, or       *)
(* dropped if it was not inserted yet.                                     *)
(***************************************************************************)
Cascade(t) ==
  [t EXCEPT
     !.conn = [k \in Conns |->
                 IF Live(t.conn[k])
                 THEN [t.conn[k] EXCEPT !.cur = Without(@, Gone(t))]
                 ELSE t.conn[k]],
     !.link = [l \in Links |->
                 IF Ends(l) \cap Gone(t) = {} THEN t.link[l]
                 ELSE IF t.link[l] = "unchanged" THEN "deleted"
                 ELSE IF t.link[l] = "added" THEN "none"
                 ELSE t.link[l]]]

\* A required reference cannot be nulled: EF Core throws
\* "the association has been severed" without reaching the database.
Severed(t) == \E k \in Conns : Live(t.conn[k]) /\ t.conn[k].cur.svc \in Gone(t)

\* Mutant: every column of a tracked row is written back, changed or not.
WrittenConnInFull(d, t, k) ==
  IF Live(t.conn[k]) THEN t.conn[k].cur
  ELSE IF t.conn[k].st = "deleted" THEN NoRow ELSE d.conn[k]

\* The connection rows the transaction leaves: changed columns only.
WrittenConn(d, t, k) ==
  LET n == t.conn[k] IN
  IF n.st = "deleted" THEN NoRow
  ELSE IF n.st = "added" THEN n.cur
  ELSE [srv |-> IF n.cur.srv # n.orig.srv THEN n.cur.srv ELSE d.conn[k].srv,
        src |-> IF n.cur.src # n.orig.src THEN n.cur.src ELSE d.conn[k].src,
        svc |-> IF n.cur.svc # n.orig.svc THEN n.cur.svc ELSE d.conn[k].svc]

\* Mutants: a vanished connection, or a vanished server or service, is not
\* noticed (no row count is checked).
RowMissingButConns(d, t) ==
  \/ \E e \in Ents : t.ent[e] \in {"modified", "deleted"} /\ e \notin d.ent
  \/ \E l \in Links : t.link[l] = "deleted" /\ l \notin d.link

RowMissingButEnts(d, t) ==
  \E k \in Conns : Dirty(t.conn[k]) /\ t.conn[k].st # "added" /\ d.conn[k] = NoRow

\* An UPDATE or DELETE that touches no row, or an INSERT of a key that is
\* taken: DbUpdateConcurrencyException or DbUpdateException.
RowMissing(d, t) ==
  \/ \E e \in Ents : t.ent[e] \in {"modified", "deleted"} /\ e \notin d.ent
  \/ \E k \in Conns : Dirty(t.conn[k]) /\ t.conn[k].st # "added" /\ d.conn[k] = NoRow
  \/ \E l \in Links : t.link[l] = "deleted" /\ l \notin d.link

KeyTaken(d, t) ==
  \/ \E e \in Ents : t.ent[e] = "keyed"    \* IDENTITY_INSERT is OFF
  \/ \E l \in Links : t.link[l] = "added" /\ l \in d.link

\* A foreign key check on a column that is written.
ReferenceMissing(d, t) ==
  LET there == d.ent \cup Added(t) IN
  \/ \E k \in Conns : LET n == t.conn[k] IN
       /\ Live(n)
       /\ \/ n.cur.srv # n.orig.srv /\ n.cur.srv \notin there \cup {Null}
          \/ n.cur.src # n.orig.src /\ n.cur.src \notin there \cup {Null}
          \/ n.cur.svc # n.orig.svc /\ n.cur.svc \notin there
  \/ \E l \in Links : t.link[l] = "added" /\ ~(Ends(l) \subseteq there)

\* Mutant: only references this tracker knows of are looked at.
RestrictedByTracked(d, t) ==
  \E e \in Gone(t), k \in Conns :
     t.conn[k] # NoEntry /\ Refers(WrittenConn(d, t, k), e)

\* Mutant: the delete goes through whoever refers to the row.
NeverRestricted(d, t) == FALSE

\* OnDelete(Restrict): the row to delete is still referenced.
Restricted(d, t) ==
  \E e \in Gone(t), k \in Conns : Refers(WrittenConn(d, t, k), e)

Refused(d, t) ==
  Severed(t) \/ RowMissing(d, t) \/ KeyTaken(d, t)
             \/ ReferenceMissing(d, t) \/ Restricted(d, t)

\* The database after the transaction; join rows go with their ends
\* (ON DELETE CASCADE).
Committed(d, t) ==
  [ent  |-> (d.ent \cup Added(t)) \ Gone(t),
   conn |-> [k \in Conns |-> WrittenConn(d, t, k)],
   link |-> {l \in Links :
               /\ \/ l \in d.link /\ t.link[l] # "deleted"
                  \/ t.link[l] = "added"
               /\ Ends(l) \cap Gone(t) = {}}]

\* AcceptAllChanges: what was written becomes the new snapshot.
Accepted(t) ==
  [ent  |-> [e \in Ents |-> IF t.ent[e] \in {"none", "deleted"} THEN "none"
                                                                ELSE "unchanged"],
   conn |-> [k \in Conns |-> IF Live(t.conn[k])
                             THEN [st |-> "unchanged", orig |-> t.conn[k].cur,
                                   cur |-> t.conn[k].cur]
                             ELSE NoEntry],
   link |-> [l \in Links |-> IF t.link[l] \in {"none", "deleted"} THEN "none"
                                                                  ELSE "unchanged"]]
================================================================================
