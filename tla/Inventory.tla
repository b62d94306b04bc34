------------------------------- MODULE Inventory -------------------------------
(***************************************************************************)
(* What the repositories promise the pages: one shared inventory, changed  *)
(* by transactions, each of which inserts one row, edits one row or does   *)
(* neither, and deletes rows.  No circuits, no trackers, no snapshots.     *)
(***************************************************************************)
EXTENDS ChangeTracker

VARIABLES db,   \* the tables
          used  \* keys that have ever been in them

Keys == Ents \cup Conns

Init ==
  /\ db \in Database /\ Consistent(db)
  /\ used \in SUBSET Keys /\ IdsOf(db) \subseteq used

\* A connection that is not edited loses at most its source: the server to a
\* transaction that deletes a server, the service to one that deletes one.
OnlyLoses(row, new, gone) ==
  /\ new.svc = row.svc
  /\ new.srv # row.srv => new.srv = Null /\ gone \cap Servers # {}
  /\ new.src # row.src => new.src = Null /\ gone \cap Services # {}

\* The transaction removes the keys gone and inserts or edits the row id.
\* Another join row comes never, and goes only with one of its ends.
Transaction(id, gone) ==
  /\ id \notin used \/ id \in IdsOf(db)
  /\ db' \in Database /\ Consistent(db')
  /\ IdsOf(db') = (IdsOf(db) \cup ({id} \ {Null})) \ gone
  /\ \A k \in Conns \ ({id} \cup gone) : OnlyLoses(db.conn[k], db'.conn[k], gone)
  /\ \A l \in Links : (l \in db.link) # (l \in db'.link) =>
       \/ id \in Ends(l)
       \/ l \in db.link /\ Ends(l) \cap gone # {}
  /\ used' = used \cup IdsOf(db')

Next == \E id \in Keys \cup {Null} : Transaction(id, IdsOf(db) \ IdsOf(db'))

Spec == Init /\ [][Next]_<<db, used>>
================================================================================
