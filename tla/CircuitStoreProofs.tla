-------------------------- MODULE CircuitStoreProofs --------------------------
(***************************************************************************)
(* Theorems about CircuitStore, for any sets of circuits and keys.         *)
(***************************************************************************)
EXTENDS CircuitStore, TLAPS

--------------------------------------------------------------------------------
(***************************************************************************)
(* What the operators of ChangeTracker return.                             *)
(***************************************************************************)

\* NoRow is not a row: a connection row always names its service.
LEMMA NoRowIsNoRow == NoRow \notin Row
BY KeysAssumption DEF NoRow, Row

LEMMA EmptyTrackerType == EmptyTracker \in Tracker
BY DEF EmptyTracker, Tracker, EntState, LinkState, Entry, NoEntry

\* The columns of a row that loses references.
LEMMA WithoutFacts ==
  ASSUME NEW row \in Row \cup {NoRow}, NEW E
  PROVE  /\ row \in Row => Without(row, E) \in Row
         /\ Without(row, E).srv = IF row.srv \in E THEN Null ELSE row.srv
         /\ Without(row, E).src = IF row.src \in E THEN Null ELSE row.src
         /\ Without(row, E).svc = row.svc
         /\ Without(row, E) = [srv |-> Without(row, E).srv, src |-> Without(row, E).src,
                               svc |-> row.svc]
<1> DEFINE s == IF row.srv \in E THEN Null ELSE row.srv
           r == IF row.src \in E THEN Null ELSE row.src
<1>1. Without(row, E) = [srv |-> s, src |-> r, svc |-> row.svc]
  BY DEF Without
<1>2. row \in Row => s \in Servers \cup {Null} /\ r \in Services \cup {Null} /\ row.svc \in Services
  BY DEF Row
<1> HIDE DEF s, r
<1>3. /\ Without(row, E).srv = s /\ Without(row, E).src = r /\ Without(row, E).svc = row.svc
      /\ row \in Row => Without(row, E) \in Row
  BY <1>1, <1>2 DEF Row
<1>4. QED
  BY <1>1, <1>3 DEF s, r

\* References that are lost stay lost when more are.
LEMMA WithoutTwice ==
  ASSUME NEW row \in Row, NEW F, NEW E \in SUBSET F, Null \notin F
  PROVE  Without(Without(row, E), F) = Without(row, F)
<1>1. Without(row, E) \in Row
  BY WithoutFacts
<1>2. /\ Without(Without(row, E), F).srv = Without(row, F).srv
      /\ Without(Without(row, E), F).src = Without(row, F).src
      /\ Without(Without(row, E), F).svc = Without(row, F).svc
  BY <1>1, WithoutFacts
<1>3. QED
  BY <1>1, <1>2, WithoutFacts

LEMMA WithoutNone ==
  ASSUME NEW row \in Row
  PROVE  Without(row, {}) = row
BY DEF Without, Row

\* What passing pending deletes on does to an entry.
LEMMA CascadeConn ==
  ASSUME NEW t \in Tracker, NEW k \in Conns
  PROVE  /\ Cascade(t).conn[k].st = t.conn[k].st
         /\ Cascade(t).conn[k].orig = t.conn[k].orig
         /\ Cascade(t).conn[k].cur = IF Live(t.conn[k]) THEN Without(t.conn[k].cur, Gone(t))
                                     ELSE t.conn[k].cur
         /\ Cascade(t).conn[k] \in Entry
<1>1. Cascade(t).conn[k] = IF Live(t.conn[k])
                           THEN [t.conn[k] EXCEPT !.cur = Without(@, Gone(t))]
                           ELSE t.conn[k]
  BY DEF Cascade, Tracker
<1>2. t.conn[k] \in Entry
  BY DEF Tracker
<1>3. Live(t.conn[k]) => Without(t.conn[k].cur, Gone(t)) \in Row
  BY <1>2, WithoutFacts DEF Entry, NoEntry, Live
<1> DEFINE w == Without(t.conn[k].cur, Gone(t))
<1> HIDE DEF w
<1>4. CASE Live(t.conn[k])
  <2>1. /\ w \in Row
        /\ Cascade(t).conn[k] = [t.conn[k] EXCEPT !.cur = w]
    BY <1>1, <1>3, <1>4 DEF w
  <2>2. QED
    BY <1>2, <1>4, <2>1 DEF Entry, NoEntry, Live, w
<1>5. CASE ~Live(t.conn[k])
  BY <1>1, <1>2, <1>5
<1>6. QED
  BY <1>4, <1>5

\* Passing pending deletes on to the dependents keeps a tracker a tracker.
LEMMA CascadeType ==
  ASSUME NEW t \in Tracker
  PROVE  Cascade(t) \in Tracker
<1>1. Cascade(t).conn \in [Conns -> Entry]
  BY CascadeConn DEF Cascade, Tracker
<1>2. QED
  BY <1>1 DEF Cascade, Tracker, LinkState

\* What an entry lost to the deletes of a tracker.
LEMMA CascadedColumns ==
  ASSUME NEW n, n.orig \in Row, NEW gone, Cascaded(n, gone)
  PROVE  /\ n.cur \in Row /\ n.cur.svc = n.orig.svc
         /\ n.cur.srv # n.orig.srv => n.orig.srv \in gone /\ n.cur.srv = Null
         /\ n.cur.src # n.orig.src => n.orig.src \in gone /\ n.cur.src = Null
BY WithoutFacts DEF Cascaded

\* The more is deleted, the more may have been lost; an entry that was just
\* written has lost nothing.
LEMMA CascadedMore ==
  ASSUME NEW n, NEW gone, NEW more
  PROVE  /\ Cascaded(n, gone) /\ gone \subseteq more => Cascaded(n, more)
         /\ n.orig \in Row /\ n.cur = n.orig => Cascaded(n, gone)
BY WithoutNone DEF Cascaded

LEMMA AcceptedType ==
  ASSUME NEW t \in Tracker
  PROVE  Accepted(t) \in Tracker
<1>1. ASSUME NEW k \in Conns
      PROVE  (IF Live(t.conn[k])
              THEN [st |-> "unchanged", orig |-> t.conn[k].cur, cur |-> t.conn[k].cur]
              ELSE NoEntry) \in Entry
  BY <1>1 DEF Tracker, Entry, NoEntry, Live
<1>2. QED
  BY <1>1 DEF Accepted, Tracker, EntState, LinkState

\* A transaction whose statements all found their rows leaves whole rows.
LEMMA WrittenConnType ==
  ASSUME NEW d \in Database, NEW t \in Tracker, NEW k \in Conns,
         ~RowMissing(d, t)
  PROVE  WrittenConn(d, t, k) \in Row \cup {NoRow}
<1> DEFINE n == t.conn[k]
<1>1. n \in Entry /\ d.conn[k] \in Row \cup {NoRow}
  BY DEF Tracker, Database
<1>2. CASE n.st \in {"deleted", "added"}
  BY <1>1, <1>2 DEF WrittenConn, Entry, NoEntry
<1>3. CASE n = NoEntry
  BY <1>1, <1>3 DEF WrittenConn, NoEntry, NoRow, Row
<1>4. CASE n.st \in {"unchanged", "modified"}
  <2>1. n.cur \in Row /\ n.orig \in Row
    BY <1>1, <1>4 DEF Entry, NoEntry
  <2>2. d.conn[k] = NoRow => n.cur = n.orig
    BY <1>4 DEF RowMissing, Dirty
  <2>3. QED
    BY <1>1, <1>4, <2>1, <2>2 DEF WrittenConn, Row, NoRow
<1>5. QED
  BY <1>1, <1>2, <1>3, <1>4 DEF Entry

LEMMA CommittedType ==
  ASSUME NEW d \in Database, NEW t \in Tracker, ~RowMissing(d, t)
  PROVE  Committed(d, t) \in Database
<1>1. \A k \in Conns : WrittenConn(d, t, k) \in Row \cup {NoRow}
  BY WrittenConnType
<1>2. QED
  BY <1>1 DEF Committed, Database, Added, Gone

--------------------------------------------------------------------------------
(***************************************************************************)
(* The database accepts only what keeps its foreign keys whole: every      *)
(* written reference is checked, a row still referred to is not deleted    *)
(* and join rows follow their ends.                                        *)
(***************************************************************************)
LEMMA CommittedConsistent ==
  ASSUME NEW d \in Database, NEW t \in Tracker,
         Consistent(d), ~Refused(d, t)
  PROVE  Consistent(Committed(d, t))
<1> DEFINE x == Committed(d, t)
<1>1. x.ent = (d.ent \cup Added(t)) \ Gone(t)
  BY DEF Committed
<1>2. ASSUME NEW k \in Conns, x.conn[k] # NoRow
      PROVE  {x.conn[k].srv, x.conn[k].src} \subseteq x.ent \cup {Null} /\ x.conn[k].svc \in x.ent
  <2> DEFINE n == t.conn[k]
  <2>1. x.conn[k] = WrittenConn(d, t, k)
    BY DEF Committed
  <2>2. {x.conn[k].srv, x.conn[k].src, x.conn[k].svc} \cap Gone(t) = {}
    BY <2>1 DEF Refused, Restricted, Refers
  <2>3. n \in Entry /\ n.st # "deleted"
    BY <1>2, <2>1 DEF Tracker, WrittenConn
  <2>4. CASE n.st = "added"
    <3>1. n.orig = NoRow /\ n.cur \in Row
      BY <2>3, <2>4 DEF Entry, NoEntry
    <3>2. n.cur.svc # n.orig.svc
      BY <3>1, KeysAssumption DEF Row, NoRow
    <3>3. n.cur.svc \in d.ent \cup Added(t)
      BY <2>4, <3>2 DEF Refused, ReferenceMissing, Live
    <3>4. {n.cur.srv, n.cur.src} \subseteq d.ent \cup Added(t) \cup {Null}
      BY <2>4, <3>1 DEF Refused, ReferenceMissing, Live, NoRow
    <3>5. QED
      BY <1>1, <2>1, <2>2, <2>4, <3>3, <3>4 DEF WrittenConn
  <2>5. CASE n.st # "added"
    <3>1. d.conn[k] # NoRow
      <4>1. CASE n = NoEntry
        BY <1>2, <2>1, <4>1 DEF WrittenConn, NoEntry, NoRow, Database, Row
      <4>2. CASE n # NoEntry /\ d.conn[k] = NoRow
        <5>1. n.cur = n.orig
          BY <2>3, <2>5, <4>2 DEF Refused, RowMissing, Dirty
        <5>2. QED
          BY <1>2, <2>1, <2>3, <2>5, <4>2, <5>1 DEF WrittenConn, NoRow
      <4>3. QED
        BY <4>1, <4>2
    <3>2. {d.conn[k].srv, d.conn[k].src} \subseteq d.ent \cup {Null} /\ d.conn[k].svc \in d.ent
      BY <3>1 DEF Consistent
    <3>3. /\ n.cur.srv # n.orig.srv => n.cur.srv \in d.ent \cup Added(t) \cup {Null}
          /\ n.cur.src # n.orig.src => n.cur.src \in d.ent \cup Added(t) \cup {Null}
      BY <2>3, <2>5 DEF Refused, ReferenceMissing, Live, Entry, NoEntry
    <3>4. n.cur.svc # n.orig.svc => n.cur.svc \in d.ent \cup Added(t)
      BY <2>3, <2>5 DEF Refused, ReferenceMissing, Live, Entry, NoEntry
    <3>5. /\ x.conn[k].srv = IF n.cur.srv # n.orig.srv THEN n.cur.srv ELSE d.conn[k].srv
          /\ x.conn[k].src = IF n.cur.src # n.orig.src THEN n.cur.src ELSE d.conn[k].src
          /\ x.conn[k].svc = IF n.cur.svc # n.orig.svc THEN n.cur.svc ELSE d.conn[k].svc
      BY <2>1, <2>3, <2>5 DEF WrittenConn
    <3> HIDE DEF x, n
    <3>6. x.conn[k].srv \in x.ent \cup {Null}
      BY <1>1, <2>2, <3>2, <3>3, <3>5
    <3>7. x.conn[k].src \in x.ent \cup {Null}
      BY <1>1, <2>2, <3>2, <3>3, <3>5
    <3>8. x.conn[k].svc \in x.ent
      BY <1>1, <2>2, <3>2, <3>4, <3>5
    <3>9. QED
      BY <3>6, <3>7, <3>8
  <2>6. QED
    BY <2>4, <2>5
<1>3. ASSUME NEW l \in x.link
      PROVE  Ends(l) \subseteq x.ent
  <2>1. l \in Links /\ Ends(l) \cap Gone(t) = {}
    BY DEF Committed
  <2>2. l \in d.link \/ t.link[l] = "added"
    BY DEF Committed
  <2>3. Ends(l) \subseteq d.ent \cup Added(t)
    BY <2>1, <2>2 DEF Consistent, Refused, ReferenceMissing
  <2>4. QED
    BY <1>1, <2>1, <2>3
<1>4. QED
  BY <1>2, <1>3 DEF Consistent

--------------------------------------------------------------------------------
(***************************************************************************)
(* Type correctness.                                                       *)
(***************************************************************************)
OpType == [kind : OpKinds, id : Ids \cup {Null}]

LEMMA TrackType ==
  ASSUME NEW t \in Tracker, NEW E
  PROVE  Track(t, E) \in Tracker
BY DEF Track, Tracker, EntState

LEMMA RelinkedType ==
  ASSUME NEW t \in Tracker, NEW e \in Ents, NEW sel, NEW touched \in BOOLEAN
  PROVE  Relinked(t, e, sel, touched) \in Tracker
<1> DEFINE own    == {l \in Links : e \in Ends(l)}
           chosen == {l \in own : Ends(l) \ {e} \subseteq sel \cap db.ent}
           met    == UNION {Ends(l) : l \in chosen \cup (own \cap db.link)}
           u      == Track(t, met \cup {e})
           loaded(l) == IF t.link[l] = "none" /\ l \in db.link THEN "unchanged"
                                                               ELSE t.link[l]
           lnk(l) == IF l \notin own THEN t.link[l]
                     ELSE IF l \in chosen /\ loaded(l) = "none" THEN "added"
                     ELSE IF l \notin chosen /\ loaded(l) = "unchanged" THEN "deleted"
                     ELSE loaded(l)
<1>1. u \in Tracker
  BY TrackType
<1>2. \A l \in Links : lnk(l) \in LinkState
  BY DEF Tracker, LinkState
<1>3. Relinked(t, e, sel, touched)
        = [u EXCEPT !.ent[e] = IF touched /\ @ = "unchanged" THEN "modified" ELSE @,
                    !.link = [l \in Links |-> lnk(l)]]
  BY DEF Relinked
<1> HIDE DEF u, lnk
<1>4. [u.ent EXCEPT ![e] = IF touched /\ @ = "unchanged" THEN "modified" ELSE @]
        \in [Ents -> EntState]
  BY <1>1 DEF Tracker, EntState
<1>5. [l \in Links |-> lnk(l)] \in [Links -> LinkState]
  BY <1>2
<1>6. QED
  BY <1>1, <1>3, <1>4, <1>5 DEF Tracker

\* A circuit that holds only deletes has no connection waiting for its
\* INSERT, so an entry FindAsync returns has a row to compare with.
LEMMA FindConnType ==
  ASSUME TypeOK, NEW t \in Tracker, NEW k \in Conns, OnlyDeletesPending(t)
  PROVE  /\ FindConn(t, k) \in Entry
         /\ FindConn(t, k).st \in {"none", "unchanged", "deleted"}
         /\ FindConn(t, k) # NoEntry => FindConn(t, k).orig \in Row
<1>1. t.conn[k] \in Entry /\ t.conn[k].st \in {"none", "unchanged", "deleted"}
  BY DEF Tracker, OnlyDeletesPending
<1>2. db.conn[k] \in Row \cup {NoRow}
  BY DEF TypeOK, Database
<1>3. QED
  BY <1>1, <1>2 DEF FindConn, Entry, NoEntry

LEMMA IdsOfType ==
  ASSUME NEW d \in Database
  PROVE  IdsOf(d) \subseteq Ids
BY DEF IdsOf, Database, Ids

\* The two ways a handler ends its first step.
LEMMA AwaitType ==
  ASSUME TypeOK, NEW c \in Circuits, NEW t \in Tracker, NEW o \in OpType,
         Await(c, t, o), UNCHANGED used
  PROVE  TypeOK'
BY DEF TypeOK, Await, OpType

LEMMA NothingFoundType ==
  ASSUME TypeOK, NEW c \in Circuits, NothingFound(c), UNCHANGED used
  PROVE  TypeOK'
BY IdsOfType DEF TypeOK, NothingFound

LEMMA OpTypes ==
  /\ Idle \in OpType /\ Dead \in OpType
  /\ \A id \in Ids : Saving(id) \in OpType /\ Deleting(id) \in OpType
  /\ Saving(Null) \in OpType
BY DEF OpType, OpKinds, Idle, Dead, Saving, Deleting

LEMMA HandlerType ==
  ASSUME TypeOK, OnlyDeletesLinger, NEW c \in Circuits, Handler(c)
  PROVE  TypeOK'
<1> USE OpTypes
<1>1. trk[c] \in Tracker /\ (op[c] = Idle => OnlyDeletesPending(trk[c]))
  BY DEF TypeOK, OnlyDeletesLinger, Idle
<1>2. ASSUME NEW s \in Servers, NEW sel \in SUBSET Services, AddServer(c, s, sel)
      PROVE  TypeOK'
  <2> DEFINE t == Track(trk[c], sel \cap db.ent)
             n == [t EXCEPT !.ent[s] = "added",
                            !.link = [l \in Links |->
                               IF l[1] = s /\ l[2] \in sel \cap db.ent
                               THEN "added" ELSE t.link[l]]]
  <2>1. t \in Tracker
    BY <1>1, TrackType
  <2>2. n \in Tracker
    <3> HIDE DEF t
    <3>1. QED  BY <2>1 DEF Tracker, EntState, LinkState
  <2>3. Await(c, n, Saving(s)) /\ UNCHANGED used
    BY <1>2 DEF AddServer
  <2>4. QED
    BY <2>2, <2>3, AwaitType DEF Ids, Ents
<1>3. ASSUME NEW v \in Services, NEW sel \in SUBSET Servers, AddService(c, v, sel)
      PROVE  TypeOK'
  <2> DEFINE n == [trk[c] EXCEPT
                      !.ent = [e \in Ents |-> IF e = v THEN "added"
                                              ELSE IF e \in sel THEN "keyed"
                                              ELSE trk[c].ent[e]],
                      !.link = [l \in Links |->
                                  IF l[2] = v /\ l[1] \in sel
                                  THEN "added" ELSE trk[c].link[l]]]
  <2>1. n \in Tracker
    BY <1>1 DEF Tracker, EntState, LinkState
  <2>2. Await(c, EmptyTracker, Dead) \/ Await(c, n, Saving(v))
    BY <1>3 DEF AddService
  <2>3. UNCHANGED used
    BY <1>3 DEF AddService
  <2>4. QED
    BY <1>1, <2>1, <2>2, <2>3, AwaitType, EmptyTrackerType DEF Ids, Ents
<1>4. ASSUME NEW e \in Ents, NEW sel, NEW touched \in BOOLEAN, Update(c, e, sel, touched)
      PROVE  TypeOK'
  BY <1>1, <1>4, RelinkedType, AwaitType, NothingFoundType DEF Update, Ids
<1>5. ASSUME NEW e \in Ents, Delete(c, e)
      PROVE  TypeOK'
  <2>1. [trk[c] EXCEPT !.ent[e] = "deleted"] \in Tracker
    BY <1>1 DEF Tracker, EntState
  <2>2. QED
    BY <1>5, <2>1, AwaitType, NothingFoundType DEF Delete, Ids
<1>6. ASSUME NEW k \in Conns, NEW row \in Row, AddConn(c, k, row)
      PROVE  TypeOK'
  <2>1. [trk[c] EXCEPT !.conn[k] = [st |-> "added", orig |-> NoRow, cur |-> row]] \in Tracker
    BY <1>1 DEF Tracker, Entry
  <2>2. QED
    BY <1>6, <2>1, AwaitType DEF AddConn, Ids
<1>7. ASSUME NEW k \in Conns, NEW row \in Row, NEW touched \in BOOLEAN,
             UpdateConn(c, k, row, touched)
      PROVE  TypeOK'
  <2> DEFINE n == FindConn(trk[c], k)
             m == IF n.st = "deleted" THEN n
                  ELSE [n EXCEPT !.st = IF touched THEN "modified" ELSE @, !.cur = row]
  <2>1. /\ n \in Entry
        /\ n.st \in {"none", "unchanged", "deleted"}
        /\ n # NoEntry => n.orig \in Row
    BY <1>1, <1>7, FindConnType DEF UpdateConn
  <2>2. CASE n = NoEntry
    BY <1>7, <2>2, NothingFoundType DEF UpdateConn
  <2>3. CASE n # NoEntry
    <3>1. m \in Entry
      BY <2>1, <2>3 DEF Entry
    <3>2. [trk[c] EXCEPT !.conn[k] = m] \in Tracker
      <4> HIDE DEF m
      <4>1. QED  BY <1>1, <3>1 DEF Tracker
    <3>3. Await(c, [trk[c] EXCEPT !.conn[k] = m], Saving(k)) /\ UNCHANGED used
      BY <1>7, <2>3 DEF UpdateConn
    <3>4. QED
      BY <3>2, <3>3, AwaitType DEF Ids
  <2>4. QED
    BY <2>2, <2>3
<1>8. ASSUME NEW k \in Conns, DeleteConn(c, k)
      PROVE  TypeOK'
  <2> DEFINE n == FindConn(trk[c], k)
             m == [n EXCEPT !.st = "deleted"]
  <2>1. /\ n \in Entry
        /\ n.st \in {"none", "unchanged", "deleted"}
        /\ n # NoEntry => n.orig \in Row
    BY <1>1, <1>8, FindConnType DEF DeleteConn
  <2>2. CASE n = NoEntry
    BY <1>8, <2>2, NothingFoundType DEF DeleteConn
  <2>3. CASE n # NoEntry
    <3>1. m \in Entry
      BY <2>1, <2>3 DEF Entry
    <3>2. [trk[c] EXCEPT !.conn[k] = m] \in Tracker
      <4> HIDE DEF m
      <4>1. QED  BY <1>1, <3>1 DEF Tracker
    <3>3. Await(c, [trk[c] EXCEPT !.conn[k] = m], Deleting(k)) /\ UNCHANGED used
      BY <1>8, <2>3 DEF DeleteConn
    <3>4. QED
      BY <3>2, <3>3, AwaitType DEF Ids
  <2>4. QED
    BY <2>2, <2>3
<1>9. ASSUME CreateTag(c)
      PROVE  TypeOK'
  BY <1>1, <1>9, AwaitType DEF CreateTag
<1>10. QED
  BY <1>2, <1>3, <1>4, <1>5, <1>6, <1>7, <1>8, <1>9, StoreAssumption
     DEF Handler, UpdateServer, UpdateService, DeleteServer, DeleteService, Ents

--------------------------------------------------------------------------------
(***************************************************************************)
(* What lingers.  A circuit that is idle, or about to run the SaveChanges  *)
(* of a delete, holds only deletes and what they cascade to: Save handlers *)
(* that fail end the circuit, Delete handlers queue nothing but a delete.  *)
(***************************************************************************)
Lingering(c) == op[c].kind \in {"idle", "delete"} => OnlyDeletesPending(trk[c])

IInv == TypeOK /\ ReferentialIntegrity /\ \A c \in Circuits : Lingering(c)

LEMMA EmptyLingers == OnlyDeletesPending(EmptyTracker)
BY DEF OnlyDeletesPending, EmptyTracker, NoEntry, Dirty

LEMMA AcceptedLingers ==
  ASSUME NEW t \in Tracker
  PROVE  OnlyDeletesPending(Accepted(t))
<1>1. ASSUME NEW k \in Conns, Accepted(t).conn[k].st = "unchanged"
      PROVE  Cascaded(Accepted(t).conn[k], Gone(Accepted(t)))
  <2>1. /\ Live(t.conn[k]) /\ t.conn[k] \in Entry
        /\ Accepted(t).conn[k].cur = t.conn[k].cur /\ Accepted(t).conn[k].orig = t.conn[k].cur
    BY <1>1 DEF Accepted, NoEntry, Tracker
  <2>2. t.conn[k].cur \in Row
    BY <2>1 DEF Entry, NoEntry, Live
  <2>3. QED
    BY <2>1, <2>2, CascadedMore
<1>2. QED
  BY <1>1 DEF OnlyDeletesPending, Accepted, NoEntry

LEMMA CascadeLingers ==
  ASSUME NEW t \in Tracker, OnlyDeletesPending(t)
  PROVE  OnlyDeletesPending(Cascade(t))
<1> DEFINE u == Cascade(t)
<1>1. u.ent = t.ent /\ Gone(u) = Gone(t)
  BY DEF Cascade, Gone, Tracker
<1>2. ASSUME NEW k \in Conns
      PROVE  /\ u.conn[k].st \in {"none", "unchanged", "deleted"}
             /\ u.conn[k].st = "unchanged" => Cascaded(u.conn[k], Gone(u))
  <2> DEFINE n == t.conn[k]
  <2>1. n \in Entry
    BY DEF Tracker
  <2>2. Null \notin Gone(t)
    BY KeysAssumption DEF Gone, Ents
  <2>3. ASSUME n.st = "unchanged"
        PROVE  Cascaded(u.conn[k], Gone(u))
    <3>1. n.orig \in Row /\ Live(n)
      BY <2>1, <2>3 DEF Entry, NoEntry, Live
    <3>2. PICK E \in SUBSET Gone(t) : n.cur = Without(n.orig, E)
      BY <2>3 DEF OnlyDeletesPending, Cascaded
    <3>3. u.conn[k].cur = Without(n.orig, Gone(t)) /\ u.conn[k].orig = n.orig
      BY <2>2, <3>1, <3>2, CascadeConn, WithoutTwice
    <3>4. QED
      BY <1>1, <3>3 DEF Cascaded
  <2>4. QED
    BY <2>3, CascadeConn DEF OnlyDeletesPending
<1>3. ASSUME NEW l \in Links
      PROVE  \/ u.link[l] \in {"none", "unchanged"}
             \/ u.link[l] = "deleted" /\ Ends(l) \cap Gone(u) # {}
  BY <1>1 DEF Cascade, OnlyDeletesPending, Tracker
<1>4. QED
  BY <1>1, <1>2, <1>3 DEF OnlyDeletesPending

\* A handler other than a delete leaves the circuit saving or dead; a delete
\* adds itself to the deletes that are pending.
LEMMA AwaitLingers ==
  ASSUME TypeOK, \A c \in Circuits : Lingering(c),
         NEW c \in Circuits, NEW t, NEW o, Await(c, t, o),
         o.kind \in {"idle", "delete"} => OnlyDeletesPending(t)
  PROVE  \A x \in Circuits : Lingering(x)'
BY DEF TypeOK, Await, Lingering

LEMMA NothingFoundLingers ==
  ASSUME TypeOK, \A c \in Circuits : Lingering(c), NEW c \in Circuits, NothingFound(c)
  PROVE  \A x \in Circuits : Lingering(x)'
BY DEF NothingFound, Lingering

LEMMA DeleteEntLingers ==
  ASSUME NEW t \in Tracker, OnlyDeletesPending(t), NEW e \in Ents
  PROVE  OnlyDeletesPending([t EXCEPT !.ent[e] = "deleted"])
<1> DEFINE u == [t EXCEPT !.ent[e] = "deleted"]
<1>1. u.ent = [t.ent EXCEPT ![e] = "deleted"] /\ u.conn = t.conn /\ u.link = t.link
  BY DEF Tracker
<1>2. Gone(t) \subseteq Gone(u) /\ \A x \in Ents : u.ent[x] \in {t.ent[x], "deleted"}
  BY <1>1 DEF Gone, Tracker
<1> HIDE DEF u
<1>3. OnlyDeletesPending(u)
  BY <1>1, <1>2, CascadedMore DEF OnlyDeletesPending
<1>4. QED
  BY <1>3 DEF u

LEMMA DeleteConnLingers ==
  ASSUME NEW t \in Tracker, OnlyDeletesPending(t), NEW k \in Conns, NEW n,
         n.st = "deleted"
  PROVE  OnlyDeletesPending([t EXCEPT !.conn[k] = n])
<1> DEFINE u == [t EXCEPT !.conn[k] = n]
<1>1. u.ent = t.ent /\ u.conn = [t.conn EXCEPT ![k] = n] /\ u.link = t.link
  BY DEF Tracker
<1>2. Gone(t) = Gone(u) /\ \A x \in Conns : u.conn[x] = t.conn[x] \/ u.conn[x].st = "deleted"
  BY <1>1 DEF Gone, Tracker
<1> HIDE DEF u
<1>3. OnlyDeletesPending(u)
  BY <1>1, <1>2 DEF OnlyDeletesPending
<1>4. QED
  BY <1>3 DEF u

LEMMA HandlerLingers ==
  ASSUME TypeOK, \A c \in Circuits : Lingering(c), NEW c \in Circuits, Handler(c)
  PROVE  \A x \in Circuits : Lingering(x)'
<1>1. trk[c] \in Tracker /\ (op[c] = Idle => OnlyDeletesPending(trk[c]))
  BY DEF TypeOK, Lingering, Idle
<1>2. ASSUME NEW t, NEW id, Await(c, t, Saving(id)) \/ Await(c, t, Dead)
      PROVE  \A x \in Circuits : Lingering(x)'
  BY <1>2, AwaitLingers DEF Saving, Dead
<1>3. ASSUME NEW e \in Ents, Delete(c, e)
      PROVE  \A x \in Circuits : Lingering(x)'
  <2>1. OnlyDeletesPending([trk[c] EXCEPT !.ent[e] = "deleted"])
    BY <1>1, <1>3, DeleteEntLingers DEF Delete
  <2>2. QED
    BY <1>3, <2>1, AwaitLingers, NothingFoundLingers DEF Delete
<1>4. ASSUME NEW k \in Conns, DeleteConn(c, k)
      PROVE  \A x \in Circuits : Lingering(x)'
  <2> DEFINE n == FindConn(trk[c], k)
             m == [n EXCEPT !.st = "deleted"]
  <2>1. n \in Entry
    BY <1>1, <1>4, FindConnType DEF DeleteConn
  <2>2. m.st = "deleted"
    BY <2>1 DEF Entry, NoEntry
  <2>3. OnlyDeletesPending([trk[c] EXCEPT !.conn[k] = m])
    <3> HIDE DEF m
    <3>1. QED  BY <1>1, <1>4, <2>2, DeleteConnLingers DEF DeleteConn
  <2>4. NothingFound(c) \/ Await(c, [trk[c] EXCEPT !.conn[k] = m], Deleting(k))
    BY <1>4 DEF DeleteConn
  <2>5. QED
    BY <2>3, <2>4, AwaitLingers, NothingFoundLingers
<1>5. ASSUME NEW s, NEW sel, AddServer(c, s, sel)
      PROVE  \A x \in Circuits : Lingering(x)'
  BY <1>2, <1>5 DEF AddServer
<1>6. ASSUME NEW v, NEW sel, AddService(c, v, sel)
      PROVE  \A x \in Circuits : Lingering(x)'
  BY <1>2, <1>6 DEF AddService
<1>7. ASSUME NEW e, NEW sel, NEW touched, Update(c, e, sel, touched)
      PROVE  \A x \in Circuits : Lingering(x)'
  BY <1>2, <1>7, NothingFoundLingers DEF Update
<1>8. ASSUME NEW k, NEW row, AddConn(c, k, row)
      PROVE  \A x \in Circuits : Lingering(x)'
  BY <1>2, <1>8 DEF AddConn
<1>9. ASSUME NEW k, NEW row, NEW touched, UpdateConn(c, k, row, touched)
      PROVE  \A x \in Circuits : Lingering(x)'
  BY <1>2, <1>9, NothingFoundLingers DEF UpdateConn
<1>10. ASSUME CreateTag(c)
      PROVE  \A x \in Circuits : Lingering(x)'
  BY <1>2, <1>10 DEF CreateTag
<1>11. QED
  BY <1>3, <1>4, <1>5, <1>6, <1>7, <1>8, <1>9, <1>10
     DEF Handler, UpdateServer, UpdateService, DeleteServer, DeleteService, Ents

--------------------------------------------------------------------------------
(***************************************************************************)
(* The inductive invariant.                                                *)
(***************************************************************************)
LEMMA InitIInv == Init => IInv
<1> SUFFICES ASSUME Init PROVE IInv
  OBVIOUS
<1>1. TypeOK
  BY EmptyTrackerType, IdsOfType, OpTypes, StoreAssumption DEF Init, TypeOK, OpType, Ids
<1>2. ReferentialIntegrity
  BY DEF Init, ReferentialIntegrity
<1>3. \A c \in Circuits : Lingering(c)
  BY EmptyLingers DEF Init, Lingering
<1>4. QED
  BY <1>1, <1>2, <1>3 DEF IInv

LEMMA NextIInv == IInv /\ [Next]_vars => IInv'
<1> SUFFICES ASSUME IInv, [Next]_vars PROVE IInv'
  OBVIOUS
<1> USE DEF IInv
<1>1. \A c \in Circuits : trk[c] \in Tracker
  BY DEF TypeOK
<1>2. CASE UNCHANGED vars
  BY <1>2 DEF vars, TypeOK, ReferentialIntegrity, Lingering
<1>3. ASSUME NEW c \in Circuits, Handler(c)
      PROVE  IInv'
  <2>1. UNCHANGED db
    BY <1>3 DEF Handler, AddServer, AddService, UpdateServer, UpdateService, Update,
                DeleteServer, DeleteService, Delete, AddConn, UpdateConn, DeleteConn, CreateTag,
                Await, NothingFound
  <2>2. OnlyDeletesLinger
    BY DEF Lingering, OnlyDeletesLinger
  <2>3. TypeOK'
    BY <1>3, <2>2, HandlerType
  <2>4. \A x \in Circuits : Lingering(x)'
    BY <1>3, HandlerLingers
  <2>5. QED
    BY <2>1, <2>3, <2>4 DEF ReferentialIntegrity
<1>4. ASSUME NEW c \in Circuits, SaveSucceeds(c)
      PROVE  IInv'
  <2> DEFINE t == Cascade(trk[c])
  <2>1. t \in Tracker /\ Accepted(t) \in Tracker
    BY <1>1, CascadeType, AcceptedType
  <2>2. ~Refused(db, t) /\ db' = Committed(db, t)
    BY <1>4 DEF SaveSucceeds
  <2>3. db' \in Database
    BY <2>1, <2>2, CommittedType DEF TypeOK, Refused
  <2>4. Consistent(db)'
    BY <2>1, <2>2, CommittedConsistent DEF TypeOK, ReferentialIntegrity, Consistent, Ends
  <2>5. OnlyDeletesPending(Accepted(t))
    BY <2>1, AcceptedLingers
  <2>6. TypeOK'
    <3> HIDE DEF t
    <3>1. QED
      BY <1>4, <2>1, <2>3, IdsOfType, OpTypes
         DEF SaveSucceeds, TypeOK, OpType, t
  <2>7. \A x \in Circuits : Lingering(x)'
    BY <1>4, <2>5 DEF SaveSucceeds, Lingering, TypeOK
  <2>8. QED
    BY <2>4, <2>6, <2>7 DEF ReferentialIntegrity
<1>5. ASSUME NEW c \in Circuits, SaveFails(c)
      PROVE  IInv'
  <2> DEFINE t == Cascade(trk[c])
  <2>1. t \in Tracker
    BY <1>1, CascadeType
  <2>2. op[c].kind = "delete" => OnlyDeletesPending(t)
    BY <1>1, CascadeLingers DEF Lingering
  <2>3. /\ trk' = [trk EXCEPT ![c] = IF op[c].kind = "save" THEN EmptyTracker ELSE t]
        /\ op' = [op EXCEPT ![c] = IF op[c].kind = "save" THEN Dead ELSE Idle]
        /\ op[c].kind \in {"save", "delete"}
        /\ UNCHANGED <<db, used, view>>
    BY <1>5 DEF SaveFails, Busy
  <2> HIDE DEF t
  <2>4. TypeOK'
    BY <2>1, <2>3, OpTypes, EmptyTrackerType DEF TypeOK, OpType
  <2>5. \A x \in Circuits : Lingering(x)'
    BY <2>2, <2>3 DEF Lingering, TypeOK, Dead
  <2>6. QED
    BY <2>3, <2>4, <2>5 DEF ReferentialIntegrity
<1>6. ASSUME NEW c \in Circuits, OpenPage(c)
      PROVE  IInv'
  BY <1>6, IdsOfType DEF OpenPage, TypeOK, ReferentialIntegrity, Lingering
<1>7. ASSUME NEW c \in Circuits, Reload(c)
      PROVE  IInv'
  BY <1>7, IdsOfType, EmptyTrackerType, EmptyLingers, OpTypes
     DEF Reload, TypeOK, OpType, ReferentialIntegrity, Lingering
<1>8. CASE Restart
  BY <1>8, EmptyTrackerType, EmptyLingers, OpTypes
     DEF Restart, TypeOK, OpType, ReferentialIntegrity, Lingering
<1>9. QED
  BY <1>2, <1>3, <1>4, <1>5, <1>6, <1>7, <1>8 DEF Next

\* What any circuit does keeps types, references, and idle trackers.
THEOREM Invariance == Spec => []IInv
BY InitIInv, NextIInv, PTL DEF Spec

\* Every variable keeps its type.
THEOREM TypeCorrect == Spec => []TypeOK
<1>1. IInv => TypeOK
  BY DEF IInv
<1>2. QED
  BY <1>1, Invariance, PTL

\* No committed state has a dangling reference, however many circuits
\* commit, in whatever order, from trackers however stale.
THEOREM Integrity == Spec => []ReferentialIntegrity
<1>1. IInv => ReferentialIntegrity
  BY DEF IInv
<1>2. QED
  BY <1>1, Invariance, PTL

\* No handler leaves an edit or an insert behind in an idle circuit.
THEOREM OnlyDeletesLingerAlways == Spec => []OnlyDeletesLinger
<1>1. IInv => OnlyDeletesLinger
  BY DEF IInv, Lingering, OnlyDeletesLinger
<1>2. QED
  BY <1>1, Invariance, PTL

--------------------------------------------------------------------------------
(***************************************************************************)
(* What a step may never do.                                               *)
(***************************************************************************)

\* Only a SaveChanges that succeeds writes to the database.
LEMMA OnlySavesWrite ==
  ASSUME [Next]_vars
  PROVE  db' = db \/ \E c \in Circuits : SaveSucceeds(c)
<1>1. CASE UNCHANGED vars
  BY <1>1 DEF vars
<1>2. ASSUME NEW c \in Circuits, Handler(c)
      PROVE  db' = db
  BY <1>2 DEF Handler, AddServer, AddService, UpdateServer, UpdateService, Update,
              DeleteServer, DeleteService, Delete, AddConn, UpdateConn, DeleteConn, CreateTag,
              Await, NothingFound
<1>3. ASSUME NEW c \in Circuits, SaveFails(c) \/ OpenPage(c) \/ Reload(c)
      PROVE  db' = db
  BY <1>3 DEF SaveFails, OpenPage, Reload
<1>4. CASE Restart
  BY <1>4 DEF Restart
<1>5. QED
  BY <1>1, <1>2, <1>3, <1>4 DEF Next

\* A server or service that is referred to is deleted only by a circuit that
\* tracks the connection referring to it.
THEOREM RestrictHolds == Spec => RestrictProtects
<1>1. ASSUME IInv, [Next]_vars,
             NEW e \in db.ent \ db'.ent, NEW k \in Conns, Refers(db.conn[k], e)
      PROVE  \E c \in Circuits : /\ Busy(c) /\ e \in Gone(trk[c])
                                 /\ trk[c].conn[k] # NoEntry
  <2>1. PICK c \in Circuits : SaveSucceeds(c)
    BY <1>1, OnlySavesWrite
  <2> DEFINE t == Cascade(trk[c])
  <2>2. trk[c] \in Tracker /\ db.conn[k] \in Row \cup {NoRow}
    BY <1>1 DEF IInv, TypeOK, Database
  <2>3. t.ent = trk[c].ent /\ Gone(t) = Gone(trk[c])
    BY <2>2 DEF Cascade, Tracker, Gone
  <2>4. /\ Busy(c) /\ db' = Committed(db, t)
        /\ \A x \in Gone(t) : ~Refers(WrittenConn(db, t, k), x)
    BY <2>1 DEF SaveSucceeds, Refused, Restricted
  <2>5. e \in Gone(t)
    BY <2>4 DEF Committed
  <2>6. ASSUME trk[c].conn[k] = NoEntry
        PROVE  FALSE
    <3>1. t.conn[k] = NoEntry
      BY <2>2, <2>6 DEF Cascade, Tracker, Live, NoEntry
    <3>2. WrittenConn(db, t, k) = db.conn[k]
      BY <2>2, <3>1 DEF WrittenConn, NoEntry, NoRow, Row
    <3>3. QED
      BY <1>1, <2>4, <2>5, <3>2
  <2>7. QED
    BY <2>3, <2>4, <2>5, <2>6
<1>2. IInv /\ [Next]_vars => [DeleterTracksReferrers]_vars
  BY <1>1 DEF DeleterTracksReferrers
<1>3. QED
  BY <1>2, Invariance, PTL DEF Spec, RestrictProtects

--------------------------------------------------------------------------------
(***************************************************************************)
(* CircuitStore implements Inventory: whatever the trackers remember, each *)
(* commit is one edit or insert together with deletes.                     *)
(***************************************************************************)

\* A tracker that holds one edit or insert, of the row id, and deletes.
OneEdit(t, id) ==
  /\ Added(t) \subseteq {id}
  /\ \A k \in Conns \ {id} :
       /\ t.conn[k].st # "added"
       /\ Live(t.conn[k]) => Cascaded(t.conn[k], Gone(t))
  /\ \A l \in Links :
       /\ t.link[l] = "added" => id \in Ends(l)
       /\ t.link[l] = "deleted" => id \in Ends(l) \/ Ends(l) \cap Gone(t) # {}

\* The row id waits for its INSERT.
Inserting(t, id) == id \in Added(t) \/ (id \in Conns /\ t.conn[id].st = "added")

\* Only keys that were in the database once are tracked, but for inserts.
Known(t) == \A e \in Ents : t.ent[e] \in {"none", "added"} \/ e \in used

Pending(c) ==
  op[c].kind = "save" =>
    /\ OneEdit(trk[c], op[c].id)
    /\ Inserting(trk[c], op[c].id) =>
         /\ op[c].id \notin used
         /\ \A d \in Circuits \ {c} : op[d].id # op[c].id

\* The keys in use, and what saves under way are about to do with them.
KeysInv ==
  /\ IdsOf(db) \subseteq used
  /\ \A c \in Circuits : view[c] \subseteq used /\ Known(trk[c]) /\ Pending(c)

SInv == IInv /\ KeysInv

--------------------------------------------------------------------------------
(***************************************************************************)
(* Trackers.                                                               *)
(***************************************************************************)

\* What lingers in an idle circuit is no edit of any row.
LEMMA LingeringOneEdit ==
  ASSUME NEW t \in Tracker, OnlyDeletesPending(t), NEW id
  PROVE  OneEdit(t, id) /\ ~Inserting(t, id)
BY DEF OnlyDeletesPending, OneEdit, Inserting, Added, Live, Dirty, Gone

\* Cascading the deletes adds no edit of another row.
LEMMA CascadeOneEdit ==
  ASSUME NEW t \in Tracker, NEW id, OneEdit(t, id)
  PROVE  /\ OneEdit(Cascade(t), id)
         /\ Inserting(Cascade(t), id) => Inserting(t, id)
<1> DEFINE u == Cascade(t)
<1>1. u.ent = t.ent /\ Gone(u) = Gone(t) /\ Added(u) = Added(t)
  BY DEF Cascade, Tracker, Gone, Added
<1>2. ASSUME NEW k \in Conns
      PROVE  /\ u.conn[k].st = t.conn[k].st
             /\ u.conn[k].orig = t.conn[k].orig
             /\ u.conn[k].cur = IF Live(t.conn[k]) THEN Without(t.conn[k].cur, Gone(t))
                                ELSE t.conn[k].cur
  BY CascadeConn
<1>3. ASSUME NEW l \in Links
      PROVE  /\ u.link[l] = "added" => t.link[l] = "added"
             /\ u.link[l] = "deleted" => t.link[l] = "deleted" \/ Ends(l) \cap Gone(t) # {}
  BY DEF Cascade, Tracker
<1>4. Null \notin Gone(t)
  BY KeysAssumption DEF Gone, Ents
<1> HIDE DEF u
<1>5. ASSUME NEW k \in Conns \ {id}, Live(u.conn[k])
      PROVE  Cascaded(u.conn[k], Gone(t))
  <2> DEFINE n == t.conn[k]
  <2>1. n \in Entry /\ Live(n) /\ n.st # "added"
    BY <1>2, <1>5 DEF Tracker, OneEdit, Live
  <2>2. n.orig \in Row
    BY <2>1 DEF Entry, NoEntry, Live
  <2>3. PICK E \in SUBSET Gone(t) : n.cur = Without(n.orig, E)
    BY <2>1 DEF OneEdit, Cascaded
  <2>4. u.conn[k].cur = Without(n.orig, Gone(t)) /\ u.conn[k].orig = n.orig
    BY <1>2, <1>4, <2>1, <2>2, <2>3, WithoutTwice
  <2>5. QED
    BY <2>4 DEF Cascaded
<1>6. OneEdit(u, id)
  BY <1>1, <1>2, <1>3, <1>5 DEF OneEdit
<1>7. QED
  BY <1>1, <1>2, <1>6 DEF Inserting, u

LEMMA CascadeKnown ==
  ASSUME NEW t \in Tracker, Known(t)
  PROVE  Known(Cascade(t))
BY DEF Known, Cascade, Tracker

--------------------------------------------------------------------------------
(***************************************************************************)
(* One commit.                                                             *)
(***************************************************************************)

\* The keys after a commit: nothing new but the row edited or inserted.
LEMMA CommittedIds ==
  ASSUME NEW d \in Database, NEW t \in Tracker, NEW id,
         OneEdit(t, id), ~Refused(d, t)
  PROVE  /\ IdsOf(Committed(d, t)) \subseteq IdsOf(d) \cup {id}
         /\ id \in IdsOf(Committed(d, t)) => id \in IdsOf(d) \/ Inserting(t, id)
<1> DEFINE x == Committed(d, t)
<1>1. x.ent = (d.ent \cup Added(t)) \ Gone(t)
  BY DEF Committed
<1>2. ASSUME NEW k \in Conns, x.conn[k] # NoRow, d.conn[k] = NoRow
      PROVE  t.conn[k].st = "added"
  <2> DEFINE n == t.conn[k]
  <2>1. x.conn[k] = WrittenConn(d, t, k)
    BY DEF Committed
  <2>2. SUFFICES ASSUME n.st # "added" PROVE FALSE
    OBVIOUS
  <2>3. n \in Entry /\ n.st # "deleted"
    BY <1>2, <2>1 DEF Tracker, WrittenConn
  <2>4. n.cur = n.orig
    BY <1>2, <2>2 DEF Refused, RowMissing, Dirty
  <2>5. WrittenConn(d, t, k) = NoRow
    BY <1>2, <2>2, <2>3, <2>4 DEF WrittenConn, NoRow
  <2>6. QED
    BY <1>2, <2>1, <2>5
<1> HIDE DEF x
<1>3. QED
  BY <1>1, <1>2, KeysAssumption DEF IdsOf, OneEdit, Inserting, Added, Ents, x

\* A row that is deleted was there, and is gone.
LEMMA GoneIsGone ==
  ASSUME NEW d, NEW t \in Tracker, ~Refused(d, t), NEW e \in Gone(t)
  PROVE  e \in IdsOf(d) \ IdsOf(Committed(d, t))
<1>1. e \in Ents /\ e \in d.ent
  BY DEF Gone, Refused, RowMissing
<1>2. e \notin Committed(d, t).ent
  BY DEF Committed
<1>3. QED
  BY <1>1, <1>2, KeysAssumption DEF IdsOf, Ents

\* Other connections stay, or lose what goes.
LEMMA CommittedConn ==
  ASSUME NEW d \in Database, NEW t \in Tracker, NEW id,
         OneEdit(t, id), ~Refused(d, t),
         NEW k \in Conns \ {id}, Committed(d, t).conn[k] # NoRow
  PROVE  Promised!OnlyLoses(d.conn[k], Committed(d, t).conn[k], Gone(t))
<1> DEFINE n == t.conn[k]
<1>1. Committed(d, t).conn[k] = WrittenConn(d, t, k)
  BY DEF Committed
<1>2. n \in Entry /\ n.st \notin {"added", "deleted"} /\ d.conn[k] \in Row \cup {NoRow}
  BY <1>1 DEF Tracker, Database, OneEdit, WrittenConn
<1>3. WrittenConn(d, t, k) = [srv |-> IF n.cur.srv # n.orig.srv THEN n.cur.srv ELSE d.conn[k].srv,
                              src |-> IF n.cur.src # n.orig.src THEN n.cur.src ELSE d.conn[k].src,
                              svc |-> IF n.cur.svc # n.orig.svc THEN n.cur.svc ELSE d.conn[k].svc]
  BY <1>2 DEF WrittenConn
<1>4. CASE n = NoEntry
  BY <1>1, <1>3, <1>4 DEF NoEntry, Promised!OnlyLoses
<1>5. CASE n # NoEntry
  <2>1. Live(n) /\ n.orig \in Row
    BY <1>2, <1>5 DEF Entry, NoEntry, Live
  <2>2. /\ n.cur.svc = n.orig.svc
        /\ n.cur.srv # n.orig.srv => n.orig.srv \in Gone(t) /\ n.cur.srv = Null
        /\ n.cur.src # n.orig.src => n.orig.src \in Gone(t) /\ n.cur.src = Null
    BY <2>1, CascadedColumns DEF OneEdit
  <2>3. Null \notin Gone(t)
    BY KeysAssumption DEF Gone, Ents
  <2>4. /\ n.orig.srv \in Gone(t) => n.orig.srv \in Servers
        /\ n.orig.src \in Gone(t) => n.orig.src \in Services
    BY <2>1, <2>3 DEF Row
  <2> HIDE DEF n
  <2>5. QED
    BY <1>1, <1>3, <2>2, <2>4 DEF Promised!OnlyLoses
<1>6. QED
  BY <1>4, <1>5

\* Join rows come with an edit or insert of an end, and go with that or with
\* a delete of an end.
LEMMA CommittedLink ==
  ASSUME NEW d \in Database, NEW t \in Tracker, NEW id, OneEdit(t, id),
         NEW l \in Links, (l \in d.link) # (l \in Committed(d, t).link)
  PROVE  id \in Ends(l) \/ (l \in d.link /\ Ends(l) \cap Gone(t) # {})
BY DEF Committed, OneEdit, Database

--------------------------------------------------------------------------------
(***************************************************************************)
(* Handlers: each queues one edit or insert of a row nobody else inserts.  *)
(***************************************************************************)
LEMMA EmptyKnown == Known(EmptyTracker)
BY DEF Known, EmptyTracker

LEMMA AwaitKeys ==
  ASSUME SInv, NEW c \in Circuits, NEW t, NEW o, Await(c, t, o), UNCHANGED used,
         Known(t), o.id \in used \cup {Null} \/ Fresh(o.id),
         o.kind = "save" => /\ OneEdit(t, o.id)
                            /\ Inserting(t, o.id) => Fresh(o.id)
  PROVE  KeysInv'
<1>1. /\ trk' = [trk EXCEPT ![c] = t] /\ op' = [op EXCEPT ![c] = o]
      /\ db' = db /\ view' = view /\ used' = used
  BY DEF Await
<1>2. /\ \A d \in Circuits : trk'[d] = IF d = c THEN t ELSE trk[d]
      /\ \A d \in Circuits : op'[d] = IF d = c THEN o ELSE op[d]
  BY <1>1 DEF SInv, IInv, TypeOK
<1>3. \A id : Inserting(t, id) \/ (\E d \in Circuits : Inserting(trk[d], id)) => id # Null
  BY KeysAssumption DEF Inserting, Added, Ents
<1>4. ASSUME NEW d \in Circuits
      PROVE  Pending(d)'
  <2>1. CASE d = c
    BY <1>1, <1>2, <2>1 DEF Pending, Fresh, OneEdit, Inserting
  <2>2. CASE d # c
    <3>1. op[d].kind = "save" /\ Inserting(trk[d], op[d].id) => o.id # op[d].id
      BY <1>3, <2>2 DEF SInv, KeysInv, Pending, Fresh
    <3>2. QED
      BY <1>1, <1>2, <2>2, <3>1 DEF SInv, KeysInv, Pending, OneEdit, Inserting
  <2>3. QED
    BY <2>1, <2>2
<1>5. \A d \in Circuits : Known(trk[d])'
  BY <1>1, <1>2 DEF SInv, KeysInv, Known
<1>6. QED
  BY <1>1, <1>4, <1>5 DEF SInv, KeysInv

LEMMA NothingFoundKeys ==
  ASSUME SInv, NEW c \in Circuits, NothingFound(c), UNCHANGED used
  PROVE  KeysInv'
BY DEF SInv, IInv, TypeOK, KeysInv, NothingFound, Known, Pending

\* Track marks unchanged what the database has, and nothing else.
LEMMA TrackKeeps ==
  ASSUME SInv, NEW t \in Tracker, OnlyDeletesPending(t), Known(t),
         NEW E, E \cap Ents \subseteq used
  PROVE  /\ Known(Track(t, E)) /\ OnlyDeletesPending(Track(t, E))
         /\ Track(t, E).conn = t.conn /\ Track(t, E).link = t.link
<1> DEFINE u == Track(t, E)
<1>1. u.conn = t.conn /\ u.link = t.link
  BY DEF Track, Tracker
<1>2. \A e \in Ents : u.ent[e] = IF e \in E /\ t.ent[e] = "none" THEN "unchanged"
                                                              ELSE t.ent[e]
  BY DEF Track, Tracker
<1> HIDE DEF u
<1>3. Gone(u) = Gone(t)
  BY <1>2 DEF Gone
<1>4. QED
  BY <1>1, <1>2, <1>3 DEF OnlyDeletesPending, Known, u

LEMMA RelinkedKeeps ==
  ASSUME SInv, NEW t \in Tracker, OnlyDeletesPending(t), Known(t),
         NEW e \in db.ent, NEW sel, NEW touched
  PROVE  LET u == Relinked(t, e, sel, touched)
         IN  Known(u) /\ OneEdit(u, e) /\ ~Inserting(u, e)
<1> DEFINE own    == {l \in Links : e \in Ends(l)}
           chosen == {l \in own : Ends(l) \ {e} \subseteq sel \cap db.ent}
           met    == UNION {Ends(l) : l \in chosen \cup (own \cap db.link)}
           x      == Track(t, met \cup {e})
           u      == Relinked(t, e, sel, touched)
           loaded(l) == IF t.link[l] = "none" /\ l \in db.link THEN "unchanged"
                                                               ELSE t.link[l]
           lnk(l) == IF l \notin own THEN t.link[l]
                     ELSE IF l \in chosen /\ loaded(l) = "none" THEN "added"
                     ELSE IF l \notin chosen /\ loaded(l) = "unchanged" THEN "deleted"
                     ELSE loaded(l)
<1>1. db \in Database /\ db.ent \subseteq used /\ e \in Ents
  BY DEF SInv, IInv, TypeOK, KeysInv, Database, IdsOf
<1>2. met \cup {e} \subseteq db.ent
  <2>1. \A l \in chosen : Ends(l) \subseteq db.ent
    OBVIOUS
  <2>2. \A l \in db.link : Ends(l) \subseteq db.ent
    BY DEF SInv, IInv, ReferentialIntegrity, Consistent
  <2>3. QED
    BY <2>1, <2>2
<1>3. x \in Tracker /\ Known(x) /\ OnlyDeletesPending(x)
        /\ x.conn = t.conn /\ x.link = t.link
  <2> HIDE DEF met
  <2>1. QED  BY <1>1, <1>2, TrackType, TrackKeeps
<1>4. u = [x EXCEPT !.ent[e] = IF touched /\ @ = "unchanged" THEN "modified" ELSE @,
                    !.link = [l \in Links |-> lnk(l)]]
  BY DEF Relinked
<1>5. \A l \in Links : e \notin Ends(l) => lnk(l) = t.link[l]
  OBVIOUS
<1> HIDE DEF x, u, lnk
<1>6. /\ u.conn = t.conn
      /\ \A l \in Links : u.link[l] = lnk(l)
      /\ \A f \in Ents : u.ent[f] = IF f = e /\ touched /\ x.ent[f] = "unchanged"
                                    THEN "modified" ELSE x.ent[f]
  <2> DEFINE m == IF touched /\ x.ent[e] = "unchanged" THEN "modified" ELSE x.ent[e]
             lk == [l \in Links |-> lnk(l)]
  <2>1. u = [x EXCEPT !.ent[e] = m, !.link = lk]
    BY <1>4
  <2> HIDE DEF m, lk
  <2>2. u.conn = x.conn /\ u.link = lk /\ u.ent = [x.ent EXCEPT ![e] = m]
    BY <1>3, <2>1 DEF Tracker
  <2>3. \A l \in Links : lk[l] = lnk(l)
    BY DEF lk
  <2>4. \A f \in Ents : u.ent[f] = IF f = e THEN m ELSE x.ent[f]
    BY <1>1, <1>3, <2>2 DEF Tracker
  <2>5. QED
    BY <1>3, <2>2, <2>3, <2>4 DEF m
<1>7. Gone(u) = Gone(x) /\ Added(u) = {}
  BY <1>3, <1>6 DEF Gone, Added, OnlyDeletesPending
<1>8. Known(u)
  BY <1>1, <1>3, <1>6 DEF Known
<1>9. OneEdit(u, e)
  BY <1>3, <1>5, <1>6, <1>7 DEF OneEdit, OnlyDeletesPending, Live, Dirty
<1>10. ~Inserting(u, e)
  BY <1>1, <1>3, <1>6, <1>7 DEF Inserting, OnlyDeletesPending
<1>11. QED
  BY <1>8, <1>9, <1>10 DEF u

\* Of a circuit that is idle, and of the keys its pages show.
LEMMA IdleFacts ==
  ASSUME SInv, NEW c \in Circuits, op[c] = Idle
  PROVE  /\ trk[c] \in Tracker /\ Known(trk[c]) /\ OnlyDeletesPending(trk[c])
         /\ view[c] \subseteq used /\ db.ent \subseteq used
         /\ \A id : OneEdit(trk[c], id) /\ ~Inserting(trk[c], id)
<1>1. trk[c] \in Tracker /\ Known(trk[c]) /\ OnlyDeletesPending(trk[c])
  BY DEF SInv, IInv, TypeOK, Lingering, Idle, KeysInv
<1>2. QED
  BY <1>1, LingeringOneEdit DEF SInv, KeysInv, IdsOf

LEMMA AddServerKeys ==
  ASSUME SInv, NEW c \in Circuits, NEW s \in Servers, NEW sel \in SUBSET Services,
         AddServer(c, s, sel)
  PROVE  KeysInv'
<1> DEFINE t == Track(trk[c], sel \cap db.ent)
           n == [t EXCEPT !.ent[s] = "added",
                          !.link = [l \in Links |->
                             IF l[1] = s /\ l[2] \in sel \cap db.ent
                             THEN "added" ELSE t.link[l]]]
<1>1. op[c] = Idle /\ Fresh(s) /\ Await(c, n, Saving(s)) /\ UNCHANGED used
  BY DEF AddServer
<1>2. t \in Tracker /\ Known(t) /\ OnlyDeletesPending(t)
  BY <1>1, IdleFacts, TrackType, TrackKeeps
<1> HIDE DEF t
<1>3. n.ent = [t.ent EXCEPT ![s] = "added"] /\ n.conn = t.conn
      /\ n.link = [l \in Links |-> IF l[1] = s /\ l[2] \in sel \cap db.ent
                                   THEN "added" ELSE t.link[l]]
  BY <1>2 DEF Tracker
<1> HIDE DEF n
<1>4. \A e \in Ents : n.ent[e] = IF e = s THEN "added" ELSE t.ent[e]
  BY <1>2, <1>3 DEF Tracker
<1>5. s \notin used
  BY <1>1 DEF Fresh
<1>6. t.ent[s] = "none"
  BY <1>2, <1>5 DEF Known, OnlyDeletesPending, Ents
<1>7. Gone(n) = Gone(t) /\ Added(n) = {s}
  BY <1>2, <1>4, <1>6 DEF Gone, Added, OnlyDeletesPending, Ents
<1>8. Known(n)
  BY <1>2, <1>4 DEF Known
<1>9. OneEdit(n, s)
  <2>1. \A l \in Links : IF n.link[l] = t.link[l] THEN TRUE ELSE s \in Ends(l)
    BY <1>3 DEF Ends
  <2>2. QED
    BY <1>2, <1>3, <1>7, <2>1 DEF OneEdit, OnlyDeletesPending, Live, Dirty
<1>10. QED
  BY <1>1, <1>8, <1>9, AwaitKeys DEF Saving

LEMMA AddServiceKeys ==
  ASSUME SInv, NEW c \in Circuits, NEW v \in Services, NEW sel \in SUBSET Servers,
         AddService(c, v, sel)
  PROVE  KeysInv'
<1> DEFINE t == trk[c]
           n == [trk[c] EXCEPT
                   !.ent = [e \in Ents |-> IF e = v THEN "added"
                                           ELSE IF e \in sel THEN "keyed"
                                           ELSE trk[c].ent[e]],
                   !.link = [l \in Links |->
                               IF l[2] = v /\ l[1] \in sel
                               THEN "added" ELSE trk[c].link[l]]]
<1>1. op[c] = Idle /\ Fresh(v) /\ sel \subseteq used /\ UNCHANGED used
  BY IdleFacts DEF AddService
<1>2. t \in Tracker /\ Known(t) /\ OnlyDeletesPending(t)
  BY <1>1, IdleFacts
<1>3. CASE Await(c, EmptyTracker, Dead)
  BY <1>1, <1>3, AwaitKeys, EmptyKnown DEF Dead
<1>4. CASE (\A s \in sel : t.ent[s] = "none") /\ Await(c, n, Saving(v))
  <2>1. n.ent = [e \in Ents |-> IF e = v THEN "added" ELSE IF e \in sel THEN "keyed"
                                ELSE t.ent[e]]
        /\ n.conn = t.conn
        /\ n.link = [l \in Links |-> IF l[2] = v /\ l[1] \in sel THEN "added" ELSE t.link[l]]
    BY <1>2 DEF Tracker
  <2> HIDE DEF n, t
  <2>2. t.ent[v] = "none"
    BY <1>1, <1>2 DEF Fresh, Known, OnlyDeletesPending, Ents
  <2>3. Gone(n) = Gone(t) /\ Added(n) = {v}
    <3>1. \A e \in Ents : \/ e = v /\ t.ent[e] = "none" /\ n.ent[e] = "added"
                          \/ e # v /\ t.ent[e] = "none" /\ n.ent[e] = "keyed"
                          \/ e # v /\ n.ent[e] = t.ent[e]
      BY <1>4, <2>1, <2>2
    <3>2. v \in Ents /\ \A e \in Ents : t.ent[e] # "added"
      BY <1>2 DEF OnlyDeletesPending, Ents
    <3>3. QED
      BY <3>1, <3>2 DEF Gone, Added
  <2>4. Known(n)
    BY <1>1, <1>2, <2>1 DEF Known
  <2>5. OneEdit(n, v)
    <3>1. \A l \in Links : IF n.link[l] = t.link[l] THEN TRUE ELSE v \in Ends(l)
      BY <2>1 DEF Ends
    <3>2. QED
      BY <1>2, <2>1, <2>3, <3>1 DEF OneEdit, OnlyDeletesPending, Live, Dirty
  <2>6. QED
    BY <1>1, <1>4, <2>4, <2>5, AwaitKeys DEF Saving
<1>5. QED
  BY <1>3, <1>4 DEF AddService

LEMMA UpdateKeys ==
  ASSUME SInv, NEW c \in Circuits, NEW e \in Ents, NEW sel, NEW touched,
         Update(c, e, sel, touched)
  PROVE  KeysInv'
<1>1. op[c] = Idle /\ e \in view[c] /\ UNCHANGED used
  BY DEF Update
<1>2. CASE e \notin db.ent
  BY <1>2, NothingFoundKeys DEF Update
<1>3. CASE e \in db.ent
  <2> DEFINE u == Relinked(trk[c], e, sel, touched)
  <2>1. Known(u) /\ OneEdit(u, e) /\ ~Inserting(u, e)
    BY <1>1, <1>3, IdleFacts, RelinkedKeeps
  <2>2. Await(c, u, Saving(e))
    BY <1>3 DEF Update
  <2> HIDE DEF u
  <2>3. e \in used
    BY <1>1, IdleFacts
  <2>4. QED
    BY <1>1, <2>1, <2>2, <2>3, AwaitKeys DEF Saving
<1>4. QED
  BY <1>2, <1>3

LEMMA DeleteKeys ==
  ASSUME SInv, NEW c \in Circuits, NEW e \in Ents, Delete(c, e)
  PROVE  KeysInv'
<1> DEFINE u == [trk[c] EXCEPT !.ent[e] = "deleted"]
<1>1. op[c] = Idle /\ e \in view[c] /\ UNCHANGED used
  BY DEF Delete
<1>2. NothingFound(c) \/ Await(c, u, Deleting(e))
  BY DEF Delete
<1>3. \A f \in Ents : u.ent[f] = IF f = e THEN "deleted" ELSE trk[c].ent[f]
  BY <1>1, IdleFacts DEF Tracker
<1> HIDE DEF u
<1>4. Known(u) /\ e \in used
  BY <1>1, <1>3, IdleFacts DEF Known
<1>5. QED
  BY <1>1, <1>2, <1>4, AwaitKeys, NothingFoundKeys DEF Deleting

\* A connection that is edited or inserted is the one edit.
LEMMA OneConn ==
  ASSUME SInv, NEW c \in Circuits, op[c] = Idle, NEW k \in Conns, NEW n
  PROVE  LET u == [trk[c] EXCEPT !.conn[k] = n]
         IN  /\ Known(u) /\ OneEdit(u, k)
             /\ Inserting(u, k) => n.st = "added"
<1> DEFINE t == trk[c]
           u == [trk[c] EXCEPT !.conn[k] = n]
<1>1. t \in Tracker /\ Known(t) /\ OneEdit(t, k) /\ OnlyDeletesPending(t)
  BY IdleFacts
<1>2. u.ent = t.ent /\ u.link = t.link /\ u.conn[k] = n
      /\ \A x \in Conns \ {k} : u.conn[x] = t.conn[x]
  BY <1>1 DEF Tracker
<1> HIDE DEF t, u
<1>3. Gone(u) = Gone(t) /\ Added(u) = {}
  BY <1>1, <1>2 DEF Gone, Added, OnlyDeletesPending
<1>4. Known(u) /\ OneEdit(u, k) /\ (Inserting(u, k) => n.st = "added")
  BY <1>1, <1>2, <1>3 DEF Known, OneEdit, Inserting
<1>5. QED
  BY <1>4 DEF u

LEMMA AddConnKeys ==
  ASSUME SInv, NEW c \in Circuits, NEW k \in Conns, NEW row \in Row, AddConn(c, k, row)
  PROVE  KeysInv'
<1> DEFINE n == [st |-> "added", orig |-> NoRow, cur |-> row]
           u == [trk[c] EXCEPT !.conn[k] = n]
<1>1. op[c] = Idle /\ Fresh(k) /\ Await(c, u, Saving(k)) /\ UNCHANGED used
  BY DEF AddConn
<1> HIDE DEF n
<1>2. Known(u) /\ OneEdit(u, k)
  BY <1>1, OneConn
<1> HIDE DEF u
<1>3. QED
  BY <1>1, <1>2, AwaitKeys DEF Saving

LEMMA UpdateConnKeys ==
  ASSUME SInv, NEW c \in Circuits, NEW k \in Conns, NEW row \in Row,
         NEW touched \in BOOLEAN, UpdateConn(c, k, row, touched)
  PROVE  KeysInv'
<1> DEFINE n == FindConn(trk[c], k)
           m == IF n.st = "deleted" THEN n
                ELSE [n EXCEPT !.st = IF touched THEN "modified" ELSE @, !.cur = row]
           u == [trk[c] EXCEPT !.conn[k] = m]
<1>1. op[c] = Idle /\ k \in view[c] /\ UNCHANGED used
  BY DEF UpdateConn
<1>2. NothingFound(c) \/ Await(c, u, Saving(k))
  BY DEF UpdateConn
<1>3. n \in Entry /\ n.st \in {"none", "unchanged", "deleted"}
  BY <1>1, IdleFacts, FindConnType DEF SInv, IInv
<1>4. m.st # "added"
  BY <1>3 DEF Entry, NoEntry
<1> HIDE DEF m
<1>5. Known(u) /\ OneEdit(u, k) /\ ~Inserting(u, k)
  BY <1>1, <1>4, OneConn
<1> HIDE DEF u
<1>6. k \in used
  BY <1>1, IdleFacts
<1>7. QED
  BY <1>1, <1>2, <1>5, <1>6, AwaitKeys, NothingFoundKeys DEF Saving

LEMMA DeleteConnKeys ==
  ASSUME SInv, NEW c \in Circuits, NEW k \in Conns, DeleteConn(c, k)
  PROVE  KeysInv'
<1> DEFINE m == [FindConn(trk[c], k) EXCEPT !.st = "deleted"]
           u == [trk[c] EXCEPT !.conn[k] = m]
<1>1. op[c] = Idle /\ k \in view[c] /\ UNCHANGED used
  BY DEF DeleteConn
<1>2. NothingFound(c) \/ Await(c, u, Deleting(k))
  BY DEF DeleteConn
<1> HIDE DEF m
<1>3. Known(u)
  BY <1>1, OneConn
<1> HIDE DEF u
<1>4. k \in used
  BY <1>1, IdleFacts
<1>5. QED
  BY <1>1, <1>2, <1>3, <1>4, AwaitKeys, NothingFoundKeys DEF Deleting

LEMMA HandlerKeys ==
  ASSUME SInv, NEW c \in Circuits, Handler(c)
  PROVE  KeysInv'
<1>1. CASE CreateTag(c)
  BY <1>1, IdleFacts, AwaitKeys DEF CreateTag, Saving
<1>2. QED
  BY <1>1, AddServerKeys, AddServiceKeys, UpdateKeys, DeleteKeys, AddConnKeys,
     UpdateConnKeys, DeleteConnKeys, StoreAssumption
     DEF Handler, UpdateServer, UpdateService, DeleteServer, DeleteService, Ents

--------------------------------------------------------------------------------
(***************************************************************************)
(* SaveChanges, and the invariant.                                         *)
(***************************************************************************)

\* What a circuit that awaits SaveChanges sends.
LEMMA SaveFacts ==
  ASSUME SInv, NEW c \in Circuits, Busy(c)
  PROVE  LET t == Cascade(trk[c]) IN
         /\ t \in Tracker /\ Known(t) /\ OneEdit(t, op[c].id)
         /\ Inserting(t, op[c].id) => op[c].id \notin used
<1> DEFINE t == Cascade(trk[c])
<1>1. trk[c] \in Tracker /\ Known(trk[c])
  BY DEF SInv, IInv, TypeOK, KeysInv
<1>2. CASE op[c].kind = "save"
  BY <1>1, <1>2, CascadeType, CascadeKnown, CascadeOneEdit DEF SInv, KeysInv, Pending
<1>3. CASE op[c].kind = "delete"
  <2>1. OnlyDeletesPending(t) /\ t \in Tracker
    BY <1>1, <1>3, CascadeType, CascadeLingers DEF SInv, IInv, Lingering
  <2>2. OneEdit(t, op[c].id) /\ ~Inserting(t, op[c].id)
    BY <2>1, LingeringOneEdit
  <2>3. QED
    BY <1>1, <2>1, <2>2, CascadeKnown
<1>4. QED
  BY <1>2, <1>3 DEF Busy

LEMMA SaveSucceedsKeys ==
  ASSUME SInv, NEW c \in Circuits, SaveSucceeds(c)
  PROVE  KeysInv'
<1> DEFINE t == Cascade(trk[c])
<1>1. /\ t \in Tracker /\ Known(t) /\ OneEdit(t, op[c].id)
      /\ Inserting(t, op[c].id) => op[c].id \notin used
  BY SaveFacts DEF SaveSucceeds
<1>2. /\ ~Refused(db, t) /\ db' = Committed(db, t)
      /\ trk' = [trk EXCEPT ![c] = Accepted(t)]
      /\ op' = [op EXCEPT ![c] = Idle]
      /\ view' = [view EXCEPT ![c] = IF op[c].id = Null THEN @ ELSE IdsOf(db')]
      /\ used' = used \cup IdsOf(db')
  BY DEF SaveSucceeds
<1> HIDE DEF t
<1>3. IdsOf(db') \subseteq used \cup {op[c].id}
  BY <1>1, <1>2, CommittedIds DEF SInv, IInv, TypeOK, KeysInv
<1>4. /\ \A d \in Circuits : trk'[d] = IF d = c THEN Accepted(t) ELSE trk[d]
      /\ \A d \in Circuits : op'[d] = IF d = c THEN Idle ELSE op[d]
      /\ \A d \in Circuits : view'[d] \in {view[d], IdsOf(db')}
  BY <1>2 DEF SInv, IInv, TypeOK
<1>5. Known(trk[c])'
  <2>1. Added(t) \subseteq db'.ent
    BY <1>2 DEF Committed, Added, Gone
  <2>2. \A e \in Ents : Accepted(t).ent[e] = "none" \/ t.ent[e] \notin {"none", "deleted"}
    BY DEF Accepted
  <2>3. \A e \in Added(t) : e \in IdsOf(db')
    BY <2>1 DEF IdsOf
  <2>4. \A e \in Ents : Accepted(t).ent[e] = "none" \/ e \in used'
    BY <1>1, <1>2, <2>2, <2>3 DEF Known, Added
  <2>5. QED
    BY <1>4, <2>4 DEF Known
<1>6. ASSUME NEW d \in Circuits \ {c}
      PROVE  Known(trk[d])' /\ Pending(d)'
  <2>1. Known(trk[d])'
    BY <1>2, <1>4 DEF SInv, KeysInv, Known
  <2>2. ASSUME op[d].kind = "save", Inserting(trk[d], op[d].id)
        PROVE  /\ op[d].id \notin used'
               /\ \A x \in Circuits \ {d} : op'[x].id # op[d].id
    <3>1. op[d].id \notin used /\ \A x \in Circuits \ {d} : op[x].id # op[d].id
      BY <2>2 DEF SInv, KeysInv, Pending
    <3>2. op[d].id # Null
      BY <2>2, KeysAssumption DEF Inserting, Added, Ents
    <3>3. QED
      BY <1>2, <1>3, <1>4, <3>1, <3>2 DEF Idle
  <2>3. Pending(d)'
    BY <1>4, <2>2 DEF SInv, KeysInv, Pending, OneEdit, Inserting
  <2>4. QED
    BY <2>1, <2>3
<1>7. Pending(c)'
  BY <1>4 DEF Pending, Idle
<1>8. \A d \in Circuits : view'[d] \subseteq used'
  BY <1>2, <1>4 DEF SInv, KeysInv
<1>9. QED
  BY <1>2, <1>5, <1>6, <1>7, <1>8 DEF KeysInv, SInv

LEMMA SaveFailsKeys ==
  ASSUME SInv, NEW c \in Circuits, SaveFails(c)
  PROVE  KeysInv'
<1> DEFINE t == Cascade(trk[c])
<1>1. Known(t)
  BY SaveFacts DEF SaveFails
<1> DEFINE u == IF op[c].kind = "save" THEN EmptyTracker ELSE t
<1>2. /\ trk' = [trk EXCEPT ![c] = u]
      /\ op' = [op EXCEPT ![c] = IF op[c].kind = "save" THEN Dead ELSE Idle]
      /\ UNCHANGED <<db, used, view>>
  BY DEF SaveFails
<1> HIDE DEF t
<1>3. Known(u)
  BY <1>1, EmptyKnown
<1> HIDE DEF u
<1>4. /\ \A d \in Circuits : trk'[d] = IF d = c THEN u ELSE trk[d]
      /\ \A d \in Circuits \ {c} : op'[d] = op[d]
      /\ op'[c] \in {Dead, Idle}
  BY <1>2 DEF SInv, IInv, TypeOK
<1>5. ASSUME NEW d \in Circuits
      PROVE  Pending(d)'
  <2>1. CASE d = c
    BY <1>4, <2>1 DEF Pending, Dead, Idle
  <2>2. CASE d # c
    <3>1. \A id : Inserting(trk[d], id) => id # Null
      BY KeysAssumption DEF Inserting, Added, Ents
    <3>2. QED
      BY <1>2, <1>4, <2>2, <3>1 DEF SInv, KeysInv, Pending, OneEdit, Inserting, Dead, Idle
  <2>3. QED
    BY <2>1, <2>2
<1>6. \A d \in Circuits : Known(trk[d])'
  BY <1>2, <1>4, <1>3 DEF SInv, KeysInv, Known
<1>7. QED
  BY <1>2, <1>5, <1>6 DEF SInv, KeysInv

LEMMA InitSInv == Init => SInv
BY InitIInv, EmptyKnown DEF Init, SInv, KeysInv, Pending, Idle

LEMMA NextSInv == SInv /\ [Next]_vars => SInv'
<1> SUFFICES ASSUME SInv, [Next]_vars PROVE KeysInv'
  BY NextIInv DEF SInv
<1>1. CASE UNCHANGED vars
  BY <1>1 DEF vars, SInv, KeysInv, Known, Pending, OneEdit, Inserting
<1>2. ASSUME NEW c \in Circuits, OpenPage(c)
      PROVE  KeysInv'
  BY <1>2 DEF OpenPage, SInv, IInv, TypeOK, KeysInv, Known, Pending, OneEdit, Inserting
<1>3. ASSUME NEW c \in Circuits, Reload(c)
      PROVE  KeysInv'
  <2>1. /\ \A d \in Circuits : trk'[d] = IF d = c THEN EmptyTracker ELSE trk[d]
        /\ \A d \in Circuits : op'[d] = IF d = c THEN Idle ELSE op[d]
        /\ \A d \in Circuits : view'[d] \in {view[d], IdsOf(db)}
        /\ UNCHANGED <<db, used>>
    BY <1>3 DEF Reload, SInv, IInv, TypeOK
  <2>2. \A d \in Circuits : Known(trk[d])'
    BY <2>1, EmptyKnown DEF SInv, KeysInv, Known
  <2>3. ASSUME NEW d \in Circuits
        PROVE  Pending(d)'
    <3>1. \A id : Inserting(trk[d], id) => id # Null
      BY KeysAssumption DEF Inserting, Added, Ents
    <3>2. QED
      BY <2>1, <3>1 DEF SInv, KeysInv, Pending, OneEdit, Inserting, Idle
  <2>4. QED
    BY <2>1, <2>2, <2>3 DEF SInv, KeysInv
<1>4. CASE Restart
  BY <1>4, EmptyKnown DEF Restart, SInv, KeysInv, Known, Pending, Idle
<1>5. QED
  BY <1>1, <1>2, <1>3, <1>4, HandlerKeys, SaveSucceedsKeys, SaveFailsKeys DEF Next

\* It also keeps what is known of keys and of saves under way.
THEOREM KeysInvariance == Spec => []SInv
BY InitSInv, NextSInv, PTL DEF Spec

--------------------------------------------------------------------------------
(***************************************************************************)
(* The theorems.                                                           *)
(***************************************************************************)

\* One successful SaveChanges.
LEMMA SaveEffect ==
  ASSUME SInv, NEW c \in Circuits, SaveSucceeds(c)
  PROVE  LET t == Cascade(trk[c]) IN
         /\ t \in Tracker /\ OneEdit(t, op[c].id) /\ ~Refused(db, t)
         /\ db \in Database /\ db' = Committed(db, t) /\ used' = used \cup IdsOf(db')
         /\ IdsOf(db') \subseteq IdsOf(db) \cup {op[c].id}
         /\ op[c].id \in IdsOf(db') => op[c].id \in IdsOf(db) \/ op[c].id \notin used
BY SaveFacts, CommittedIds DEF SaveSucceeds, SInv, IInv, TypeOK

\* The keys in use change with the database only.
LEMMA OnlySavesUse ==
  ASSUME [Next]_vars
  PROVE  (db' = db /\ used' = used) \/ \E c \in Circuits : SaveSucceeds(c)
<1>1. CASE UNCHANGED vars
  BY <1>1 DEF vars
<1>2. ASSUME NEW c \in Circuits, Handler(c)
      PROVE  db' = db /\ used' = used
  BY <1>2 DEF Handler, AddServer, AddService, UpdateServer, UpdateService, Update,
              DeleteServer, DeleteService, Delete, AddConn, UpdateConn, DeleteConn, CreateTag,
              Await, NothingFound
<1>3. ASSUME NEW c \in Circuits, SaveFails(c) \/ OpenPage(c) \/ Reload(c)
      PROVE  db' = db /\ used' = used
  BY <1>3 DEF SaveFails, OpenPage, Reload
<1>4. CASE Restart
  BY <1>4 DEF Restart
<1>5. QED
  BY <1>1, <1>2, <1>3, <1>4 DEF Next

\* What was deleted stays deleted, whichever circuits still track it.
THEOREM DeletedForGood == Spec => NoResurrection
<1>1. ASSUME SInv, [Next]_vars
      PROVE  IdsOf(db') \cap used \subseteq IdsOf(db)
  BY <1>1, OnlySavesUse, SaveEffect
<1>2. SInv /\ [Next]_vars => [IdsOf(db') \cap used \subseteq IdsOf(db)]_vars
  BY <1>1
<1>3. QED
  BY <1>2, KeysInvariance, PTL DEF Spec, NoResurrection

\* Relations change in the Save of an end, or with a row that goes.
THEOREM RelationsByEdit == Spec => RelationsChangeOnlyByEdit
<1> DEFINE ConnsKept ==
             \A k \in Conns :
                db.conn[k] # NoRow /\ db'.conn[k] # NoRow /\ db'.conn[k] # db.conn[k] =>
                  \/ \E c \in Circuits : op[c] = Saving(k)
                  \/ Promised!OnlyLoses(db.conn[k], db'.conn[k], db.ent \ db'.ent)
           LinksKept ==
             \A l \in Links : (l \in db.link) # (l \in db'.link) =>
                \/ \E c \in Circuits, e \in Ends(l) : op[c] = Saving(e)
                \/ ~(Ends(l) \subseteq db'.ent)
<1>1. ASSUME SInv, NEW c \in Circuits, SaveSucceeds(c)
      PROVE  ConnsKept /\ LinksKept
  <2> DEFINE t  == Cascade(trk[c])
             id == IF op[c].kind = "save" THEN op[c].id ELSE Null
  <2>1. /\ t \in Tracker /\ ~Refused(db, t) /\ db \in Database /\ db' = Committed(db, t)
        /\ OneEdit(t, op[c].id) /\ Busy(c)
    BY <1>1, SaveEffect DEF SaveSucceeds
  <2>2. OneEdit(t, id)
    <3>1. CASE op[c].kind = "save"
      BY <2>1, <3>1
    <3>2. CASE op[c].kind = "delete"
      BY <1>1, <2>1, <3>2, CascadeLingers, LingeringOneEdit
         DEF SInv, IInv, TypeOK, Lingering
    <3>3. QED
      BY <2>1, <3>1, <3>2 DEF Busy
  <2>3. id # Null => op[c] = Saving(id)
    <3>1. op[c] \in OpType
      BY <1>1 DEF SInv, IInv, TypeOK, OpType
    <3>2. QED
      BY <3>1 DEF OpType, Saving
  <2> HIDE DEF t, id
  <2>4. Gone(t) \subseteq db.ent \ db'.ent
    BY <2>1 DEF Refused, RowMissing, Gone, Committed
  <2>5. ConnsKept
    <3>1. \A k \in Conns : k # Null
      BY KeysAssumption
    <3>2. QED
      BY <2>1, <2>2, <2>3, <2>4, <3>1, CommittedConn DEF Promised!OnlyLoses
  <2>6. LinksKept
    <3>1. \A l \in Links : Null \notin Ends(l)
      BY KeysAssumption DEF Links, Ends
    <3>2. QED
      BY <2>1, <2>2, <2>3, <2>4, <3>1, CommittedLink
  <2>7. QED
    BY <2>5, <2>6
<1>2. SInv /\ [Next]_vars => [ConnsKept /\ LinksKept]_vars
  BY <1>1, OnlySavesUse
<1>3. QED
  BY <1>2, KeysInvariance, PTL DEF Spec, RelationsChangeOnlyByEdit

--------------------------------------------------------------------------------
(***************************************************************************)
(* A single circuit.  What it has read or written is what the database     *)
(* has, since nobody else writes, and a Save that fails ends it.           *)
(***************************************************************************)
OneCircuit == \A c, d \in Circuits : c = d

\* The row of a tracked connection is as it was read.
Accurate(t, d) ==
  \A k \in Conns : t.conn[k].st \in {"unchanged", "modified"} =>
                     t.conn[k].orig = d.conn[k]

AInv == SInv /\ \A c \in Circuits : Accurate(trk[c], db)

LEMMA EmptyAccurate ==
  ASSUME NEW d
  PROVE  Accurate(EmptyTracker, d)
BY DEF Accurate, EmptyTracker, NoEntry

LEMMA CascadeAccurate ==
  ASSUME NEW t \in Tracker, NEW d, Accurate(t, d)
  PROVE  Accurate(Cascade(t), d)
BY CascadeConn DEF Accurate

\* A changed column is written and an unchanged one is as it was read.
LEMMA CommittedAccurate ==
  ASSUME NEW t \in Tracker, NEW d, Accurate(t, d)
  PROVE  Accurate(Accepted(t), Committed(d, t))
<1> SUFFICES ASSUME NEW k \in Conns, Accepted(t).conn[k].st \in {"unchanged", "modified"}
             PROVE  Accepted(t).conn[k].orig = Committed(d, t).conn[k]
  BY DEF Accurate
<1>1. Live(t.conn[k]) /\ Accepted(t).conn[k].orig = t.conn[k].cur
  BY DEF Accepted, NoEntry
<1>2. Committed(d, t).conn[k] = WrittenConn(d, t, k)
  BY DEF Committed
<1>3. t.conn[k] \in Entry /\ t.conn[k].cur \in Row
  BY <1>1 DEF Tracker, Entry, NoEntry, Live
<1>4. CASE t.conn[k].st = "added"
  BY <1>1, <1>2, <1>4 DEF WrittenConn
<1>5. CASE t.conn[k].st \in {"unchanged", "modified"}
  <2>1. t.conn[k].orig = d.conn[k]
    BY <1>5 DEF Accurate
  <2>2. QED
    BY <1>1, <1>2, <1>3, <1>5, <2>1 DEF WrittenConn, Row
<1>6. QED
  BY <1>1, <1>4, <1>5 DEF Live

\* A handler reads the connection it is about if it has not read it before.
LEMMA HandlerAccurate ==
  ASSUME AInv, NEW c \in Circuits, Handler(c)
  PROVE  Accurate(trk'[c], db)
<1> DEFINE t == trk[c]
<1>1. op[c] = Idle => t \in Tracker /\ OnlyDeletesPending(t)
  BY IdleFacts DEF AInv
<1>2. Accurate(t, db) /\ trk \in [Circuits -> Tracker]
  BY DEF AInv, SInv, IInv, TypeOK
<1>3. ASSUME NEW u, Await(c, u, Saving(Null)) \/ trk' = [trk EXCEPT ![c] = u], u.conn = t.conn
      PROVE  Accurate(trk'[c], db)
  BY <1>2, <1>3 DEF Await, Accurate
<1>4. ASSUME NothingFound(c)
      PROVE  Accurate(trk'[c], db)
  BY <1>2, <1>4 DEF NothingFound
<1>5. ASSUME NEW k \in Conns, NEW n, trk' = [trk EXCEPT ![c] = [t EXCEPT !.conn[k] = n]],
             n.st \in {"unchanged", "modified"} => n.orig = db.conn[k], t \in Tracker
      PROVE  Accurate(trk'[c], db)
  <2>1. /\ trk'[c].conn[k] = n
        /\ \A x \in Conns \ {k} : trk'[c].conn[x] = t.conn[x]
    BY <1>2, <1>5 DEF Tracker
  <2>2. QED
    BY <1>2, <1>5, <2>1 DEF Accurate
<1>6. ASSUME NEW s \in Servers, NEW sel, AddServer(c, s, sel)
      PROVE  Accurate(trk'[c], db)
  <2> DEFINE x == Track(t, sel \cap db.ent)
             u == [x EXCEPT !.ent[s] = "added",
                            !.link = [l \in Links |->
                               IF l[1] = s /\ l[2] \in sel \cap db.ent
                               THEN "added" ELSE x.link[l]]]
  <2>1. t \in Tracker /\ trk' = [trk EXCEPT ![c] = u]
    BY <1>1, <1>6 DEF AddServer, Await
  <2>2. u.conn = t.conn
    BY <2>1 DEF Track, Tracker
  <2> HIDE DEF u
  <2>3. QED
    BY <1>3, <2>1, <2>2
<1>7. ASSUME NEW v \in Services, NEW sel, AddService(c, v, sel)
      PROVE  Accurate(trk'[c], db)
  <2> DEFINE u == [t EXCEPT
                     !.ent = [e \in Ents |-> IF e = v THEN "added"
                                             ELSE IF e \in sel THEN "keyed"
                                             ELSE t.ent[e]],
                     !.link = [l \in Links |-> IF l[2] = v /\ l[1] \in sel
                                               THEN "added" ELSE t.link[l]]]
  <2>1. trk' = [trk EXCEPT ![c] = EmptyTracker] \/ trk' = [trk EXCEPT ![c] = u]
    BY <1>7 DEF AddService, Await
  <2>2. t \in Tracker
    BY <1>1, <1>7 DEF AddService
  <2>3. u.conn = t.conn
    BY <2>2 DEF Tracker
  <2> HIDE DEF u
  <2>4. trk' = [trk EXCEPT ![c] = EmptyTracker] => Accurate(trk'[c], db)
    BY <1>2, EmptyAccurate
  <2>5. QED
    BY <1>3, <2>1, <2>3, <2>4
<1>8. ASSUME NEW e \in Ents, NEW sel, NEW touched, Update(c, e, sel, touched)
      PROVE  Accurate(trk'[c], db)
  <2> DEFINE u == Relinked(t, e, sel, touched)
  <2>1. NothingFound(c) \/ trk' = [trk EXCEPT ![c] = u]
    BY <1>8 DEF Update, Await
  <2>2. t \in Tracker
    BY <1>1, <1>8 DEF Update
  <2>3. u.conn = t.conn
    BY <2>2 DEF Relinked, Track, Tracker
  <2> HIDE DEF u
  <2>4. QED
    BY <1>3, <1>4, <2>1, <2>3
<1>9. ASSUME NEW e \in Ents, Delete(c, e)
      PROVE  Accurate(trk'[c], db)
  <2> DEFINE u == [t EXCEPT !.ent[e] = "deleted"]
  <2>1. NothingFound(c) \/ trk' = [trk EXCEPT ![c] = u]
    BY <1>9 DEF Delete, Await
  <2>2. t \in Tracker
    BY <1>1, <1>9 DEF Delete
  <2>3. u.conn = t.conn
    BY <2>2 DEF Tracker
  <2> HIDE DEF u
  <2>4. QED
    BY <1>3, <1>4, <2>1, <2>3
<1>10. ASSUME NEW k \in Conns, NEW row, AddConn(c, k, row)
       PROVE  Accurate(trk'[c], db)
  <2> DEFINE n == [st |-> "added", orig |-> NoRow, cur |-> row]
  <2>1. trk' = [trk EXCEPT ![c] = [t EXCEPT !.conn[k] = n]] /\ t \in Tracker
    BY <1>1, <1>10 DEF AddConn, Await
  <2>2. n.st \notin {"unchanged", "modified"}
    OBVIOUS
  <2> HIDE DEF n
  <2>3. QED
    BY <1>5, <2>1, <2>2
<1>11. ASSUME NEW k \in Conns, NEW n, n = FindConn(t, k), t \in Tracker, OnlyDeletesPending(t)
       PROVE  /\ n.st \in {"none", "unchanged", "deleted"}
              /\ n.st = "unchanged" => n.orig = db.conn[k]
              /\ n \in Entry
  <2>1. n \in Entry /\ n.st \in {"none", "unchanged", "deleted"}
    BY <1>11, FindConnType DEF AInv, SInv, IInv, OnlyDeletesPending
  <2>2. QED
    BY <1>2, <1>11, <2>1 DEF FindConn, Accurate, NoEntry
<1>12. ASSUME NEW k \in Conns, NEW row \in Row, NEW touched \in BOOLEAN,
              UpdateConn(c, k, row, touched)
       PROVE  Accurate(trk'[c], db)
  <2> DEFINE n == FindConn(t, k)
             m == IF n.st = "deleted" THEN n
                  ELSE [n EXCEPT !.st = IF touched THEN "modified" ELSE @, !.cur = row]
  <2>1. /\ NothingFound(c) \/ (n # NoEntry /\ trk' = [trk EXCEPT ![c] = [t EXCEPT !.conn[k] = m]])
        /\ t \in Tracker
    BY <1>1, <1>12 DEF UpdateConn, Await
  <2>2. /\ n.st \in {"none", "unchanged", "deleted"} /\ n \in Entry
        /\ n.st = "unchanged" => n.orig = db.conn[k]
    BY <1>1, <1>11, <1>12 DEF UpdateConn
  <2> HIDE DEF n
  <2>3. n # NoEntry => n.st # "none"
    BY <2>2 DEF Entry, NoEntry
  <2>4. n # NoEntry /\ m.st \in {"unchanged", "modified"} => m.orig = db.conn[k]
    BY <2>2, <2>3 DEF Entry, NoEntry
  <2> HIDE DEF m
  <2>5. QED
    BY <1>4, <1>5, <2>1, <2>4
<1>13. ASSUME NEW k \in Conns, DeleteConn(c, k)
       PROVE  Accurate(trk'[c], db)
  <2> DEFINE n == FindConn(t, k)
             m == [n EXCEPT !.st = "deleted"]
  <2>1. /\ NothingFound(c) \/ trk' = [trk EXCEPT ![c] = [t EXCEPT !.conn[k] = m]]
        /\ t \in Tracker
    BY <1>1, <1>13 DEF DeleteConn, Await
  <2>2. n \in Entry
    BY <1>1, <1>11, <1>13 DEF DeleteConn
  <2> HIDE DEF n
  <2>3. m.st = "deleted"
    BY <2>2 DEF Entry, NoEntry
  <2> HIDE DEF m
  <2>4. QED
    BY <1>4, <1>5, <2>1, <2>3
<1>14. CASE CreateTag(c)
  BY <1>3, <1>14 DEF CreateTag
<1>15. QED
  BY <1>6, <1>7, <1>8, <1>9, <1>10, <1>12, <1>13, <1>14, StoreAssumption
     DEF Handler, UpdateServer, UpdateService, DeleteServer, DeleteService, Ents

LEMMA InitAInv == Init => AInv
BY InitSInv, EmptyAccurate DEF Init, AInv

LEMMA NextAInv ==
  ASSUME OneCircuit, AInv, [Next]_vars
  PROVE  AInv'
<1>1. SInv' /\ SInv /\ trk \in [Circuits -> Tracker]
  BY NextSInv DEF AInv, SInv, IInv, TypeOK
<1> SUFFICES ASSUME NEW c \in Circuits
             PROVE  Accurate(trk'[c], db')
  BY <1>1 DEF AInv
<1>2. Accurate(trk[c], db) /\ \A d \in Circuits : d = c
  BY DEF AInv, OneCircuit
<1>3. CASE UNCHANGED <<trk, db>>
  BY <1>2, <1>3
<1>4. CASE Handler(c)
  <2>1. db' = db
    BY <1>4 DEF Handler, AddServer, AddService, UpdateServer, UpdateService, Update,
                DeleteServer, DeleteService, Delete, AddConn, UpdateConn, DeleteConn,
                CreateTag, Await, NothingFound
  <2>2. QED
    BY <1>4, <2>1, HandlerAccurate
<1>5. CASE SaveSucceeds(c)
  <2> DEFINE t == Cascade(trk[c])
  <2>1. db' = Committed(db, t) /\ trk'[c] = Accepted(t)
    BY <1>1, <1>5 DEF SaveSucceeds
  <2>2. t \in Tracker /\ Accurate(t, db)
    BY <1>1, <1>2, CascadeType, CascadeAccurate
  <2>3. QED
    BY <2>1, <2>2, CommittedAccurate
<1>6. CASE SaveFails(c)
  <2>1. db' = db /\ trk'[c] \in {EmptyTracker, Cascade(trk[c])}
    BY <1>1, <1>6 DEF SaveFails
  <2>2. QED
    BY <1>1, <1>2, <2>1, CascadeAccurate, EmptyAccurate
<1>7. CASE Reload(c) \/ Restart
  BY <1>1, <1>7, EmptyAccurate DEF Reload, Restart
<1>8. QED
  BY <1>2, <1>3, <1>4, <1>5, <1>6, <1>7 DEF Next, OpenPage, vars

\* A single circuit's tracker is never out of date about sources.
THEOREM AccurateInvariance == OneCircuit => (Spec => []AInv)
<1> SUFFICES ASSUME OneCircuit
             PROVE  Spec => []AInv
  OBVIOUS
<1>1. AInv /\ [Next]_vars => AInv'
  BY NextAInv
<1>2. QED
  BY <1>1, InitAInv, PTL DEF Spec

\* With a single circuit a connection that nobody edits loses exactly the
\* references to rows the transaction deletes: a refused delete which is
\* carried out later nulls no reference to any other row.
THEOREM SourceIsSafe == OneCircuit => (Spec => SourceLostOnlyIfDeleted)
<1> SUFFICES ASSUME OneCircuit
             PROVE  Spec => SourceLostOnlyIfDeleted
  OBVIOUS
<1> DEFINE LostWithRow ==
             \A k \in Conns :
               db.conn[k] # NoRow /\ db'.conn[k] # NoRow /\ db'.conn[k] # db.conn[k] =>
                 \/ \E c \in Circuits : op[c] = Saving(k)
                 \/ db'.conn[k] = Without(db.conn[k], db.ent \ db'.ent)
<1>1. ASSUME AInv, NEW c \in Circuits, SaveSucceeds(c), NEW k \in Conns,
             db'.conn[k] # NoRow, db'.conn[k] # db.conn[k], op[c] # Saving(k)
      PROVE  db'.conn[k] = Without(db.conn[k], db.ent \ db'.ent)
  <2> DEFINE t == Cascade(trk[c])
             n == t.conn[k]
  <2>1. /\ t \in Tracker /\ ~Refused(db, t) /\ db \in Database /\ db' = Committed(db, t)
        /\ OneEdit(t, op[c].id) /\ Busy(c) /\ Accurate(t, db)
    <3>1. trk[c] \in Tracker /\ Accurate(trk[c], db) /\ SInv
      BY <1>1 DEF AInv, SInv, IInv, TypeOK
    <3>2. QED
      BY <1>1, <3>1, SaveEffect, CascadeAccurate DEF SaveSucceeds
  <2>2. /\ n.st # "added"
        /\ Live(n) => Cascaded(n, Gone(t))
    <3>1. CASE op[c].kind = "save"
      <4>1. op[c] \in OpType
        BY <1>1 DEF AInv, SInv, IInv, TypeOK, OpType
      <4>2. op[c].id # k
        BY <1>1, <3>1, <4>1 DEF OpType, Saving
      <4>3. QED
        BY <2>1, <4>2 DEF OneEdit
    <3>2. CASE op[c].kind = "delete"
      <4>1. OnlyDeletesPending(t)
        BY <1>1, <3>2, CascadeLingers DEF AInv, SInv, IInv, TypeOK, Lingering
      <4>2. k # Null
        BY KeysAssumption
      <4>3. OneEdit(t, Null)
        BY <2>1, <4>1, LingeringOneEdit
      <4>4. QED
        BY <4>2, <4>3 DEF OneEdit
    <3>3. QED
      BY <2>1, <3>1, <3>2 DEF Busy
  <2>3. n \in Entry /\ db.conn[k] \in Row \cup {NoRow} /\ db'.conn[k] = WrittenConn(db, t, k)
    BY <2>1 DEF Tracker, Database, Committed
  <2>4. Gone(t) = db.ent \ db'.ent
    <3>1. Gone(t) \subseteq db.ent \ db'.ent
      BY <2>1 DEF Refused, RowMissing, Gone, Committed
    <3>2. db.ent \ db'.ent \subseteq Gone(t)
      BY <2>1 DEF Committed
    <3>3. QED
      BY <3>1, <3>2
  <2>5. \A e \in Gone(t) : ~Refers(db'.conn[k], e)
    BY <2>1, <2>3 DEF Refused, Restricted
  <2> HIDE DEF t
  <2>6. n.st \in {"unchanged", "modified"} /\ Live(n)
    <3>1. n # NoEntry /\ n.st # "deleted"
      BY <1>1, <2>3 DEF WrittenConn, NoEntry, Row, NoRow
    <3>2. QED
      BY <2>2, <2>3, <3>1 DEF Entry, NoEntry, Live
  <2>7. n.orig = db.conn[k] /\ n.orig \in Row
    BY <2>1, <2>3, <2>6 DEF Accurate, Entry, NoEntry
  <2>8. /\ n.cur.svc = n.orig.svc
        /\ n.cur.srv # n.orig.srv => n.orig.srv \in Gone(t) /\ n.cur.srv = Null
        /\ n.cur.src # n.orig.src => n.orig.src \in Gone(t) /\ n.cur.src = Null
    BY <2>2, <2>6, <2>7, CascadedColumns
  <2>9. db'.conn[k] = [srv |-> n.cur.srv, src |-> n.cur.src, svc |-> n.cur.svc]
    BY <2>3, <2>6, <2>7 DEF WrittenConn
  <2>10. Without(db.conn[k], Gone(t)) =
           [srv |-> IF n.orig.srv \in Gone(t) THEN Null ELSE n.orig.srv,
            src |-> IF n.orig.src \in Gone(t) THEN Null ELSE n.orig.src,
            svc |-> n.orig.svc]
    BY <2>7, WithoutFacts
  <2>11. /\ n.orig.srv \in Gone(t) => n.cur.srv = Null
         /\ n.orig.src \in Gone(t) => n.cur.src = Null
    BY <2>5, <2>8, <2>9 DEF Refers
  <2>12. QED
    BY <2>4, <2>8, <2>9, <2>10, <2>11
<1>2. AInv /\ [Next]_vars => [LostWithRow]_vars
  BY <1>1, OnlySavesWrite
<1>3. Spec => []AInv
  BY AccurateInvariance
<1>4. QED
  BY <1>2, <1>3, PTL DEF Spec, SourceLostOnlyIfDeleted

--------------------------------------------------------------------------------
(***************************************************************************)
(* A pending delete that somebody else has carried out.                    *)
(***************************************************************************)
LEMMA TrackKeepsGone ==
  ASSUME NEW t \in Tracker, NEW E, NEW e \in Ents, t.ent[e] = "deleted"
  PROVE  Track(t, E) \in Tracker /\ Track(t, E).ent[e] = "deleted"
<1>1. Track(t, E).ent[e] = "deleted"
  BY DEF Track, Tracker
<1>2. QED
  BY <1>1, TrackType

\* No handler takes back a pending delete, short of ending the circuit.
LEMMA HandlerKeepsGone ==
  ASSUME SInv, NEW c \in Circuits, Handler(c), NEW e \in Gone(trk[c])
  PROVE  e \in Gone(trk'[c]) \/ trk'[c] = EmptyTracker
<1>1. /\ op[c] = Idle => trk[c] \in Tracker
      /\ trk \in [Circuits -> Tracker]
      /\ e \in Ents /\ trk[c].ent[e] = "deleted" /\ e \in used
  BY DEF SInv, IInv, TypeOK, KeysInv, Known, Gone
<1>2. ASSUME trk'[c].ent[e] = "deleted" PROVE e \in Gone(trk'[c])
  BY <1>1, <1>2 DEF Gone
<1>3. ASSUME NEW o, NEW t, Await(c, t, o), t.ent[e] = "deleted"
      PROVE  trk'[c].ent[e] = "deleted"
  BY <1>1, <1>3 DEF Await
<1>4. ASSUME NothingFound(c)
      PROVE  trk'[c].ent[e] = "deleted"
  BY <1>1, <1>4 DEF NothingFound
<1>5. ASSUME NEW s \in Servers, NEW sel, AddServer(c, s, sel)
      PROVE  trk'[c].ent[e] = "deleted"
  <2>1. s # e
    BY <1>1, <1>5 DEF AddServer, Fresh
  <2>2. PICK lk : Await(c, [Track(trk[c], sel \cap db.ent) EXCEPT
                             !.ent[s] = "added", !.link = lk], Saving(s))
    BY <1>5 DEF AddServer
  <2>3. [Track(trk[c], sel \cap db.ent) EXCEPT !.ent[s] = "added", !.link = lk].ent[e]
          = "deleted"
    <3>1. Track(trk[c], sel \cap db.ent) \in Tracker
            /\ Track(trk[c], sel \cap db.ent).ent[e] = "deleted"
      BY <1>1, TrackKeepsGone
    <3>2. QED
      BY <1>1, <2>1, <3>1 DEF Tracker
  <2>4. QED
    BY <1>3, <2>2, <2>3
<1>6. ASSUME NEW v \in Services, NEW sel \in SUBSET Servers, AddService(c, v, sel)
      PROVE  trk'[c].ent[e] = "deleted" \/ trk'[c] = EmptyTracker
  <2>1. v # e
    BY <1>1, <1>6 DEF AddService, Fresh
  <2>2. CASE Await(c, EmptyTracker, Dead)
    BY <1>1, <2>2 DEF Await
  <2>3. CASE ~Await(c, EmptyTracker, Dead)
    <3>1. e \notin sel
      BY <1>1, <1>6, <2>3 DEF AddService
    <3>2. PICK lk : Await(c, [trk[c] EXCEPT
                                !.ent = [x \in Ents |-> IF x = v THEN "added"
                                                        ELSE IF x \in sel THEN "keyed"
                                                        ELSE trk[c].ent[x]],
                                !.link = lk], Saving(v))
      BY <1>6, <2>3 DEF AddService
    <3>3. [trk[c] EXCEPT !.ent = [x \in Ents |-> IF x = v THEN "added"
                                                 ELSE IF x \in sel THEN "keyed"
                                                 ELSE trk[c].ent[x]],
                         !.link = lk].ent[e] = "deleted"
      BY <1>1, <2>1, <3>1 DEF Tracker
    <3>4. QED
      BY <1>3, <3>2, <3>3
  <2>4. QED
    BY <2>2, <2>3
<1>7. ASSUME NEW x \in Ents, NEW sel, NEW touched, Update(c, x, sel, touched)
      PROVE  trk'[c].ent[e] = "deleted"
  <2>1. CASE NothingFound(c)
    BY <1>4, <2>1
  <2>2. CASE Await(c, Relinked(trk[c], x, sel, touched), Saving(x))
    <3>1. PICK E, lk : Relinked(trk[c], x, sel, touched)
            = [Track(trk[c], E) EXCEPT
                 !.ent[x] = IF touched /\ @ = "unchanged" THEN "modified" ELSE @,
                 !.link = lk]
      BY DEF Relinked
    <3>2. Track(trk[c], E) \in Tracker /\ Track(trk[c], E).ent[e] = "deleted"
      BY <1>1, TrackKeepsGone
    <3>3. Relinked(trk[c], x, sel, touched).ent[e] = "deleted"
      BY <1>1, <3>1, <3>2 DEF Tracker
    <3>4. QED
      BY <1>3, <2>2, <3>3
  <2>3. QED
    BY <1>7, <2>1, <2>2 DEF Update
<1>8. ASSUME NEW x \in Ents, Delete(c, x)
      PROVE  trk'[c].ent[e] = "deleted"
  <2>1. [trk[c] EXCEPT !.ent[x] = "deleted"].ent[e] = "deleted"
    BY <1>1 DEF Tracker
  <2>2. QED
    BY <1>3, <1>4, <1>8, <2>1 DEF Delete
<1>9. ASSUME NEW k, NEW n, NEW o, Await(c, [trk[c] EXCEPT !.conn[k] = n], o)
      PROVE  trk'[c].ent[e] = "deleted"
  <2>1. [trk[c] EXCEPT !.conn[k] = n].ent[e] = "deleted"
    BY <1>1 DEF Tracker
  <2>2. QED
    BY <1>3, <1>9, <2>1
<1>10. ASSUME NEW k, NEW row, AddConn(c, k, row)
       PROVE  trk'[c].ent[e] = "deleted"
  BY <1>9, <1>10 DEF AddConn
<1>11. ASSUME NEW k, NEW row, NEW touched, UpdateConn(c, k, row, touched)
       PROVE  trk'[c].ent[e] = "deleted"
  BY <1>4, <1>9, <1>11 DEF UpdateConn
<1>12. ASSUME NEW k, DeleteConn(c, k)
       PROVE  trk'[c].ent[e] = "deleted"
  BY <1>4, <1>9, <1>12 DEF DeleteConn
<1>13. ASSUME CreateTag(c)
       PROVE  trk'[c].ent[e] = "deleted"
  BY <1>1, <1>3, <1>13 DEF CreateTag
<1>14. QED
  BY <1>2, <1>5, <1>6, <1>7, <1>8, <1>10, <1>11, <1>12, <1>13
     DEF Handler, UpdateServer, UpdateService, DeleteServer, DeleteService, Ents

\* A pending delete of a row that is gone refuses every save.
LEMMA StuckRefuses ==
  ASSUME SInv, NEW c \in Circuits, NEW e \in Gone(trk[c]), e \notin db.ent
  PROVE  ~SaveSucceeds(c)
<1>1. Cascade(trk[c]).ent[e] = "deleted" /\ e \in Ents
  BY DEF SInv, IInv, TypeOK, Cascade, Tracker, Gone
<1>2. QED
  BY <1>1 DEF SaveSucceeds, Refused, RowMissing

LEMMA StuckStep ==
  ASSUME SInv, [Next]_vars, NEW c \in Circuits, NEW e \in Gone(trk[c]), e \notin db.ent
  PROVE  /\ op'[c] # op[c] => db' = db
         /\ e \notin db'.ent
         /\ e \in Gone(trk'[c]) \/ trk'[c] = EmptyTracker
<1>1. trk \in [Circuits -> Tracker] /\ op \in [Circuits -> OpType] /\ db \in Database
      /\ e \in Ents /\ e \in used
  BY DEF SInv, IInv, TypeOK, OpType, KeysInv, Known, Gone
<1>2. ~SaveSucceeds(c)
  BY StuckRefuses
<1>3. op'[c] # op[c] => db' = db
  <2>1. \A d \in Circuits \ {c} : SaveSucceeds(d) => op'[c] = op[c]
    BY <1>1 DEF SaveSucceeds
  <2>2. QED
    BY <1>2, <2>1, OnlySavesUse
<1>4. e \notin db'.ent
  <2>1. e \notin IdsOf(db)
    BY <1>1, KeysAssumption DEF IdsOf, Ents
  <2>2. e \notin IdsOf(db')
    BY <1>1, <2>1, OnlySavesUse, SaveEffect
  <2>3. QED
    BY <2>2 DEF IdsOf
<1>5. e \in Gone(trk'[c]) \/ trk'[c] = EmptyTracker
  <2>1. CASE UNCHANGED vars
    BY <2>1 DEF vars
  <2>2. CASE Handler(c)
    BY <2>2, HandlerKeepsGone
  <2>3. CASE SaveFails(c)
    <3>1. trk'[c] \in {Cascade(trk[c]), EmptyTracker}
      BY <1>1, <2>3 DEF SaveFails
    <3>2. Cascade(trk[c]).ent = trk[c].ent
      BY <1>1 DEF Cascade, Tracker
    <3>3. QED
      BY <3>1, <3>2 DEF Gone
  <2>4. CASE OpenPage(c)
    BY <2>4 DEF OpenPage
  <2>5. CASE Reload(c) \/ Restart
    BY <1>1, <2>5 DEF Reload, Restart
  <2>6. ASSUME NEW d \in Circuits \ {c},
               Handler(d) \/ SaveSucceeds(d) \/ SaveFails(d) \/ OpenPage(d) \/ Reload(d)
        PROVE  trk'[c] = trk[c]
    <3>1. ASSUME Handler(d) PROVE trk'[c] = trk[c]
      BY <1>1, <3>1
         DEF Handler, AddServer, AddService, UpdateServer, UpdateService, Update,
             DeleteServer, DeleteService, Delete, AddConn, UpdateConn, DeleteConn, CreateTag,
             Await, NothingFound
    <3>2. QED
      BY <1>1, <2>6, <3>1 DEF SaveSucceeds, SaveFails, OpenPage, Reload
  <2>7. QED
    BY <1>2, <2>1, <2>2, <2>3, <2>4, <2>5, <2>6 DEF Next
<1>6. QED
  BY <1>3, <1>4, <1>5

\* A circuit that waits to delete what another has deleted writes nothing
\* more until it is reloaded.
THEOREM StuckForGood == Spec => StuckUntilReload
<1> DEFINE Waits(c) == Stuck(c) => /\ op'[c] # op[c] => db' = db
                                   /\ Stuck(c)' \/ trk'[c] = EmptyTracker
<1>1. ASSUME SInv, [Next]_vars, NEW c \in Circuits
      PROVE  Waits(c)
  BY <1>1, StuckStep DEF Stuck
<1>2. SInv /\ [Next]_vars => [\A c \in Circuits : Waits(c)]_vars
  BY <1>1
<1>3. QED
  BY <1>2, KeysInvariance, PTL DEF Spec, StuckUntilReload

LEMMA SameTables ==
  /\ Promised!Database = Database
  /\ \A d : Promised!Consistent(d) <=> Consistent(d)
  /\ \A d : Promised!IdsOf(d) = IdsOf(d)
  /\ \A l : Promised!Ends(l) = Ends(l)
  /\ Promised!Links = Links
  /\ Promised!Keys = Ids
BY DEF Promised!Database, Database, Promised!Consistent, Consistent, Promised!IdsOf, IdsOf,
       Promised!Ends, Ends, Promised!Links, Links, Promised!Keys, Ids, Promised!Ents, Ents,
       Promised!Row, Row, Promised!NoRow, NoRow

\* A commit is the transaction of the row it edits or inserts.
LEMMA SaveIsTransaction ==
  ASSUME SInv, SInv', NEW c \in Circuits, SaveSucceeds(c)
  PROVE  Promised!Next
<1> DEFINE t    == Cascade(trk[c])
           gone == IdsOf(db) \ IdsOf(db')
           id   == IF op[c].id \in IdsOf(db') THEN op[c].id ELSE Null
<1>1. /\ t \in Tracker /\ OneEdit(t, op[c].id) /\ ~Refused(db, t)
      /\ db \in Database /\ db' = Committed(db, t) /\ used' = used \cup IdsOf(db')
      /\ IdsOf(db') \subseteq IdsOf(db) \cup {op[c].id}
      /\ op[c].id \in IdsOf(db') => op[c].id \in IdsOf(db) \/ op[c].id \notin used
  BY SaveEffect
<1>2. /\ db' \in Database /\ Consistent(db) /\ Consistent(db')
      /\ used \subseteq Ids /\ IdsOf(db') \subseteq Ids
  BY IdsOfType DEF SInv, IInv, TypeOK, ReferentialIntegrity, Consistent, Ends
<1> HIDE DEF t
<1>3. Null \notin Ids
  BY KeysAssumption DEF Ids, Ents
<1>4. Gone(t) \subseteq gone
  BY <1>1, GoneIsGone
<1>5. id \in Ids \cup {Null} /\ (id \notin used \/ id \in IdsOf(db))
  BY <1>1, <1>2, <1>3
<1>6. IdsOf(db') = (IdsOf(db) \cup ({id} \ {Null})) \ gone
  BY <1>1, <1>2, <1>3
<1>7. ASSUME NEW k \in Conns \ ({id} \cup gone)
      PROVE  Promised!OnlyLoses(db.conn[k], db'.conn[k], gone)
  <2>1. CASE db'.conn[k] = NoRow
    <3>1. k \notin IdsOf(db')
      BY <1>2, <2>1, KeysAssumption DEF IdsOf, Database, Ents
    <3>2. db.conn[k] = NoRow
      BY <1>7, <3>1 DEF IdsOf
    <3>3. QED
      BY <2>1, <3>2 DEF Promised!OnlyLoses
  <2>2. CASE db'.conn[k] # NoRow
    <3>1. k # op[c].id
      BY <1>7, <2>2 DEF IdsOf
    <3>2. Promised!OnlyLoses(db.conn[k], db'.conn[k], Gone(t))
      BY <1>1, <2>2, <3>1, CommittedConn
    <3>3. QED
      BY <1>4, <3>2 DEF Promised!OnlyLoses
  <2>3. QED
    BY <2>1, <2>2
<1>8. ASSUME NEW l \in Links, (l \in db.link) # (l \in db'.link)
      PROVE  id \in Ends(l) \/ (l \in db.link /\ Ends(l) \cap gone # {})
  <2>1. op[c].id \in Ends(l) \/ (l \in db.link /\ Ends(l) \cap Gone(t) # {})
    BY <1>1, <1>8, CommittedLink
  <2>2. ASSUME op[c].id \in Ends(l), op[c].id \notin IdsOf(db')
        PROVE  l \in db.link /\ op[c].id \in gone
    <3>1. l \notin db'.link
      BY <1>2, <2>2 DEF Consistent, IdsOf
    <3>2. op[c].id \in db.ent
      BY <1>2, <1>8, <2>2, <3>1 DEF Consistent
    <3>3. QED
      BY <1>8, <2>2, <3>1, <3>2 DEF IdsOf
  <2>3. QED
    BY <1>4, <2>1, <2>2
<1> HIDE DEF id, gone
<1>9. Promised!Transaction(id, gone)
  BY <1>1, <1>2, <1>5, <1>6, <1>7, <1>8, SameTables DEF Promised!Transaction
<1>10. QED
  BY <1>5, <1>9, SameTables DEF Promised!Next, gone

\* The store with all its trackers, snapshots and failing saves does what
\* the inventory allows: no circuit's leftovers slip an edit or an insert
\* into somebody else's transaction.
THEOREM Implements == Spec => ImplementsInventory
<1>1. Init => Promised!Init
  <2>1. ASSUME Init
        PROVE  used \in SUBSET Ids /\ IdsOf(db) \subseteq used
    BY <2>1, IdsOfType, StoreAssumption DEF Init, Ids
  <2>2. QED
    BY <2>1, SameTables DEF Init, Promised!Init
<1>2. SInv /\ SInv' /\ [Next]_vars => [Promised!Next]_<<db, used>>
  BY OnlySavesUse, SaveIsTransaction
<1>3. QED
  BY <1>1, <1>2, KeysInvariance, PTL DEF Spec, ImplementsInventory, Promised!Spec
================================================================================
