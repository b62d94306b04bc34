---------------------------- MODULE ServerFormProofs ----------------------------
(***************************************************************************)
(* Theorems about ServerForm, for any sets of servers, tags and circuits   *)
(* and any number of visits and restarts: what a Save leaves behind        *)
(* whether it succeeds or fails, and what the audit log has of it.         *)
(***************************************************************************)
EXTENDS ServerForm, TLAPS

--------------------------------------------------------------------------------
(***************************************************************************)
(* What the operators on trackers return when there are no connections.    *)
(***************************************************************************)
TrackerDefs ==
  /\ Store!Ents = Servers \cup Tags
  /\ Store!Links = Servers \X Tags
  /\ \A t : Store!Gone(t) = {e \in Servers \cup Tags : t.ent[e] = "deleted"}
  /\ \A t : Store!Added(t) = {e \in Servers \cup Tags : t.ent[e] = "added"}
  /\ \A l : Store!Ends(l) = {l[1], l[2]}

LEMMA Trackers == TrackerDefs
BY DEF TrackerDefs, Store!Ents, Store!Links, Store!Gone, Store!Added, Store!Ends

LEMMA TrackerType ==
  ASSUME NEW t
  PROVE  t \in Store!Tracker =>
           /\ t.ent \in [Store!Ents -> Store!EntState]
           /\ t.link \in [Store!Links -> Store!LinkState]
BY DEF Store!Tracker

LEMMA EmptyTrackerType == Store!EmptyTracker \in Store!Tracker
BY DEF Store!EmptyTracker, Store!Tracker, Store!EntState, Store!LinkState

\* Passing pending deletes on to the join rows.
LEMMA CascadeFacts ==
  ASSUME NEW t \in Store!Tracker
  PROVE  /\ Store!Cascade(t) \in Store!Tracker
         /\ Store!Cascade(t).ent = t.ent
         /\ Store!Gone(Store!Cascade(t)) = Store!Gone(t)
         /\ Store!Added(Store!Cascade(t)) = Store!Added(t)
         /\ \A l \in Store!Links :
              Store!Cascade(t).link[l] = IF Store!Ends(l) \cap Store!Gone(t) = {} THEN t.link[l]
                                         ELSE IF t.link[l] = "unchanged" THEN "deleted"
                                         ELSE IF t.link[l] = "added" THEN "none"
                                         ELSE t.link[l]
<1> DEFINE lnk(l) == IF Store!Ends(l) \cap Store!Gone(t) = {} THEN t.link[l]
                     ELSE IF t.link[l] = "unchanged" THEN "deleted"
                     ELSE IF t.link[l] = "added" THEN "none"
                     ELSE t.link[l]
           cn == [k \in {} |-> IF Store!Live(t.conn[k])
                               THEN [t.conn[k] EXCEPT !.cur = Store!Without(@, Store!Gone(t))]
                               ELSE t.conn[k]]
<1>1. Store!Cascade(t) = [t EXCEPT !.conn = cn, !.link = [l \in Store!Links |-> lnk(l)]]
  BY DEF Store!Cascade
<1>2. \A l \in Store!Links : lnk(l) \in Store!LinkState
  BY DEF Store!Tracker, Store!LinkState
<1>3. cn \in [{} -> Store!Entry]
  OBVIOUS
<1> HIDE DEF lnk, cn
<1>4. [l \in Store!Links |-> lnk(l)] \in [Store!Links -> Store!LinkState]
  BY <1>2
<1>5. /\ Store!Cascade(t) \in Store!Tracker
      /\ Store!Cascade(t).ent = t.ent
      /\ Store!Cascade(t).link = [l \in Store!Links |-> lnk(l)]
  BY <1>1, <1>3, <1>4 DEF Store!Tracker
<1>6. \A l \in Store!Links : Store!Cascade(t).link[l] = lnk(l)
  BY <1>5
<1>7. /\ Store!Gone(Store!Cascade(t)) = Store!Gone(t)
      /\ Store!Added(Store!Cascade(t)) = Store!Added(t)
  BY <1>5 DEF Store!Gone, Store!Added
<1>8. QED
  BY <1>5, <1>6, <1>7 DEF lnk

\* AcceptAllChanges leaves nothing pending.
LEMMA AcceptedFacts ==
  ASSUME NEW t \in Store!Tracker
  PROVE  /\ Store!Accepted(t) \in Store!Tracker
         /\ \A e \in Store!Ents : Store!Accepted(t).ent[e] \in {"none", "unchanged"}
         /\ \A l \in Store!Links :
              Store!Accepted(t).link[l] = IF t.link[l] \in {"none", "deleted"} THEN "none"
                                                                              ELSE "unchanged"
<1> DEFINE en == [e \in Store!Ents |-> IF t.ent[e] \in {"none", "deleted"} THEN "none"
                                                                          ELSE "unchanged"]
           ln == [l \in Store!Links |-> IF t.link[l] \in {"none", "deleted"} THEN "none"
                                                                            ELSE "unchanged"]
           cn == Store!Accepted(t).conn
<1>1. Store!Accepted(t) = [ent |-> en, conn |-> cn, link |-> ln]
  BY DEF Store!Accepted
<1>2. en \in [Store!Ents -> Store!EntState] /\ ln \in [Store!Links -> Store!LinkState]
  BY DEF Store!EntState, Store!LinkState
<1>3. cn \in [{} -> Store!Entry]
  BY DEF Store!Accepted
<1> HIDE DEF cn
<1>4. Store!Accepted(t) \in Store!Tracker
  BY <1>1, <1>2, <1>3 DEF Store!Tracker
<1>5. QED
  BY <1>1, <1>4

LEMMA CommittedFacts ==
  ASSUME NEW d \in Store!Database, NEW t \in Store!Tracker
  PROVE  /\ Store!Committed(d, t) \in Store!Database
         /\ Store!Committed(d, t).ent = (d.ent \cup Store!Added(t)) \ Store!Gone(t)
         /\ \A l \in Store!Links : l \in Store!Committed(d, t).link <=>
              /\ (l \in d.link /\ t.link[l] # "deleted") \/ t.link[l] = "added"
              /\ Store!Ends(l) \cap Store!Gone(t) = {}
         /\ Store!Committed(d, t).link \subseteq Store!Links
<1> DEFINE x == Store!Committed(d, t)
<1>1. x.conn \in [{} -> Store!Row \cup {Store!NoRow}]
  BY DEF Store!Committed
<1>2. x.ent = (d.ent \cup Store!Added(t)) \ Store!Gone(t)
  BY DEF Store!Committed
<1>3. x.link = {l \in Store!Links : /\ \/ l \in d.link /\ t.link[l] # "deleted"
                                       \/ t.link[l] = "added"
                                    /\ Store!Ends(l) \cap Store!Gone(t) = {}}
  BY DEF Store!Committed
<1>4. x = [ent |-> x.ent, conn |-> x.conn, link |-> x.link]
  BY DEF Store!Committed
<1>5. x.ent \in SUBSET Store!Ents /\ x.link \in SUBSET Store!Links
  BY <1>2, <1>3 DEF Store!Database, Store!Added
<1> HIDE DEF x
<1>6. x \in Store!Database
  BY <1>1, <1>4, <1>5 DEF Store!Database
<1>7. QED
  BY <1>2, <1>3, <1>5, <1>6 DEF x

\* The join rows a transaction leaves have both their ends.
LEMMA CommittedConsistent ==
  ASSUME NEW d \in Store!Database, NEW t \in Store!Tracker,
         Store!Consistent(d), ~Refused(d, t)
  PROVE  Store!Consistent(Store!Committed(d, t))
<1> DEFINE x == Store!Committed(d, t)
<1>1. ASSUME NEW l \in x.link
      PROVE  Store!Ends(l) \subseteq x.ent
  <2>1. l \in Store!Links /\ Store!Ends(l) \cap Store!Gone(t) = {}
    BY CommittedFacts
  <2>2. l \in d.link \/ t.link[l] = "added"
    BY <2>1, CommittedFacts
  <2>3. Store!Ends(l) \subseteq d.ent \cup Store!Added(t)
    BY <2>1, <2>2 DEF Store!Consistent, Refused, Store!Refused, Store!ReferenceMissing
  <2>4. QED
    BY <2>1, <2>3, CommittedFacts
<1>2. QED
  BY <1>1 DEF Store!Consistent

LEMMA TrackFacts ==
  ASSUME NEW t \in Store!Tracker, NEW E
  PROVE  /\ Store!Track(t, E) \in Store!Tracker
         /\ Store!Track(t, E).link = t.link
         /\ \A e \in Store!Ents : Store!Track(t, E).ent[e] =
              IF e \in E /\ t.ent[e] = "none" THEN "unchanged" ELSE t.ent[e]
         /\ Store!Gone(Store!Track(t, E)) = Store!Gone(t)
         /\ Store!Added(Store!Track(t, E)) = Store!Added(t)
<1>1. /\ Store!Track(t, E) \in Store!Tracker
      /\ Store!Track(t, E).link = t.link
      /\ \A e \in Store!Ents : Store!Track(t, E).ent[e] =
           IF e \in E /\ t.ent[e] = "none" THEN "unchanged" ELSE t.ent[e]
  BY DEF Store!Track, Store!Tracker, Store!EntState
<1>2. QED
  BY <1>1 DEF Store!Gone, Store!Added

\* What clear and re-add of a server's tags makes of a join row.
Rejoin(t, s, sel, l) ==
  LET was == IF t.link[l] = "none" /\ l \in db.link THEN "unchanged" ELSE t.link[l]
  IN IF l[1] # s THEN t.link[l]
     ELSE IF l[2] \in sel \cap db.ent /\ was = "none" THEN "added"
     ELSE IF l[2] \notin sel \cap db.ent /\ was = "unchanged" THEN "deleted"
     ELSE was

\* No other join row than the server's own comes to be pending.
LEMMA RelinkedFacts ==
  ASSUME NEW t \in Store!Tracker, NEW s \in Servers, NEW sel \in SUBSET Tags,
         NEW touched \in BOOLEAN
  PROVE  /\ Store!Relinked(t, s, sel, touched) \in Store!Tracker
         /\ Store!Gone(Store!Relinked(t, s, sel, touched)) = Store!Gone(t)
         /\ Store!Added(Store!Relinked(t, s, sel, touched)) = Store!Added(t)
         /\ \A l \in Store!Links :
              Store!Relinked(t, s, sel, touched).link[l] = Rejoin(t, s, sel, l)
<1> DEFINE own    == {l \in Store!Links : s \in Store!Ends(l)}
           chosen == {l \in own : Store!Ends(l) \ {s} \subseteq sel \cap db.ent}
           met    == UNION {Store!Ends(l) : l \in chosen \cup (own \cap db.link)}
           x      == Store!Track(t, met \cup {s})
           loaded(l) == IF t.link[l] = "none" /\ l \in db.link THEN "unchanged" ELSE t.link[l]
           lnk(l) == IF l \notin own THEN t.link[l]
                     ELSE IF l \in chosen /\ loaded(l) = "none" THEN "added"
                     ELSE IF l \notin chosen /\ loaded(l) = "unchanged" THEN "deleted"
                     ELSE loaded(l)
           st     == IF touched /\ x.ent[s] = "unchanged" THEN "modified" ELSE x.ent[s]
           u      == Store!Relinked(t, s, sel, touched)
<1>1. /\ x \in Store!Tracker
      /\ Store!Gone(x) = Store!Gone(t) /\ Store!Added(x) = Store!Added(t)
  BY TrackFacts
<1>2. \A l \in Store!Links : lnk(l) \in Store!LinkState
  BY DEF Store!Tracker, Store!LinkState
<1>3. u = [x EXCEPT !.ent = [x.ent EXCEPT ![s] = st], !.link = [l \in Store!Links |-> lnk(l)]]
  BY DEF Store!Relinked
<1>4. \A l \in Store!Links :
        /\ l \in own <=> l[1] = s
        /\ l \in own => (l \in chosen <=> l[2] \in sel \cap db.ent)
  BY FormAssumption DEF Store!Links, Store!Ends
<1> HIDE DEF x, own, chosen
<1>5. st \in Store!EntState /\ (st = "deleted" <=> x.ent[s] = "deleted")
                            /\ (st = "added" <=> x.ent[s] = "added")
  BY <1>1 DEF Store!Tracker, Store!EntState, Store!Ents
<1> HIDE DEF st, lnk
<1>6. [l \in Store!Links |-> lnk(l)] \in [Store!Links -> Store!LinkState]
  BY <1>2
<1>7. [x.ent EXCEPT ![s] = st] \in [Store!Ents -> Store!EntState]
  BY <1>1, <1>5 DEF Store!Tracker
<1>8. /\ u \in Store!Tracker
      /\ \A e \in Store!Ents : u.ent[e] = IF e = s THEN st ELSE x.ent[e]
      /\ u.link = [l \in Store!Links |-> lnk(l)]
  BY <1>1, <1>3, <1>6, <1>7 DEF Store!Tracker
<1> HIDE DEF u
<1>9. Store!Gone(u) = Store!Gone(t) /\ Store!Added(u) = Store!Added(t)
  BY <1>1, <1>5, <1>8 DEF Store!Gone, Store!Added
<1>10. \A l \in Store!Links :
        u.link[l] = Rejoin(t, s, sel, l)
  BY <1>4, <1>8 DEF lnk, Rejoin
<1>11. u \in Store!Tracker
  BY <1>8
<1>12. QED
  BY <1>9, <1>10, <1>11 DEF u

--------------------------------------------------------------------------------
(***************************************************************************)
(* The invariant.                                                          *)
(***************************************************************************)
Record == Rows \X [entity : {"Server", "Tag", "Dictionary"},
                  action : {"Added", "Modified", "Deleted"},
                  id     : Store!Ents \cup {Null}]

TypeOK ==
  /\ db \in Store!Database /\ used \in SUBSET Servers
  /\ trk \in [Circuits -> Store!Tracker]
  /\ form \in [Circuits -> Form]
  /\ task \in [Circuits -> Task \cup {NoTask}]
  /\ log \in [Circuits -> SUBSET Record]

Between(c) == form[c].at \in {"idle", "resolve", "delete"}
Awaiting(c) == form[c].at \in {"tag", "save", "delete"}

\* A handler starts, and goes on after each tag, with nothing of its own
\* pending.
Clean(c) ==
  /\ Between(c) => Store!OnlyDeletesPending(trk[c])
  /\ form[c].at = "tag" => Store!Added(trk[c]) \subseteq Tags

\* Nobody deletes tags, so that a tag once found stays.
TagsStay(c) ==
  /\ Store!Gone(trk[c]) \subseteq Servers
  /\ form[c].got \subseteq IF form[c].at = "tag" THEN db.ent \cup Store!Added(trk[c])
                                                 ELSE db.ent

\* The tags found and those still to find are those of the form.
InHand(c) ==
  /\ form[c].at \in {"resolve", "tag", "save"} =>
       task[c] # NoTask /\ form[c].left \cup form[c].got = task[c].tags
  /\ form[c].at = "save" => form[c].left = {}

\* The log has what the transaction that is awaited will write.
Logged(c) == log[c] = IF Awaiting(c) THEN Audited(Store!Cascade(trk[c])) ELSE {}

\* The identity of a new server is nobody else's until it is saved.
OwnKey(c) ==
  /\ task[c].new => /\ task[c].srv \notin used
                    /\ \A d \in Circuits \ {c} : task[d].srv # task[c].srv
  /\ ~task[c].new /\ task[c] # NoTask => task[c].srv \in used

\* A tracker knows join rows of servers that are, or were, in the table.
KnownLinks(c) ==
  \A l \in Store!Links : trk[c].link[l] # "none" =>
    \/ l[1] \in used
    \/ form[c].at = "save" /\ l[1] = task[c].srv

\* What a Save has made of the form when it awaits the database: the join
\* rows that are there, or will be, are those of the tags chosen.
Rejoined(c) ==
  form[c].at = "save" =>
    /\ Store!Added(trk[c]) = IF task[c].new THEN {task[c].srv} ELSE {}
    /\ \A a \in Tags :
         \/ task[c].srv \in Store!Gone(trk[c])
         \/ trk[c].link[<<task[c].srv, a>>] \in
              IF a \in task[c].tags THEN (IF task[c].new THEN {"added"} ELSE {"added", "unchanged"})
                                    ELSE (IF task[c].new THEN {"none"} ELSE {"none", "deleted"})

Sound(c) == /\ Clean(c) /\ TagsStay(c) /\ InHand(c) /\ Logged(c)
            /\ OwnKey(c) /\ KnownLinks(c) /\ Rejoined(c)

IInv ==
  /\ TypeOK
  /\ Store!Consistent(db) /\ db.ent \cap Servers \subseteq used
  /\ \A c \in Circuits : Sound(c)

--------------------------------------------------------------------------------
(***************************************************************************)
(* Steps of one circuit that leave the database alone.                     *)
(***************************************************************************)
LEMMA AuditedType ==
  ASSUME NEW t
  PROVE  Audited(t) \in SUBSET Record
<1>1. \A r \in Rows : FirstKey(r) \in Store!Ents
  BY DEF Rows, FirstKey, Store!Ents, Store!Links
<1>2. \A r \in Rows : <<r, Line(t, r)>> \in Record
  BY <1>1 DEF Record, Line, Entity, Action, EntityId
<1>3. QED
  BY <1>2 DEF Audited

LEMMA EmptyFacts ==
  /\ Store!OnlyDeletesPending(Store!EmptyTracker)
  /\ Store!Gone(Store!EmptyTracker) = {} /\ Store!Added(Store!EmptyTracker) = {}
  /\ \A l \in Store!Links : Store!EmptyTracker.link[l] = "none"
BY DEF Store!OnlyDeletesPending, Store!EmptyTracker, Store!Gone, Store!Added

LEMMA AtType ==
  ASSUME NEW place \in {"idle", "resolve", "tag", "save", "delete", "dead"}
  PROVE  At(place) \in Form
BY DEF At, Form

\* Nothing that c can do here touches another circuit, but for the identity
\* of a server that c would have.
Frame(c) ==
  /\ UNCHANGED <<db, used>>
  /\ \A d \in Circuits \ {c} : /\ trk'[d] = trk[d] /\ form'[d] = form[d]
                               /\ task'[d] = task[d] /\ log'[d] = log[d]

LEMMA OthersSound ==
  ASSUME IInv, NEW c \in Circuits, Frame(c),
         \A d \in Circuits \ {c} : task[d].new => task'[c].srv # task[d].srv
  PROVE  \A d \in Circuits \ {c} : Sound(d)'
<1> SUFFICES ASSUME NEW d \in Circuits \ {c} PROVE Sound(d)'
  OBVIOUS
<1>1. /\ trk'[d] = trk[d] /\ form'[d] = form[d] /\ task'[d] = task[d] /\ log'[d] = log[d]
      /\ db' = db /\ used' = used
  BY DEF Frame
<1>2. Sound(d)
  BY DEF IInv
<1>3. OwnKey(d)'
  <2>1. \A e \in Circuits \ {d} : task'[e] = task[e] \/ e = c
    BY DEF Frame
  <2>2. QED
    BY <1>1, <1>2, <2>1 DEF Sound, OwnKey
<1>4. Clean(d)' /\ TagsStay(d)' /\ InHand(d)' /\ Logged(d)' /\ KnownLinks(d)' /\ Rejoined(d)'
  BY <1>1, <1>2 DEF Sound, Clean, TagsStay, InHand, Logged, KnownLinks, Rejoined, Between, Awaiting
<1>5. QED
  BY <1>3, <1>4 DEF Sound

LEMMA FrameKeepsInv ==
  ASSUME IInv, NEW c \in Circuits, Frame(c), TypeOK', Sound(c)',
         \A d \in Circuits \ {c} : task[d].new => task'[c].srv # task[d].srv
  PROVE  IInv'
<1>1. \A d \in Circuits \ {c} : Sound(d)'
  BY OthersSound
<1>2. UNCHANGED <<db, used>>
  BY DEF Frame
<1>3. Store!Consistent(db)' /\ (db.ent \cap Servers \subseteq used)'
  BY <1>2 DEF IInv
<1>4. QED
  BY <1>1, <1>3 DEF IInv

\* The same key, or none, cannot be another's.
LEMMA SameKey ==
  ASSUME IInv, NEW c \in Circuits, task'[c].srv \in {task[c].srv, Null}
  PROVE  \A d \in Circuits \ {c} : task[d].new => task'[c].srv # task[d].srv
<1> SUFFICES ASSUME NEW d \in Circuits \ {c}, task[d].new
             PROVE  task'[c].srv # task[d].srv
  OBVIOUS
<1>1. task[d] \in Task
  BY DEF IInv, TypeOK, NoTask
<1>2. task[d].srv # Null
  BY <1>1, FormAssumption DEF Task
<1>3. OwnKey(d)
  BY DEF IInv, Sound
<1>4. task[d].srv # task[c].srv
  BY <1>3 DEF OwnKey
<1>5. QED
  BY <1>2, <1>4

\* A step of a handler that ends in SaveChangesAsync.
LEMMA AwaitKeepsInv ==
  ASSUME IInv, NEW c \in Circuits, NEW t \in Store!Tracker, NEW f \in Form,
         CallSave(c, t, f), UNCHANGED <<db, used, task>>,
         f.at \in {"tag", "save", "delete"},
         f.at = "delete" => Store!OnlyDeletesPending(t),
         f.at = "tag" => Store!Added(t) \subseteq Tags,
         Store!Gone(t) \subseteq Servers,
         f.got \subseteq IF f.at = "tag" THEN db.ent \cup Store!Added(t) ELSE db.ent,
         f.at # "delete" => task[c] # NoTask /\ f.left \cup f.got = task[c].tags,
         f.at = "save" => f.left = {},
         \A l \in Store!Links : t.link[l] # "none" =>
            l[1] \in used \/ (f.at = "save" /\ l[1] = task[c].srv),
         f.at = "save" => Store!Added(t) = IF task[c].new THEN {task[c].srv} ELSE {},
         f.at = "save" => \A a \in Tags :
           \/ task[c].srv \in Store!Gone(t)
           \/ t.link[<<task[c].srv, a>>] \in
                IF a \in task[c].tags THEN (IF task[c].new THEN {"added"} ELSE {"added", "unchanged"})
                                      ELSE (IF task[c].new THEN {"none"} ELSE {"none", "deleted"})
  PROVE  IInv'
<1>1. /\ trk'[c] = t /\ form'[c] = f /\ task' = task
      /\ log'[c] = Audited(Store!Cascade(t)) /\ db' = db /\ used' = used
  BY DEF CallSave, IInv, TypeOK
<1>2. Frame(c)
  BY DEF Frame, CallSave, IInv, TypeOK
<1>3. TypeOK'
  BY AuditedType DEF CallSave, IInv, TypeOK
<1>4. Sound(c)
  BY DEF IInv
<1>5. Clean(c)' /\ TagsStay(c)' /\ InHand(c)'
  BY <1>1 DEF Clean, TagsStay, InHand, Between
<1>6. Logged(c)' /\ KnownLinks(c)'
  BY <1>1 DEF Logged, KnownLinks, Awaiting
<1>7. OwnKey(c)' /\ Rejoined(c)'
  BY <1>1, <1>4 DEF Sound, OwnKey, Rejoined
<1>8. QED
  BY <1>1, <1>2, <1>3, <1>5, <1>6, <1>7, FrameKeepsInv, SameKey DEF Sound

\* The circuit, or the process, starts anew with an empty tracker.
LEMMA FreshSound ==
  ASSUME NEW c \in Circuits, OwnKey(c)', trk'[c] = Store!EmptyTracker,
         form'[c] \in {At("idle"), At("dead")}, log'[c] = {}
  PROVE  Sound(c)'
<1>1. /\ form'[c].at \in {"idle", "dead"} /\ form'[c].left = {} /\ form'[c].got = {}
  BY DEF At
<1>2. Clean(c)' /\ TagsStay(c)' /\ InHand(c)'
  BY <1>1, EmptyFacts DEF Clean, TagsStay, InHand, Between
<1>3. Logged(c)' /\ KnownLinks(c)' /\ Rejoined(c)'
  BY <1>1, EmptyFacts DEF Logged, KnownLinks, Rejoined, Awaiting
<1>4. QED
  BY <1>2, <1>3 DEF Sound

--------------------------------------------------------------------------------
(***************************************************************************)
(* The handlers.                                                           *)
(***************************************************************************)
LEMMA FillInKeepsInv ==
  ASSUME IInv, NEW c \in Circuits, NEW t \in Task, FillIn(c, t)
  PROVE  IInv'
<1>1. /\ form[c].at = "idle" /\ task'[c] = t /\ trk'[c] = trk[c]
      /\ form'[c] = form[c] /\ log'[c] = log[c] /\ db' = db /\ used' = used
      /\ Frame(c) /\ TypeOK'
  BY DEF FillIn, Frame, IInv, TypeOK
<1>2. /\ t.new => t.srv \notin used /\ \A d \in Circuits : task[d].srv # t.srv
      /\ ~t.new => t.srv \in used
  BY DEF FillIn
<1>3. \A d \in Circuits \ {c} : task'[d] = task[d]
  BY <1>1 DEF Frame
<1>4. \A d \in Circuits \ {c} : task[d].new => t.srv # task[d].srv
  BY <1>2 DEF IInv, Sound, OwnKey
<1>5. Sound(c)
  BY DEF IInv
<1>6. OwnKey(c)'
  BY <1>1, <1>2, <1>3 DEF OwnKey
<1>7. Clean(c)' /\ TagsStay(c)' /\ InHand(c)' /\ Logged(c)' /\ KnownLinks(c)' /\ Rejoined(c)'
  BY <1>1, <1>5 DEF Sound, Clean, TagsStay, InHand, Logged, KnownLinks, Rejoined, Between, Awaiting
<1>8. QED
  BY <1>1, <1>4, <1>6, <1>7, FrameKeepsInv DEF Sound

\* A handler that ends without a SaveChanges.
LEMMA DoneKeepsInv ==
  ASSUME IInv, NEW c \in Circuits, form[c].at \in {"idle", "resolve"},
         Done(c), UNCHANGED <<db, used, trk, log>>
  PROVE  IInv'
<1>1. /\ form'[c] = At("idle") /\ task'[c] = NoTask /\ Frame(c)
      /\ trk' = trk /\ log' = log /\ db' = db /\ used' = used
  BY DEF Done, Frame, IInv, TypeOK
<1>2. TypeOK'
  BY AtType DEF Done, IInv, TypeOK
<1>3. Sound(c)
  BY DEF IInv
<1>4. /\ form'[c].at = "idle" /\ form'[c].left = {} /\ form'[c].got = {}
      /\ task'[c].new = FALSE /\ task'[c].srv = Null
  BY <1>1 DEF At, NoTask
<1>5. Clean(c)' /\ TagsStay(c)' /\ InHand(c)' /\ Logged(c)'
  BY <1>1, <1>3, <1>4 DEF Sound, Clean, TagsStay, InHand, Logged, Between, Awaiting
<1>6. \A l \in Store!Links : trk[c].link[l] # "none" => l[1] \in used
  BY <1>3 DEF Sound, KnownLinks
<1>7. OwnKey(c)' /\ KnownLinks(c)' /\ Rejoined(c)'
  BY <1>1, <1>4, <1>6 DEF OwnKey, KnownLinks, Rejoined
<1>8. QED
  BY <1>1, <1>2, <1>4, <1>5, <1>7, FrameKeepsInv, SameKey DEF Sound

LEMMA SubmitKeepsInv ==
  ASSUME IInv, NEW c \in Circuits, Submit(c)
  PROVE  IInv'
<1>1. CASE Done(c)
  BY <1>1, DoneKeepsInv DEF Submit
<1>2. CASE form' = [form EXCEPT ![c] = [At("resolve") EXCEPT !.left = task[c].tags]]
           /\ UNCHANGED task
  <2> DEFINE f == [At("resolve") EXCEPT !.left = task[c].tags]
  <2>1. form[c].at = "idle" /\ task[c] # NoTask /\ task[c] \in Task
    BY DEF Submit, IInv, TypeOK
  <2>2. f \in Form /\ f.at = "resolve" /\ f.left = task[c].tags /\ f.got = {}
    BY <2>1 DEF At, Form, Task
  <2> HIDE DEF f
  <2>3. /\ form'[c] = f /\ task' = task /\ trk' = trk /\ log' = log
        /\ db' = db /\ used' = used /\ Frame(c)
    BY <1>2 DEF Submit, Frame, IInv, TypeOK, f
  <2>4. TypeOK'
    BY <1>2, <2>2 DEF Submit, IInv, TypeOK, f
  <2>5. Sound(c)
    BY DEF IInv
  <2>6. Clean(c)' /\ TagsStay(c)' /\ InHand(c)' /\ Logged(c)'
    BY <2>1, <2>2, <2>3, <2>5
       DEF Sound, Clean, TagsStay, InHand, Logged, Between, Awaiting
  <2>7. OwnKey(c)' /\ KnownLinks(c)' /\ Rejoined(c)'
    BY <2>1, <2>2, <2>3, <2>5 DEF Sound, OwnKey, KnownLinks, Rejoined
  <2>8. QED
    BY <2>3, <2>4, <2>6, <2>7, FrameKeepsInv, SameKey DEF Sound
<1>3. QED
  BY <1>1, <1>2 DEF Submit

\* In the middle of a Save.
LEMMA Resolving ==
  ASSUME IInv, NEW c \in Circuits, form[c].at = "resolve"
  PROVE  /\ Sound(c) /\ trk[c] \in Store!Tracker /\ form[c] \in Form /\ task[c] \in Task
         /\ form[c].left \in SUBSET Tags /\ form[c].got \in SUBSET Tags
         /\ Store!OnlyDeletesPending(trk[c]) /\ Store!Added(trk[c]) = {}
         /\ Store!Gone(trk[c]) \subseteq Servers /\ form[c].got \subseteq db.ent
         /\ task[c] # NoTask /\ form[c].left \cup form[c].got = task[c].tags
         /\ \A l \in Store!Links : trk[c].link[l] # "none" => l[1] \in used
<1>1. Sound(c) /\ trk[c] \in Store!Tracker /\ form[c] \in Form /\ task[c] \in Task \cup {NoTask}
  BY DEF IInv, TypeOK
<1>2. /\ Store!OnlyDeletesPending(trk[c])
      /\ Store!Gone(trk[c]) \subseteq Servers /\ form[c].got \subseteq db.ent
      /\ task[c] # NoTask /\ form[c].left \cup form[c].got = task[c].tags
  BY <1>1 DEF Sound, Clean, TagsStay, InHand, Between
<1>3. Store!Added(trk[c]) = {}
  BY <1>2 DEF Store!OnlyDeletesPending, Store!Added
<1>4. \A l \in Store!Links : trk[c].link[l] # "none" => l[1] \in used
  BY <1>1 DEF Sound, KnownLinks
<1>5. form[c].left \in SUBSET Tags /\ form[c].got \in SUBSET Tags
  BY <1>1 DEF Form
<1>6. QED
  BY <1>1, <1>2, <1>3, <1>4, <1>5

LEMMA GetOrCreateKeepsInv ==
  ASSUME IInv, NEW c \in Circuits, NEW a \in Tags, GetOrCreate(c, a)
  PROVE  IInv'
<1> DEFINE f == [form[c] EXCEPT !.left = @ \ {a}, !.got = @ \cup {a}]
           g == [f EXCEPT !.at = "tag", !.made = @ \cup {a}]
           t == trk[c]
<1>1. /\ form[c].at = "resolve" /\ a \in form[c].left
      /\ UNCHANGED <<db, used, task>>
  BY DEF GetOrCreate
<1>2. /\ f \in Form /\ g \in Form /\ f.at = "resolve" /\ g.at = "tag"
      /\ f.left = form[c].left \ {a} /\ f.got = form[c].got \cup {a}
      /\ g.left = f.left /\ g.got = f.got
  BY <1>1, Resolving DEF Form
<1>3. f.left \cup f.got = task[c].tags
  BY <1>1, <1>2, Resolving
<1>4. CASE a \in db.ent /\ trk' = [trk EXCEPT ![c] = Store!Track(@, {a})]
           /\ form' = [form EXCEPT ![c] = f] /\ UNCHANGED log
  <2> DEFINE u == Store!Track(t, {a})
  <2>1. /\ u \in Store!Tracker /\ u.link = t.link
        /\ Store!Gone(u) = Store!Gone(t)
    BY <1>1, Resolving, TrackFacts
  <2>2. Store!OnlyDeletesPending(u)
    <3>1. \A e \in Store!Ents : u.ent[e] \in {"unchanged", t.ent[e]}
      BY <1>1, Resolving, TrackFacts
    <3>2. Store!OnlyDeletesPending(t)
      BY <1>1, Resolving
    <3>3. QED
      BY <2>1, <3>1, <3>2 DEF Store!OnlyDeletesPending
  <2> HIDE DEF u, f
  <2>3. /\ form'[c] = f /\ trk'[c] = u /\ task' = task /\ log' = log
        /\ db' = db /\ used' = used /\ Frame(c)
    BY <1>1, <1>4 DEF Frame, IInv, TypeOK, u
  <2>4. TypeOK'
    BY <1>1, <1>2, <1>4, <2>1 DEF IInv, TypeOK, u
  <2>5. f.got \subseteq db.ent
    BY <1>1, <1>2, <1>4, Resolving
  <2>6. /\ f.at = "resolve" /\ f.left \cup f.got = task[c].tags /\ task[c] # NoTask
        /\ Store!Gone(u) \subseteq Servers
    BY <1>1, <1>2, <1>3, <2>1, Resolving
  <2>7. Clean(c)' /\ TagsStay(c)' /\ InHand(c)'
    BY <2>2, <2>3, <2>5, <2>6 DEF Clean, TagsStay, InHand, Between
  <2>8. Sound(c) /\ \A l \in Store!Links : u.link[l] # "none" => l[1] \in used
    BY <1>1, <2>1, Resolving
  <2>9. Logged(c)' /\ OwnKey(c)'
    BY <1>1, <2>3, <2>6, <2>8 DEF Sound, Logged, OwnKey, Awaiting
  <2>10. KnownLinks(c)' /\ Rejoined(c)'
    BY <2>3, <2>6, <2>8 DEF KnownLinks, Rejoined
  <2>11. QED
    BY <2>3, <2>4, <2>10, <2>7, <2>9, FrameKeepsInv, SameKey DEF Sound
<1>5. CASE a \notin db.ent /\ CallSave(c, [t EXCEPT !.ent[a] = "added"], g)
  <2> DEFINE u == [t EXCEPT !.ent[a] = "added"]
  <2>1. t \in Store!Tracker /\ Store!Added(t) = {} /\ Store!Gone(t) \subseteq Servers
    BY <1>1, Resolving
  <2>2. /\ u \in Store!Tracker /\ u.link = t.link
        /\ \A e \in Store!Ents : u.ent[e] = IF e = a THEN "added" ELSE t.ent[e]
    BY <2>1 DEF Store!Tracker, Store!EntState, Store!Ents
  <2> HIDE DEF u, g, f
  <2>3. Store!Added(u) = {a} /\ Store!Gone(u) \subseteq Servers
    BY <2>1, <2>2 DEF Store!Added, Store!Gone, Store!Ents
  <2>4. g.got \subseteq db.ent \cup Store!Added(u)
    BY <1>1, <1>2, <2>3, Resolving
  <2>5. \A l \in Store!Links : u.link[l] # "none" => l[1] \in used
    BY <1>1, <2>2, Resolving
  <2>6. task[c] # NoTask
    BY <1>1, Resolving
  <2>7. CallSave(c, u, g)
    BY <1>5 DEF u
  <2>8. QED
    BY <1>1, <1>2, <1>3, <2>2, <2>3, <2>4, <2>5, <2>6, <2>7, AwaitKeepsInv
<1>6. QED
  BY <1>1, <1>4, <1>5 DEF GetOrCreate

\* A new server's join rows are those of its tags, because no tracker has
\* ever seen one of it.
LEMMA AddServerKeepsInv ==
  ASSUME IInv, NEW c \in Circuits, AddServer(c)
  PROVE  IInv'
<1> DEFINE s == task[c].srv
           there == form[c].got \cap db.ent
           t == Store!Track(trk[c], there)
           lnk(l) == IF l[1] = s /\ l[2] \in there THEN "added" ELSE t.link[l]
           u == [t EXCEPT !.ent[s] = "added", !.link = [l \in Store!Links |-> lnk(l)]]
           f == [form[c] EXCEPT !.at = "save"]
<1>1. /\ form[c].at = "resolve" /\ form[c].left = {} /\ task[c].new
      /\ CallSave(c, u, f) /\ UNCHANGED <<db, used, task>>
  BY DEF AddServer, Resolved
<1>2. /\ s \in Servers /\ s \notin used /\ there = form[c].got /\ there = task[c].tags
      /\ task[c].tags \subseteq db.ent
  BY <1>1, Resolving DEF Sound, OwnKey, Task
<1>3. /\ t \in Store!Tracker /\ t.link = trk[c].link
      /\ Store!Gone(t) = Store!Gone(trk[c]) /\ Store!Gone(t) \subseteq Servers
      /\ Store!Added(t) = {}
  <2>1. /\ trk[c] \in Store!Tracker /\ Store!Added(trk[c]) = {}
        /\ Store!Gone(trk[c]) \subseteq Servers
    BY <1>1, Resolving
  <2>2. /\ t \in Store!Tracker /\ t.link = trk[c].link
        /\ Store!Gone(t) = Store!Gone(trk[c]) /\ Store!Added(t) = Store!Added(trk[c])
    <3> HIDE DEF there
    <3> QED
      BY ONLY <2>1, TrackFacts
  <2> HIDE DEF t
  <2> QED
    BY <2>1, <2>2
<1> HIDE DEF t, there
<1>4. \A l \in Store!Links : lnk(l) \in Store!LinkState
  BY <1>3 DEF Store!Tracker, Store!LinkState
<1>5. \A l \in Store!Links :
        lnk(l) = IF l[1] = s THEN (IF l[2] \in task[c].tags THEN "added" ELSE "none")
                 ELSE trk[c].link[l]
  BY <1>1, <1>2, <1>3, Resolving
<1> HIDE DEF lnk
<1>6. [l \in Store!Links |-> lnk(l)] \in [Store!Links -> Store!LinkState]
  BY <1>4
<1>7. /\ u \in Store!Tracker /\ u.link = [l \in Store!Links |-> lnk(l)]
      /\ \A e \in Store!Ents : u.ent[e] = IF e = s THEN "added" ELSE t.ent[e]
  BY <1>2, <1>3, <1>6 DEF Store!Tracker, Store!EntState, Store!Ents
<1>8. f \in Form /\ f.at = "save" /\ f.left = {} /\ f.got = task[c].tags
  BY <1>1, <1>2, Resolving DEF Form
<1> HIDE DEF u, f
<1>9. Store!Added(u) = {s} /\ Store!Gone(u) \subseteq Servers
  BY <1>2, <1>3, <1>7 DEF Store!Added, Store!Gone, Store!Ents
<1>10. \A l \in Store!Links : u.link[l] # "none" => l[1] \in used \/ l[1] = s
  BY <1>1, <1>5, <1>7, Resolving
<1>11. \A a \in Tags : u.link[<<s, a>>] = IF a \in task[c].tags THEN "added" ELSE "none"
  BY <1>2, <1>5, <1>7 DEF Store!Links
<1>12. task[c] # NoTask
  BY <1>1, Resolving
<1>13. QED
  BY <1>1, <1>2, <1>7, <1>8, <1>9, <1>10, <1>11, <1>12, AwaitKeepsInv

LEMMA UpdateServerKeepsInv ==
  ASSUME IInv, NEW c \in Circuits, NEW touched \in BOOLEAN, UpdateServer(c, touched)
  PROVE  IInv'
<1> DEFINE s == task[c].srv
           t == trk[c]
           u == Store!Relinked(t, s, form[c].got, touched)
           f == [form[c] EXCEPT !.at = "save"]
<1>1. /\ form[c].at = "resolve" /\ form[c].left = {} /\ ~task[c].new
  BY DEF UpdateServer, Resolved
<1>2. CASE s \notin db.ent
  BY <1>1, <1>2, DoneKeepsInv DEF UpdateServer
<1>3. CASE s \in db.ent
  <2>1. /\ s \in Servers /\ s \in used /\ form[c].got = task[c].tags
        /\ task[c].tags \subseteq db.ent /\ form[c].got \in SUBSET Tags
        /\ t \in Store!Tracker /\ Store!Gone(t) \subseteq Servers /\ Store!Added(t) = {}
    BY <1>1, Resolving DEF Sound, OwnKey, Task
  <2>2. /\ u \in Store!Tracker
        /\ Store!Gone(u) = Store!Gone(t) /\ Store!Added(u) = Store!Added(t)
    <3>1. s \in Servers /\ form[c].got \in SUBSET Tags /\ t \in Store!Tracker
      BY <2>1
    <3>2. QED
      BY <3>1, RelinkedFacts
  <2>3. \A l \in Store!Links : l[1] # s => u.link[l] = t.link[l]
    BY <2>1, RelinkedFacts DEF Rejoin
  <2>4. ASSUME NEW a \in Tags, s \notin Store!Gone(t)
        PROVE  u.link[<<s, a>>] \in IF a \in task[c].tags THEN {"added", "unchanged"}
                                                          ELSE {"none", "deleted"}
    <3> DEFINE l == <<s, a>>
               was == IF t.link[l] = "none" /\ l \in db.link THEN "unchanged" ELSE t.link[l]
    <3>1. l \in Store!Links /\ l[1] = s /\ l[2] = a /\ Store!Ends(l) \cap Store!Gone(t) = {}
      BY <2>1, <2>4, FormAssumption DEF Store!Links, Store!Ends
    <3>2. was \in {"none", "unchanged"}
      <4>1. Store!OnlyDeletesPending(t)
        BY <1>1, Resolving
      <4>2. QED
        BY <3>1, <4>1 DEF Store!OnlyDeletesPending
    <3>3. u.link[l] = IF a \in task[c].tags /\ was = "none" THEN "added"
                      ELSE IF a \notin task[c].tags /\ was = "unchanged" THEN "deleted"
                      ELSE was
      BY <2>1, <3>1, RelinkedFacts DEF Rejoin
    <3>4. QED
      BY <3>2, <3>3
  <2>5. f \in Form /\ f.at = "save" /\ f.left = {} /\ f.got = task[c].tags
    BY <1>1, <2>1, Resolving DEF Form
  <2>6. \A l \in Store!Links : t.link[l] # "none" => l[1] \in used
    BY <1>1, Resolving
  <2>7. CallSave(c, u, f) /\ UNCHANGED <<db, used, task>> /\ task[c] # NoTask
    BY <1>1, <1>3, Resolving DEF UpdateServer
  <2> HIDE DEF u, f
  <2>8. QED
    BY <1>1, <2>1, <2>2, <2>3, <2>4, <2>5, <2>6, <2>7, AwaitKeepsInv
<1>4. QED
  BY <1>2, <1>3

LEMMA DeleteKeepsInv ==
  ASSUME IInv, NEW c \in Circuits, NEW s \in Servers, Delete(c, s)
  PROVE  IInv'
<1> DEFINE t == trk[c]
           u == [t EXCEPT !.ent[s] = "deleted"]
<1>1. /\ form[c].at = "idle" /\ CallSave(c, u, At("delete")) /\ UNCHANGED <<db, used, task>>
      /\ Sound(c) /\ t \in Store!Tracker
  BY DEF Delete, IInv, TypeOK
<1>2. /\ Store!OnlyDeletesPending(t) /\ Store!Gone(t) \subseteq Servers
      /\ \A l \in Store!Links : t.link[l] # "none" => l[1] \in used
  BY <1>1 DEF Sound, Clean, TagsStay, KnownLinks, Between
<1>3. /\ u \in Store!Tracker /\ u.link = t.link /\ u.conn = t.conn
      /\ \A e \in Store!Ents : u.ent[e] = IF e = s THEN "deleted" ELSE t.ent[e]
  BY <1>1 DEF Store!Tracker, Store!EntState, Store!Ents
<1> HIDE DEF u
<1>4. Store!Gone(u) = Store!Gone(t) \cup {s}
  BY <1>3 DEF Store!Gone, Store!Ents
<1>5. Store!OnlyDeletesPending(u)
  BY <1>2, <1>3, <1>4 DEF Store!OnlyDeletesPending
<1>6. /\ At("delete") \in Form /\ At("delete").at = "delete" /\ At("delete").got = {}
  BY AtType DEF At
<1>7. QED
  BY <1>1, <1>2, <1>3, <1>4, <1>5, <1>6, AwaitKeepsInv

--------------------------------------------------------------------------------
(***************************************************************************)
(* Saves that fail, reloads and restarts.                                  *)
(***************************************************************************)
LEMMA EndedKeepsInv ==
  ASSUME IInv, NEW c \in Circuits, Ended(c), log' = [log EXCEPT ![c] = {}],
         UNCHANGED <<db, used, task>>
  PROVE  IInv'
<1>1. /\ trk'[c] = Store!EmptyTracker /\ form'[c] = At("dead") /\ task' = task
      /\ log'[c] = {} /\ used' = used /\ Frame(c)
  BY DEF Ended, Frame, IInv, TypeOK
<1>2. TypeOK'
  BY EmptyTrackerType, AtType DEF Ended, IInv, TypeOK
<1>3. OwnKey(c)'
  BY <1>1 DEF IInv, Sound, OwnKey
<1>4. Sound(c)'
  BY <1>1, <1>3, FreshSound
<1>5. QED
  BY <1>1, <1>2, <1>4, FrameKeepsInv, SameKey

\* A refused transaction passed its deletes on in the tracker.
LEMMA CascadeLingers ==
  ASSUME NEW t \in Store!Tracker, Store!OnlyDeletesPending(t)
  PROVE  Store!OnlyDeletesPending(Store!Cascade(t))
BY CascadeFacts DEF Store!OnlyDeletesPending

LEMMA SaveFailsKeepsInv ==
  ASSUME IInv, NEW c \in Circuits, SaveFails(c)
  PROVE  IInv'
<1> DEFINE t == trk[c]
           u == Store!Cascade(t)
<1>1. Sound(c) /\ t \in Store!Tracker
  BY DEF IInv, TypeOK
<1>2. CASE form[c].at = "delete"
  <2>1. /\ trk' = [trk EXCEPT ![c] = u] /\ form' = [form EXCEPT ![c] = At("idle")]
        /\ log' = [log EXCEPT ![c] = {}] /\ UNCHANGED <<db, used, task>>
    BY <1>2 DEF SaveFails
  <2>2. /\ u \in Store!Tracker /\ Store!OnlyDeletesPending(u)
        /\ Store!Gone(u) = Store!Gone(t)
    BY <1>1, <1>2, CascadeFacts, CascadeLingers DEF Sound, Clean, Between
  <2>3. \A l \in Store!Links : u.link[l] # "none" => l[1] \in used
    <3>1. \A l \in Store!Links : u.link[l] # "none" => t.link[l] # "none"
      BY <1>1, CascadeFacts
    <3>2. QED
      BY <1>1, <1>2, <3>1 DEF Sound, KnownLinks
  <2> HIDE DEF u
  <2>4. /\ trk'[c] = u /\ form'[c] = At("idle") /\ log'[c] = {} /\ Frame(c)
        /\ task' = task /\ db' = db /\ used' = used
    BY <2>1 DEF Frame, IInv, TypeOK
  <2>5. TypeOK'
    BY <2>1, <2>2, AtType DEF IInv, TypeOK
  <2>6. form'[c].at = "idle" /\ form'[c].got = {} /\ form'[c].left = {}
    BY <2>4 DEF At
  <2>7. Clean(c)' /\ TagsStay(c)' /\ InHand(c)' /\ Logged(c)'
    BY <1>1, <2>2, <2>4, <2>6 DEF Sound, Clean, TagsStay, InHand, Logged, Between, Awaiting
  <2>8. OwnKey(c)' /\ KnownLinks(c)' /\ Rejoined(c)'
    BY <1>1, <2>3, <2>4, <2>6 DEF Sound, OwnKey, KnownLinks, Rejoined
  <2>9. QED
    BY <2>4, <2>5, <2>7, <2>8, FrameKeepsInv, SameKey DEF Sound
<1>3. CASE form[c].at # "delete"
  BY <1>3, EndedKeepsInv DEF SaveFails
<1>4. QED
  BY <1>2, <1>3

LEMMA ServerInvalidKeepsInv ==
  ASSUME IInv, NEW c \in Circuits, ServerInvalid(c)
  PROVE  IInv'
<1>1. log[c] = {}
  BY DEF ServerInvalid, Resolved, IInv, Sound, Logged, Awaiting
<1>2. log' = [log EXCEPT ![c] = {}]
  BY <1>1 DEF ServerInvalid, IInv, TypeOK
<1>3. QED
  BY <1>2, EndedKeepsInv DEF ServerInvalid

\* Putting right what was wrong with a form changes neither its server nor
\* its tags.
LEMMA ReloadKeepsInv ==
  ASSUME IInv, NEW c \in Circuits, Reload(c)
  PROVE  IInv'
<1>1. /\ trk'[c] = Store!EmptyTracker /\ form'[c] = At("idle") /\ log' = log
      /\ used' = used /\ db' = db /\ Frame(c) /\ log[c] = {}
      /\ task'[c] = [task[c] EXCEPT !.valid = TRUE]
      /\ \A d \in Circuits \ {c} : task'[d] = task[d]
  BY DEF Reload, Frame, IInv, TypeOK, Sound, Logged, Awaiting
<1>2. task[c] \in Task \cup {NoTask}
  BY DEF IInv, TypeOK
<1>3. /\ task'[c] \in Task \cup {NoTask} /\ (task'[c] = NoTask <=> task[c] = NoTask)
      /\ task'[c].srv = task[c].srv /\ task'[c].new = task[c].new
  <2>1. CASE task[c] = NoTask
    <3>1. NoTask \in [srv : {Null}, tags : {{}}, new : {FALSE}, valid : {TRUE}]
      BY DEF NoTask
    <3>2. task'[c] \in [srv : {Null}, tags : {{}}, new : {FALSE}, valid : {TRUE}]
      BY <1>1, <2>1, <3>1
    <3>3. task'[c] = NoTask
      BY <3>2 DEF NoTask
    <3>4. QED
      BY <2>1, <3>3
  <2>2. CASE task[c] \in Task
    <3>1. task'[c] \in Task /\ task'[c].srv = task[c].srv /\ task'[c].new = task[c].new
      BY <1>1, <2>2 DEF Task
    <3>2. NoTask \notin Task
      BY FormAssumption DEF Task, NoTask
    <3>3. QED
      BY <2>2, <3>1, <3>2
  <2>3. QED
    BY <1>2, <2>1, <2>2
<1>4. TypeOK'
  <2>1. task' \in [Circuits -> Task \cup {NoTask}]
    BY <1>1, <1>3 DEF Reload, IInv, TypeOK
  <2>2. QED
    BY <2>1, EmptyTrackerType, AtType DEF Reload, IInv, TypeOK
<1>5. OwnKey(c)'
  BY <1>1, <1>3 DEF IInv, Sound, OwnKey
<1>6. Sound(c)'
  BY <1>1, <1>5, FreshSound
<1>7. QED
  BY <1>1, <1>3, <1>4, <1>6, FrameKeepsInv, SameKey

LEMMA RestartKeepsInv ==
  ASSUME IInv, Restart
  PROVE  IInv'
<1>1. TypeOK'
  BY EmptyTrackerType, AtType DEF Restart, IInv, TypeOK
<1>2. ASSUME NEW c \in Circuits PROVE Sound(c)'
  <2>1. OwnKey(c)'
    BY DEF Restart, IInv, Sound, OwnKey
  <2>2. QED
    BY <2>1, FreshSound DEF Restart
<1>3. QED
  BY <1>1, <1>2 DEF Restart, IInv, Store!Consistent
--------------------------------------------------------------------------------
(***************************************************************************)
(* Saves that succeed.                                                     *)
(***************************************************************************)
LEMMA AcceptedIsClean ==
  ASSUME NEW t \in Store!Tracker
  PROVE  /\ Store!OnlyDeletesPending(Store!Accepted(t))
         /\ Store!Gone(Store!Accepted(t)) = {} /\ Store!Added(Store!Accepted(t)) = {}
<1> DEFINE u == Store!Accepted(t)
<1>1. /\ u \in Store!Tracker
      /\ \A e \in Store!Ents : u.ent[e] \in {"none", "unchanged"}
      /\ \A l \in Store!Links : u.link[l] \in {"none", "unchanged"}
  BY AcceptedFacts
<1> HIDE DEF u
<1>2. Store!Gone(u) = {} /\ Store!Added(u) = {}
  BY <1>1 DEF Store!Gone, Store!Added
<1>3. Store!OnlyDeletesPending(u)
  BY <1>1 DEF Store!OnlyDeletesPending
<1>4. QED
  BY <1>2, <1>3 DEF u

LEMMA SavesFacts ==
  ASSUME IInv, NEW c \in Circuits, Saves(c)
  PROVE  /\ db' \in Store!Database /\ Store!Consistent(db)'
         /\ db.ent \cap Tags \subseteq db'.ent
         /\ Store!Added(trk[c]) \cap Tags \subseteq db'.ent
         /\ db'.ent \cap Servers \subseteq used' /\ used' \subseteq Servers
         /\ used \subseteq used'
         /\ used' \subseteq used \cup {e \in {task[c].srv} : form[c].at = "save" /\ task[c].new}
<1> DEFINE t == trk[c]
           u == Store!Cascade(t)
<1>1. /\ Sound(c) /\ t \in Store!Tracker /\ db \in Store!Database /\ Store!Consistent(db)
      /\ used \subseteq Servers /\ db.ent \cap Servers \subseteq used
  BY DEF IInv, TypeOK
<1>2. /\ form[c].at \in {"tag", "save", "delete"} /\ ~Refused(db, u)
      /\ db' = Store!Committed(db, u) /\ used' = used \cup (db'.ent \cap Servers)
  BY DEF Saves
<1>3. /\ u \in Store!Tracker /\ Store!Gone(u) = Store!Gone(t) /\ Store!Added(u) = Store!Added(t)
  BY <1>1, CascadeFacts
<1> HIDE DEF u
<1>4. db' \in Store!Database /\ db'.ent = (db.ent \cup Store!Added(t)) \ Store!Gone(t)
  BY <1>1, <1>2, <1>3, CommittedFacts
<1>5. Store!Consistent(db')
  BY <1>1, <1>2, <1>3, CommittedConsistent
<1>6. Store!Gone(t) \subseteq Servers
  BY <1>1 DEF Sound, TagsStay
<1>7. Store!Added(t) \cap Servers \subseteq
        {e \in {task[c].srv} : form[c].at = "save" /\ task[c].new}
  <2>1. CASE form[c].at = "tag"
    BY <1>1, <2>1, FormAssumption DEF Sound, Clean
  <2>2. CASE form[c].at = "delete"
    BY <1>1, <2>2 DEF Sound, Clean, Between, Store!OnlyDeletesPending, Store!Added
  <2>3. CASE form[c].at = "save"
    BY <1>1, <2>3 DEF Sound, Rejoined
  <2>4. QED
    BY <1>2, <2>1, <2>2, <2>3
<1>8. Store!Consistent(db)'
  BY <1>5 DEF Store!Consistent
<1>9. QED
  BY <1>1, <1>2, <1>4, <1>6, <1>7, <1>8, FormAssumption

\* A server that is saved is, or was, in the table.
LEMMA SavedServerIsUsed ==
  ASSUME IInv, NEW c \in Circuits, Saves(c), form[c].at = "save"
  PROVE  task[c].srv \in used'
<1>1. Sound(c) /\ trk[c] \in Store!Tracker /\ db \in Store!Database
  BY DEF IInv, TypeOK
<1>2. task[c] # NoTask /\ task[c] \in Task
  BY <1>1 DEF Sound, InHand, IInv, TypeOK
<1>3. CASE ~task[c].new
  BY <1>1, <1>2, <1>3, SavesFacts DEF Sound, OwnKey
<1>4. CASE task[c].new
  <2> DEFINE s == task[c].srv
             u == Store!Cascade(trk[c])
  <2>1. /\ u \in Store!Tracker /\ Store!Added(u) = {s} /\ Store!Gone(u) = Store!Gone(trk[c])
    BY <1>1, <1>4, CascadeFacts DEF Sound, Rejoined
  <2>2. s \in Servers /\ s \in Store!Added(u) /\ s \notin Store!Gone(u)
    BY <1>2, <2>1 DEF Task, Store!Added, Store!Gone
  <2> HIDE DEF u, s
  <2>3. db' = Store!Committed(db, u) /\ used' = used \cup (db'.ent \cap Servers)
    BY DEF Saves, u
  <2>4. s \in db'.ent
    BY <1>1, <2>1, <2>2, <2>3, CommittedFacts
  <2>5. QED
    BY <2>2, <2>3, <2>4 DEF s
<1>5. QED
  BY <1>3, <1>4

\* Other circuits are not disturbed: their keys are other keys, and the tags
\* they hold stay.
LEMMA SavesKeepsOthers ==
  ASSUME IInv, NEW c \in Circuits, Saves(c), task'[c].srv \in {task[c].srv, Null},
         \A d \in Circuits \ {c} : form'[d] = form[d] /\ task'[d] = task[d]
  PROVE  \A d \in Circuits \ {c} : Sound(d)'
<1> SUFFICES ASSUME NEW d \in Circuits \ {c} PROVE Sound(d)'
  OBVIOUS
<1>1. /\ trk'[d] = trk[d] /\ form'[d] = form[d] /\ task'[d] = task[d] /\ log'[d] = log[d]
  BY DEF Saves, IInv, TypeOK
<1>2. Sound(d) /\ form[d].got \subseteq Tags
  BY DEF IInv, TypeOK, Form
<1>3. /\ db.ent \cap Tags \subseteq db'.ent /\ used \subseteq used'
      /\ used' \subseteq used \cup {e \in {task[c].srv} : form[c].at = "save" /\ task[c].new}
  BY SavesFacts
<1>4. OwnKey(d)'
  <2>1. \A e \in Circuits \ {d} : task'[e].srv \in {task[e].srv, Null}
    OBVIOUS
  <2>2. task[d].new => task[d].srv # Null
    BY FormAssumption DEF IInv, TypeOK, Task, NoTask
  <2>3. QED
    BY <1>1, <1>2, <1>3, <2>1, <2>2 DEF Sound, OwnKey
<1>5. Clean(d)' /\ InHand(d)' /\ Logged(d)' /\ Rejoined(d)'
  BY <1>1, <1>2 DEF Sound, Clean, InHand, Logged, Rejoined, Between, Awaiting
<1>6. TagsStay(d)' /\ KnownLinks(d)'
  BY <1>1, <1>2, <1>3 DEF Sound, TagsStay, KnownLinks
<1>7. QED
  BY <1>4, <1>5, <1>6 DEF Sound

\* What is left to show of each handler that is told of its SaveChanges.
LEMMA SavesKeepsInv ==
  ASSUME IInv, NEW c \in Circuits, Saves(c), NEW f \in Form, NEW k \in Task \cup {NoTask},
         form' = [form EXCEPT ![c] = f], task' = [task EXCEPT ![c] = k],
         f.at \in {"idle", "resolve"}, f.got \subseteq db'.ent,
         f.at = "resolve" => k # NoTask /\ f.left \cup f.got = k.tags,
         k.srv \in {task[c].srv, Null}, OwnKey(c)'
  PROVE  IInv'
<1> DEFINE t == trk[c]
           u == Store!Cascade(t)
           w == Store!Accepted(u)
<1>1. Sound(c) /\ t \in Store!Tracker
  BY DEF IInv, TypeOK
<1>2. u \in Store!Tracker /\ \A l \in Store!Links : u.link[l] # "none" => t.link[l] # "none"
  BY <1>1, CascadeFacts
<1>3. trk' = [trk EXCEPT ![c] = w] /\ log' = [log EXCEPT ![c] = {}]
  BY DEF Saves
<1> HIDE DEF u
<1>4. /\ w \in Store!Tracker /\ Store!OnlyDeletesPending(w) /\ Store!Gone(w) = {}
      /\ \A l \in Store!Links : w.link[l] # "none" => t.link[l] # "none"
  BY <1>2, AcceptedFacts, AcceptedIsClean
<1> HIDE DEF w
<1>5. /\ trk'[c] = w /\ form'[c] = f /\ task'[c] = k /\ log'[c] = {}
      /\ \A d \in Circuits \ {c} : form'[d] = form[d] /\ task'[d] = task[d]
  BY <1>3 DEF IInv, TypeOK
<1>6. TypeOK'
  BY <1>3, <1>4, SavesFacts DEF IInv, TypeOK
<1>7. \A l \in Store!Links : w.link[l] # "none" => l[1] \in used'
  <2>1. \A l \in Store!Links : w.link[l] # "none" =>
          l[1] \in used \/ (form[c].at = "save" /\ l[1] = task[c].srv)
    BY <1>1, <1>4 DEF Sound, KnownLinks
  <2>2. ASSUME form[c].at = "save", NEW l \in Store!Links, l[1] = task[c].srv
        PROVE  l[1] \in used'
    BY <2>2, SavedServerIsUsed
  <2>3. QED
    BY <2>1, <2>2, SavesFacts
<1>8. Clean(c)' /\ TagsStay(c)' /\ InHand(c)' /\ Logged(c)'
  BY <1>4, <1>5 DEF Clean, TagsStay, InHand, Logged, Between, Awaiting
<1>9. KnownLinks(c)' /\ Rejoined(c)'
  BY <1>5, <1>7 DEF KnownLinks, Rejoined
<1>10. \A d \in Circuits \ {c} : Sound(d)'
  BY <1>5, SavesKeepsOthers
<1>11. QED
  BY <1>6, <1>8, <1>9, <1>10, SavesFacts DEF IInv, Sound

LEMMA TagSavedKeepsInv ==
  ASSUME IInv, NEW c \in Circuits, TagSaved(c)
  PROVE  IInv'
<1> DEFINE f == [form[c] EXCEPT !.at = "resolve"]
<1>1. /\ form[c].at = "tag" /\ Saves(c) /\ form' = [form EXCEPT ![c] = f] /\ task' = task
      /\ Sound(c) /\ form[c] \in Form /\ task[c] \in Task \cup {NoTask}
      /\ task' = [task EXCEPT ![c] = task[c]]
  BY DEF TagSaved, IInv, TypeOK
<1>2. f \in Form /\ f.at = "resolve" /\ f.left = form[c].left /\ f.got = form[c].got
  BY <1>1 DEF Form
<1>3. f.left \cup f.got = task[c].tags /\ task[c] # NoTask
  BY <1>1, <1>2 DEF Sound, InHand
<1>4. f.got \subseteq db'.ent
  <2>1. f.got \subseteq Tags /\ f.got \subseteq db.ent \cup Store!Added(trk[c])
    BY <1>1, <1>2 DEF Sound, TagsStay, Form
  <2>2. QED
    BY <1>1, <2>1, SavesFacts
<1>5. OwnKey(c)'
  <2>1. used' = used
    BY <1>1, SavesFacts
  <2>2. QED
    BY <1>1, <2>1 DEF Sound, OwnKey
<1> HIDE DEF f
<1>6. QED
  BY <1>1, <1>2, <1>3, <1>4, <1>5, SavesKeepsInv

LEMMA ServerSavedKeepsInv ==
  ASSUME IInv, NEW c \in Circuits, ServerSaved(c)
  PROVE  IInv'
<1>1. /\ Saves(c) /\ form' = [form EXCEPT ![c] = At("idle")]
      /\ task' = [task EXCEPT ![c] = NoTask] /\ task'[c] = NoTask
  BY DEF ServerSaved, Done, IInv, TypeOK
<1>2. At("idle") \in Form /\ At("idle").at = "idle" /\ At("idle").got = {}
  BY AtType DEF At
<1>3. NoTask.srv = Null /\ NoTask.new = FALSE
  BY DEF NoTask
<1>4. OwnKey(c)'
  BY <1>1, <1>3 DEF OwnKey
<1>5. QED
  BY <1>1, <1>2, <1>3, <1>4, SavesKeepsInv

LEMMA DeletedKeepsInv ==
  ASSUME IInv, NEW c \in Circuits, Deleted(c)
  PROVE  IInv'
<1>1. /\ form[c].at = "delete" /\ Saves(c) /\ form' = [form EXCEPT ![c] = At("idle")]
      /\ task' = task /\ task' = [task EXCEPT ![c] = task[c]]
      /\ task[c] \in Task \cup {NoTask} /\ Sound(c)
  BY DEF Deleted, IInv, TypeOK
<1>2. At("idle") \in Form /\ At("idle").at = "idle" /\ At("idle").got = {}
  BY AtType DEF At
<1>3. used' = used
  BY <1>1, SavesFacts
<1>4. OwnKey(c)'
  BY <1>1, <1>3 DEF Sound, OwnKey
<1>5. QED
  BY <1>1, <1>2, <1>4, SavesKeepsInv

--------------------------------------------------------------------------------
LEMMA InitInv == Init => IInv
<1> SUFFICES ASSUME Init PROVE IInv
  OBVIOUS
<1>1. db \in Store!Database /\ Store!Consistent(db) /\ used = db.ent \cap Servers
  BY DatabasesAssumption DEF Init
<1>2. TypeOK
  BY <1>1, EmptyTrackerType, AtType DEF Init, TypeOK
<1>3. ASSUME NEW c \in Circuits PROVE Sound(c)
  <2>1. /\ trk[c] = Store!EmptyTracker /\ form[c] = At("idle") /\ task[c] = NoTask
        /\ log[c] = {}
    BY DEF Init
  <2>2. /\ form[c].at = "idle" /\ form[c].left = {} /\ form[c].got = {}
        /\ task[c].new = FALSE
    BY <2>1 DEF At, NoTask
  <2>3. Clean(c) /\ TagsStay(c) /\ InHand(c) /\ Logged(c)
    BY <2>1, <2>2, EmptyFacts DEF Clean, TagsStay, InHand, Logged, Between, Awaiting
  <2>4. OwnKey(c) /\ KnownLinks(c) /\ Rejoined(c)
    BY <2>1, <2>2, EmptyFacts DEF OwnKey, KnownLinks, Rejoined
  <2>5. QED
    BY <2>3, <2>4 DEF Sound
<1>4. QED
  BY <1>1, <1>2, <1>3 DEF IInv

LEMMA StutterKeepsInv == IInv /\ UNCHANGED vars => IInv'
BY DEF vars, counts, IInv, TypeOK, Sound, Clean, TagsStay, InHand, Logged, OwnKey, KnownLinks,
       Rejoined, Between, Awaiting, Store!Consistent

LEMMA StepKeepsInv == IInv /\ [Next]_vars => IInv'
<1> SUFFICES ASSUME IInv, [Next]_vars PROVE IInv'
  OBVIOUS
<1>1. CASE UNCHANGED vars
  BY <1>1, StutterKeepsInv
<1>2. ASSUME NEW c \in Circuits, Work(c)
      PROVE  IInv'
  BY <1>2, GetOrCreateKeepsInv, TagSavedKeepsInv, ServerInvalidKeepsInv, AddServerKeepsInv,
     UpdateServerKeepsInv, ServerSavedKeepsInv, DeletedKeepsInv, SaveFailsKeepsInv
     DEF Work
<1>3. ASSUME NEW c \in Circuits,
             \/ Submit(c) \/ Reload(c)
             \/ \E t \in Task : FillIn(c, t)
             \/ \E s \in Servers : Delete(c, s)
      PROVE  IInv'
  BY <1>3, SubmitKeepsInv, ReloadKeepsInv, FillInKeepsInv, DeleteKeepsInv
<1>4. CASE Restart
  BY <1>4, RestartKeepsInv
<1>5. QED
  BY <1>1, <1>2, <1>3, <1>4 DEF Next

\* The invariant that the theorems below rest on.
THEOREM Invariance == Spec => []IInv
BY InitInv, StepKeepsInv, PTL DEF Spec

--------------------------------------------------------------------------------
(***************************************************************************)
(* What a Save leaves behind.                                              *)
(***************************************************************************)

\* Whether a Save succeeds, fails or is cut off, nothing of it is pending
\* between two SaveChanges but deletes that the database refused.
THEOREM SavesLeaveNothing == Spec => []NothingHalfDone
<1>1. ASSUME IInv, NEW c \in Circuits
      PROVE  /\ Subject(c).kind = "idle" => Store!OnlyDeletesPending(trk[c])
             /\ form[c].at # "tag" => form[c].got \subseteq db.ent
             /\ form[c].at \in {"idle", "resolve", "dead"} => log[c] = {}
  <2>1. Sound(c) /\ form[c] \in Form
    BY <1>1 DEF IInv, TypeOK
  <2>2. Subject(c).kind = "idle" => form[c].at \in {"idle", "resolve"}
    BY <2>1 DEF Subject, Form
  <2>3. QED
    BY <2>1, <2>2 DEF Sound, Clean, TagsStay, Logged, Between, Awaiting
<1>2. IInv => NothingHalfDone
  BY <1>1 DEF NothingHalfDone, Store!OnlyDeletesLinger
<1>3. QED
  BY <1>2, Invariance, PTL

\* A form is done with when its server is saved, or when its server has gone.
LEMMA Finished ==
  ASSUME IInv, [Next]_vars, NEW c \in Circuits, task[c] # NoTask, task'[c] = NoTask
  PROVE  \/ ServerSaved(c)
         \/ ~task[c].new /\ task[c].srv \notin db.ent /\ db' = db
<1>1. task[c] \in Task /\ task \in [Circuits -> Task \cup {NoTask}]
  BY DEF IInv, TypeOK
<1>2. CASE UNCHANGED vars
  BY <1>2 DEF vars
<1>3. ASSUME NEW d \in Circuits, Work(d)
      PROVE  ServerSaved(c) \/ (~task[c].new /\ task[c].srv \notin db.ent /\ db' = db)
  BY <1>1, <1>3 DEF Work, GetOrCreate, TagSaved, ServerInvalid, Resolved, AddServer,
                    UpdateServer, Done, ServerSaved, Deleted, SaveFails
<1>4. ASSUME NEW d \in Circuits, Submit(d)
      PROVE  ~task[c].new /\ task[c].srv \notin db.ent /\ db' = db
  BY <1>1, <1>4 DEF Submit, Done
<1>5. ASSUME NEW d \in Circuits, Reload(d)
      PROVE  FALSE
  <2>1. task'[c].srv = task[c].srv
    BY <1>1, <1>5 DEF Reload, Task
  <2>2. QED
    BY <1>1, <2>1, FormAssumption DEF Task, NoTask
<1>6. ASSUME NEW d \in Circuits, NEW t \in Task, FillIn(d, t)
      PROVE  FALSE
  BY <1>1, <1>6 DEF FillIn
<1>7. ASSUME NEW d \in Circuits, NEW s \in Servers, Delete(d, s)
      PROVE  FALSE
  BY <1>7 DEF Delete
<1>8. CASE Restart
  BY <1>8 DEF Restart
<1>9. QED
  BY <1>2, <1>3, <1>4, <1>5, <1>6, <1>7, <1>8 DEF Next

\* The tags of a form are those its server has once it is saved, up to what
\* other circuits did to it meanwhile.
THEOREM TagsArrive == Spec => SavedWithItsTags
<1> DEFINE Stored(s) == {a \in Tags : <<s, a>> \in db'.link}
           Right(c) == IF task[c].new
                       THEN task[c].srv \in db'.ent /\ Stored(task[c].srv) = task[c].tags
                       ELSE task[c].srv \in db'.ent => \A a \in Tags :
                              \/ a \in Stored(task[c].srv) <=> a \in task[c].tags
                              \/ /\ form[c].at = "save"
                                 /\ trk[c].link[<<task[c].srv, a>>] =
                                      IF a \in Stored(task[c].srv) THEN "none" ELSE "unchanged"
<1>1. ASSUME IInv, NEW c \in Circuits, task[c] # NoTask, ServerSaved(c)
      PROVE  Right(c)
  <2> DEFINE s == task[c].srv
             t == trk[c]
             u == Store!Cascade(t)
  <2>1. /\ Sound(c) /\ t \in Store!Tracker /\ db \in Store!Database /\ Store!Consistent(db)
        /\ task[c] \in Task /\ db.ent \cap Servers \subseteq used
    BY <1>1 DEF IInv, TypeOK
  <2>2. /\ form[c].at = "save" /\ Store!Gone(t) \subseteq Servers
        /\ s \in Servers /\ task[c].tags \subseteq Tags
    BY <1>1, <2>1 DEF ServerSaved, Sound, TagsStay, Task
  <2>3. /\ Store!Added(t) = IF task[c].new THEN {s} ELSE {}
        /\ s \notin Store!Gone(t) => \A a \in Tags : t.link[<<s, a>>] \in
             IF a \in task[c].tags THEN (IF task[c].new THEN {"added"} ELSE {"added", "unchanged"})
                                   ELSE (IF task[c].new THEN {"none"} ELSE {"none", "deleted"})
    BY <2>1, <2>2 DEF Sound, Rejoined
  <2>4. u \in Store!Tracker /\ Store!Gone(u) = Store!Gone(t) /\ Store!Added(u) = Store!Added(t)
    BY <2>1, CascadeFacts
  <2>5. db' = Store!Committed(db, u)
    BY <1>1 DEF ServerSaved, Saves
  <2>6. db'.ent = (db.ent \cup Store!Added(t)) \ Store!Gone(t)
    BY <2>1, <2>4, <2>5, CommittedFacts
  <2>7. ASSUME s \notin Store!Gone(t), NEW a \in Tags
        PROVE  a \in Stored(s) <=> \/ <<s, a>> \in db.link /\ t.link[<<s, a>>] # "deleted"
                                   \/ t.link[<<s, a>>] = "added"
    <3> DEFINE l == <<s, a>>
    <3>1. l \in Store!Links /\ Store!Ends(l) \cap Store!Gone(t) = {}
      BY <2>2, <2>7, FormAssumption DEF Store!Links, Store!Ends
    <3>2. u.link[l] = t.link[l]
      BY <2>1, <3>1, CascadeFacts
    <3> HIDE DEF u, l
    <3>3. l \in db'.link <=> (l \in db.link /\ t.link[l] # "deleted") \/ t.link[l] = "added"
      BY <2>1, <2>4, <2>5, <3>1, <3>2, CommittedFacts
    <3>4. QED
      BY <3>3 DEF l
  <2> HIDE DEF u
  <2>8. CASE task[c].new
    <3>1. s \notin Store!Gone(t) /\ s \in db'.ent
      BY <2>2, <2>3, <2>6, <2>8 DEF Store!Added, Store!Gone
    <3>2. \A a \in Tags : <<s, a>> \notin db.link
      <4>1. s \notin db.ent
        BY <2>1, <2>2, <2>8 DEF Sound, OwnKey
      <4>2. \A a \in Tags : s \in Store!Ends(<<s, a>>)
        BY DEF Store!Ends
      <4>3. QED
        BY <2>1, <4>1, <4>2 DEF Store!Consistent
    <3>3. \A a \in Tags : a \in Stored(s) <=> a \in task[c].tags
      BY <2>3, <2>7, <2>8, <3>1, <3>2
    <3>4. Stored(s) = task[c].tags
      BY <2>2, <3>3
    <3>5. QED
      BY <2>8, <3>1, <3>4
  <2>9. CASE ~task[c].new /\ s \in Store!Gone(t)
    BY <2>6, <2>9
  <2>10. CASE ~task[c].new /\ s \notin Store!Gone(t)
    BY <2>2, <2>3, <2>7, <2>10
  <2>11. QED
    BY <2>8, <2>9, <2>10
<1>2. ASSUME IInv, [Next]_vars, NEW c \in Circuits, task[c] # NoTask, task'[c] = NoTask
      PROVE  Right(c)
  BY <1>1, <1>2, Finished
<1>3. IInv /\ [Next]_vars =>
        [\A c \in Circuits : task[c] # NoTask /\ task'[c] = NoTask => Right(c)]_vars
  BY <1>2
<1>4. QED
  BY <1>3, Invariance, PTL DEF Spec, SavedWithItsTags

--------------------------------------------------------------------------------
(***************************************************************************)
(* What the audit log has of it.                                           *)
(***************************************************************************)
\* A transaction inserts only servers and tags that the database lacks: the
\* index on names sees to the tags, the identity column to the servers.
LEMMA InsertsAreNew ==
  ASSUME IInv, NEW c \in Circuits, Saves(c)
  PROVE  Store!Added(trk[c]) \cap db.ent = {}
<1> DEFINE t == trk[c]
           u == Store!Cascade(t)
<1>1. /\ Sound(c) /\ t \in Store!Tracker /\ db.ent \cap Servers \subseteq used
      /\ form[c].at \in {"tag", "save", "delete"} /\ ~Refused(db, u)
  BY DEF IInv, TypeOK, Saves
<1>2. Store!Added(t) \cap Tags \cap db.ent = {}
  BY <1>1, CascadeFacts DEF Refused, NameTaken
<1>3. Store!Added(t) \cap Servers \cap used = {}
  <2>1. CASE form[c].at = "tag"
    BY <1>1, <2>1, FormAssumption DEF Sound, Clean
  <2>2. CASE form[c].at = "delete"
    BY <1>1, <2>2 DEF Sound, Clean, Between, Store!OnlyDeletesPending, Store!Added
  <2>3. CASE form[c].at = "save"
    BY <1>1, <2>3 DEF Sound, Rejoined, OwnKey
  <2>4. QED
    BY <1>1, <2>1, <2>2, <2>3
<1>4. Store!Added(t) \subseteq Servers \cup Tags
  BY Trackers DEF TrackerDefs
<1>5. QED
  BY <1>1, <1>2, <1>3, <1>4

\* A line that has the state of its entry right is the one that was told,
\* if the entry of the row, or of the server of the join row, is added just
\* when the database lacks it.
LEMMA LinesAreTrue ==
  ASSUME NEW t, NEW r \in Rows, NEW what,
         State(t, r) \in {"added", "modified", "deleted"}, Action(State(t, r)) = what,
         t.ent[FirstKey(r)] = "added" <=> FirstKey(r) \notin db.ent
  PROVE  <<r, Told(r, what)>> \in Audited(t)
<1>1. Line(t, r) = Told(r, what)
  BY DEF Line, Told, EntityId
<1>2. QED
  BY <1>1 DEF Audited

\* Every row that a transaction writes has a line in the audit log, but for
\* join rows that the database removes with their server.
THEOREM AuditIsComplete == Spec => AuditComplete
<1> DEFINE ByCascade == {<<l, Told(l, "Deleted")>> : l \in {x \in db.link : x[1] \notin db'.ent}}
<1>1. ASSUME IInv, NEW c \in Circuits, Saves(c)
      PROVE  Written(c) \ log[c] \subseteq ByCascade
  <2> DEFINE t == trk[c]
             u == Store!Cascade(t)
             old == db.ent \cup db.link
             new == db'.ent \cup db'.link
  <2>1. /\ Sound(c) /\ t \in Store!Tracker /\ db \in Store!Database /\ Store!Consistent(db)
        /\ db' = Store!Committed(db, u) /\ ~Refused(db, u)
        /\ form[c].at \in {"tag", "save", "delete"}
    BY <1>1 DEF IInv, TypeOK, Saves
  <2>2. log[c] = Audited(u) /\ Store!Gone(t) \subseteq Servers
    BY <2>1 DEF Sound, Logged, TagsStay, Awaiting
  <2>3. /\ u \in Store!Tracker /\ u.ent = t.ent /\ Store!Gone(u) = Store!Gone(t)
        /\ Store!Added(u) = Store!Added(t) /\ Store!Added(u) \cap db.ent = {}
    BY <1>1, <2>1, CascadeFacts, InsertsAreNew
  <2> HIDE DEF u
  <2>4. /\ db'.ent = (db.ent \cup Store!Added(u)) \ Store!Gone(u)
        /\ db'.link \subseteq Store!Links /\ db.link \subseteq Store!Links /\ db.ent \subseteq Store!Ents
        /\ \A l \in Store!Links : l \in db'.link <=>
             /\ (l \in db.link /\ u.link[l] # "deleted") \/ u.link[l] = "added"
             /\ Store!Ends(l) \cap Store!Gone(u) = {}
    BY <2>1, <2>3, CommittedFacts DEF Store!Database
  <2>5. /\ Store!Ents = Servers \cup Tags /\ Store!Links = Servers \X Tags
        /\ Store!Added(u) \subseteq Store!Ents
        /\ \A e \in Store!Ents : /\ e \in Store!Added(u) <=> u.ent[e] = "added"
                                 /\ e \in Store!Gone(u) <=> u.ent[e] = "deleted"
        /\ \A l \in Store!Links : Store!Ends(l) = {l[1], l[2]}
    BY Trackers DEF TrackerDefs
  <2>6. ASSUME NEW e \in Store!Ents
        PROVE  /\ e \in Rows /\ FirstKey(e) = e /\ State(u, e) = u.ent[e]
               /\ u.ent[e] = "added" => e \notin db.ent
               /\ u.ent[e] \in {"modified", "deleted"} => e \in db.ent
    <3>1. e \notin Store!Links
      BY <2>5, FormAssumption
    <3>2. u.ent[e] \in {"modified", "deleted"} => e \in db.ent
      BY <2>1 DEF Refused, Store!Refused, Store!RowMissing
    <3>3. QED
      BY <2>3, <2>5, <3>1, <3>2 DEF Rows, FirstKey, State
  <2>7. ASSUME NEW l \in Store!Links
        PROVE  /\ l \in Rows /\ FirstKey(l) = l[1] /\ l[1] \in Store!Ents
               /\ State(u, l) = u.link[l]
               /\ u.link[l] = "added" => l[1] \in db.ent \cup Store!Added(u)
               /\ l \in db.link => l[1] \in db.ent
    <3>1. l \notin Store!Ents /\ l[1] \in Store!Ents /\ l[1] \in Store!Ends(l)
      BY <2>5, FormAssumption
    <3>2. u.link[l] = "added" => l[1] \in db.ent \cup Store!Added(u)
      BY <2>1, <3>1 DEF Refused, Store!Refused, Store!ReferenceMissing
    <3>3. l \in db.link => l[1] \in db.ent
      BY <2>1, <3>1 DEF Store!Consistent
    <3>4. QED
      BY <3>1, <3>2, <3>3 DEF Rows, FirstKey, State
  <2>8. /\ Action("added") = "Added" /\ Action("modified") = "Modified"
        /\ Action("deleted") = "Deleted"
    BY DEF Action
  <2>9. ASSUME NEW r \in new \ old
        PROVE  <<r, Told(r, "Added")>> \in Audited(u)
    <3>1. CASE r \in db'.ent
      <4>1. r \in Store!Ents /\ u.ent[r] = "added"
        BY <2>3, <2>4, <2>5, <2>9, <3>1
      <4>2. QED
        BY <2>6, <2>8, <4>1, LinesAreTrue
    <3>2. CASE r \in db'.link
      <4>1. r \in Store!Links /\ u.link[r] = "added"
        BY <2>4, <2>9, <3>2
      <4>2. u.ent[r[1]] = "added" <=> r[1] \notin db.ent
        BY <2>3, <2>5, <2>7, <4>1
      <4>3. QED
        BY <2>7, <2>8, <4>1, <4>2, LinesAreTrue
    <3>3. QED
      BY <2>9, <3>1, <3>2
  <2>10. ASSUME NEW r \in old \ new
         PROVE  <<r, Told(r, "Deleted")>> \in Audited(u) \cup ByCascade
    <3>1. CASE r \in db.ent
      <4>1. r \in Store!Ents /\ u.ent[r] = "deleted"
        BY <2>3, <2>4, <2>5, <2>10, <3>1
      <4>2. QED
        BY <2>6, <2>8, <3>1, <4>1, LinesAreTrue
    <3>2. CASE r \in db.link /\ u.link[r] = "deleted"
      <4>1. r \in Store!Links /\ r[1] \in db.ent /\ u.ent[r[1]] # "added"
        BY <2>4, <2>6, <2>7, <3>2
      <4>2. QED
        BY <2>7, <2>8, <3>2, <4>1, LinesAreTrue
    <3>3. CASE r \in db.link /\ u.link[r] # "deleted"
      <4>1. r \in Store!Links /\ Store!Ends(r) \cap Store!Gone(t) # {}
        BY <2>3, <2>4, <2>10, <3>3
      <4>2. r[1] \in Store!Gone(t)
        BY <2>2, <2>5, <4>1, FormAssumption
      <4>3. QED
        BY <2>3, <2>4, <3>3, <4>2
    <3>4. QED
      BY <2>10, <3>1, <3>2, <3>3
  <2>11. ASSUME NEW s \in Store!Ents, t.ent[s] = "modified"
         PROVE  <<s, Told(s, "Modified")>> \in Audited(u)
    BY <2>3, <2>6, <2>8, <2>11, LinesAreTrue
  <2>12. QED
    BY <2>2, <2>9, <2>10, <2>11 DEF Written
<1>2. IInv /\ [Next]_vars =>
        [\A c \in Circuits : Saves(c) => Written(c) \ log[c] \subseteq ByCascade]_vars
  BY <1>1
<1>3. QED
  BY <1>2, Invariance, PTL DEF Spec, AuditComplete

================================================================================
