------------------------------- MODULE ServerForm -------------------------------
(***************************************************************************)
(* Saving the form of a server with its tags: the pages Servers/Create and *)
(* Servers/Edit, ServerFormService, TagRepository, ServerRepository and    *)
(* the audit interceptor, from several circuits.  A Save resolves the      *)
(* chosen tags one by one, and each tag that does not exist yet is a       *)
(* SaveChanges of its own; the server follows in another.  Between them    *)
(* other circuits run, and the process may end.                            *)
(*                                                                         *)
(* Tags take the place of the services in CircuitStore: a tag is a row     *)
(* with a unique name, ServerTags a join table like ServerServices.  Names *)
(* that differ only by case are one name, to the form and to the database. *)
(* Users keep at a form that failed: they open the page again and repeat   *)
(* it.                                                                     *)
(***************************************************************************)
EXTENDS Naturals

CONSTANTS Servers, Tags, Circuits, Null,
          Databases,   \* what the application may find when it starts
          MaxRestarts, \* bound: how often the process ends
          MaxVisits    \* bound: how many forms are filled in and servers deleted

ASSUME FormAssumption ==
  /\ Servers \cap Tags = {} /\ Null \notin Servers \cup Tags
  /\ (Servers \cup Tags) \cap (Servers \X Tags) = {}
  /\ Circuits # {}

VARIABLES db, used, trk,  \* as in CircuitStore
          form,           \* where the handler of each circuit is
          task,           \* the form its user wants saved
          log,            \* what the SaveChanges it awaits put into the audit log
          restarts, visits

counts == <<restarts, visits>>
vars == <<db, used, trk, form, task, log, counts>>

\* at: what the handler awaits; left: names still to resolve; got: tags it
\* has; made: those of them it created.
Form == [at   : {"idle", "resolve", "tag", "save", "delete", "dead"},
         left : SUBSET Tags, got : SUBSET Tags, made : SUBSET Tags]
At(place) == [at |-> place, left |-> {}, got |-> {}, made |-> {}]

Task == [srv : Servers, tags : SUBSET Tags, new : BOOLEAN, valid : BOOLEAN]
NoTask == [srv |-> Null, tags |-> {}, new |-> FALSE, valid |-> TRUE]

Subject(c) == [kind |-> CASE form[c].at \in {"tag", "save"} -> "save"
                          [] form[c].at \in {"delete", "dead"} -> form[c].at
                          [] OTHER -> "idle",
               id   |-> IF form[c].at = "save" THEN task[c].srv ELSE Null]

Store == INSTANCE CircuitStore WITH
           Services <- Tags, Conns <- {}, Offers <- {}, Retired <- {},
           op   <- [c \in Circuits |-> Subject(c)],
           view <- [c \in Circuits |-> used]

ASSUME DatabasesAssumption == \A d \in Databases : d \in Store!Database /\ Store!Consistent(d)

Init ==
  /\ db \in Databases
  /\ used = db.ent \cap Servers
  /\ trk  = [c \in Circuits |-> Store!EmptyTracker]
  /\ form = [c \in Circuits |-> At("idle")]
  /\ task = [c \in Circuits |-> NoTask]
  /\ log  = [c \in Circuits |-> {}]
  /\ restarts = 0 /\ visits = 0

(***************************************************************************)
(* SaveChangesAsync and the interceptor it calls before anything else.     *)
(***************************************************************************)
Rows == Store!Ents \cup Store!Links
Action(st) == CASE st = "added" -> "Added" [] st = "modified" -> "Modified" [] OTHER -> "Deleted"
\* The join table has no class of its own: EF Core keeps its rows in dictionaries.
Entity(r)  == IF r \in Servers THEN "Server" ELSE IF r \in Tags THEN "Tag" ELSE "Dictionary"
State(t, r) == IF r \in Store!Ents THEN t.ent[r] ELSE t.link[r]

\* GetEntityId: the first column of the primary key, which for a join row is
\* its ServersId.  A new server or tag has no identity yet, only a temporary
\* value (here Null), and the join rows of a new server have that.
FirstKey(r) == IF r \in Store!Links THEN r[1] ELSE r
EntityId(t, r) == IF t.ent[FirstKey(r)] = "added" THEN Null ELSE FirstKey(r)

\* What the log says of the entry r.
Line(t, r) == [entity |-> Entity(r), action |-> Action(State(t, r)), id |-> EntityId(t, r)]

\* Mutant: only inserts and deletes are recorded.
AuditedUnlessModified(t) ==
  {<<r, Line(t, r)>> : r \in {x \in Rows : State(t, x) \in {"added", "deleted"}}}

\* LogAudit: one line per entry that is to be written.  The entry is kept
\* beside its line, since the lines of two entries may read alike.
Audited(t) ==
  {<<r, Line(t, r)>> : r \in {x \in Rows : State(t, x) \in {"added", "modified", "deleted"}}}

\* A handler calls SaveChangesAsync on the tracker t and awaits the database.
CallSave(c, t, f) ==
  /\ trk'  = [trk EXCEPT ![c] = t]
  /\ form' = [form EXCEPT ![c] = f]
  /\ log'  = [log EXCEPT ![c] = Audited(Store!Cascade(t))]

\* The index on Tags.Name is unique.
NameTaken(d, t) == Store!Added(t) \cap Tags \cap d.ent # {}
Refused(d, t) == Store!Refused(d, t) \/ NameTaken(d, t)

Saves(c) ==
  LET t == Store!Cascade(trk[c]) IN
  /\ form[c].at \in {"tag", "save", "delete"}
  /\ ~Refused(db, t)
  /\ db'   = Store!Committed(db, t)
  /\ used' = used \cup (db'.ent \cap Servers)
  /\ trk'  = [trk EXCEPT ![c] = Store!Accepted(t)]
  /\ log'  = [log EXCEPT ![c] = {}]

\* The circuit ends, and the tracker of its scope with it.
Ended(c) ==
  /\ trk'  = [trk EXCEPT ![c] = Store!EmptyTracker]
  /\ form' = [form EXCEPT ![c] = At("dead")]

\* Mutant: the form stays open and the circuit with it.
SaveFailsAndIsCaught(c) ==
  LET t == Store!Cascade(trk[c]) IN
  /\ form[c].at \in {"tag", "save", "delete"}
  /\ Refused(db, t)
  /\ trk'  = [trk EXCEPT ![c] = t]
  /\ form' = [form EXCEPT ![c] = At("idle")]
  /\ log'  = [log EXCEPT ![c] = {}]
  /\ UNCHANGED <<db, used, task, counts>>

\* Pages catch what a Delete throws and let a failed Save end the circuit.
SaveFails(c) ==
  LET t == Store!Cascade(trk[c]) IN
  /\ form[c].at \in {"tag", "save", "delete"}
  /\ Refused(db, t)
  /\ IF form[c].at = "delete"
     THEN trk' = [trk EXCEPT ![c] = t] /\ form' = [form EXCEPT ![c] = At("idle")]
     ELSE Ended(c)
  /\ log'  = [log EXCEPT ![c] = {}]
  /\ UNCHANGED <<db, used, task, counts>>

(***************************************************************************)
(* The pages.                                                              *)
(***************************************************************************)
Done(c) == form' = [form EXCEPT ![c] = At("idle")] /\ task' = [task EXCEPT ![c] = NoTask]

\* A page is opened and filled in; a new server gets the next identity.
\* Nothing on it checks what ValidateServer will ask for.
FillIn(c, t) ==
  /\ visits < MaxVisits /\ visits' = visits + 1
  /\ form[c].at = "idle" /\ task[c] = NoTask
  /\ IF t.new THEN t.srv \notin used /\ \A d \in Circuits : task[d].srv # t.srv
     ELSE t.srv \in used
  /\ task' = [task EXCEPT ![c] = t]
  /\ UNCHANGED <<db, used, trk, form, log, restarts>>

\* Save, up to ResolveTagsAsync.  The pages say the server was saved even if
\* UpdateAsync found none.
Submit(c) ==
  /\ form[c].at = "idle" /\ task[c] # NoTask
  /\ IF task[c].new \/ task[c].srv \in db.ent
     THEN /\ form' = [form EXCEPT ![c] = [At("resolve") EXCEPT !.left = task[c].tags]]
          /\ UNCHANGED task
     ELSE Done(c)
  /\ UNCHANGED <<db, used, trk, log, counts>>

\* Mutant: a name that is not there is kept for the next SaveChanges.
GetOrCreateUnsaved(c, a) ==
  LET f == [form[c] EXCEPT !.left = @ \ {a}, !.got = @ \cup {a}] IN
  /\ form[c].at = "resolve" /\ a \in form[c].left
  /\ form' = [form EXCEPT ![c] = f]
  /\ trk'  = [trk EXCEPT ![c] = IF a \in db.ent THEN Store!Track(@, {a}) ELSE [@ EXCEPT !.ent[a] = "added"]]
  /\ UNCHANGED <<db, used, task, log, counts>>

\* Mutant: the name is not looked up first.
GetOrCreateBlind(c, a) ==
  LET f == [form[c] EXCEPT !.left = @ \ {a}, !.got = @ \cup {a}] IN
  /\ form[c].at = "resolve" /\ a \in form[c].left
  /\ CallSave(c, [trk[c] EXCEPT !.ent[a] = "added"], [f EXCEPT !.at = "tag", !.made = @ \cup {a}])
  /\ UNCHANGED <<db, used, task, counts>>

\* GetOrCreateAsync.
GetOrCreate(c, a) ==
  LET f == [form[c] EXCEPT !.left = @ \ {a}, !.got = @ \cup {a}] IN
  /\ form[c].at = "resolve" /\ a \in form[c].left
  /\ \/ /\ a \in db.ent
        /\ trk'  = [trk EXCEPT ![c] = Store!Track(@, {a})]
        /\ form' = [form EXCEPT ![c] = f]
        /\ UNCHANGED log
     \/ /\ a \notin db.ent
        /\ CallSave(c, [trk[c] EXCEPT !.ent[a] = "added"],
                    [f EXCEPT !.at = "tag", !.made = @ \cup {a}])
  /\ UNCHANGED <<db, used, task, counts>>

TagSaved(c) ==
  /\ form[c].at = "tag" /\ Saves(c)
  /\ form' = [form EXCEPT ![c].at = "resolve"]
  /\ UNCHANGED <<task, counts>>

\* All names are tags by now: AddAsync and UpdateAsync of ServerRepository,
\* up to SaveChanges.  An update of a server that has gone is no error; touched:
\* one of its own columns changes.
Resolved(c) == form[c].at = "resolve" /\ form[c].left = {}

ServerInvalid(c) ==
  /\ Resolved(c) /\ ~task[c].valid
  /\ Ended(c)
  /\ UNCHANGED <<db, used, task, log, counts>>

AddServer(c) ==
  /\ Resolved(c) /\ task[c].valid /\ task[c].new
  /\ LET s == task[c].srv
         there == form[c].got \cap db.ent
         t == Store!Track(trk[c], there)
     IN CallSave(c, [t EXCEPT !.ent[s] = "added",
                              !.link = [l \in Store!Links |->
                                 IF l[1] = s /\ l[2] \in there THEN "added" ELSE t.link[l]]],
                 [form[c] EXCEPT !.at = "save"])
  /\ UNCHANGED <<db, used, task, counts>>

UpdateServer(c, touched) ==
  /\ Resolved(c) /\ task[c].valid /\ ~task[c].new
  /\ LET s == task[c].srv IN
     IF s \notin db.ent THEN Done(c) /\ UNCHANGED <<trk, log>>
     ELSE CallSave(c, Store!Relinked(trk[c], s, form[c].got, touched),
                   [form[c] EXCEPT !.at = "save"]) /\ UNCHANGED task
  /\ UNCHANGED <<db, used, counts>>

ServerSaved(c) ==
  /\ form[c].at = "save" /\ Saves(c) /\ Done(c)
  /\ UNCHANGED counts

\* FindAsync, Remove.
Delete(c, s) ==
  /\ visits < MaxVisits /\ visits' = visits + 1
  /\ form[c].at = "idle" /\ task[c] = NoTask
  /\ s \in used /\ Store!FindEnt(trk[c], s) # "none"
  /\ CallSave(c, [trk[c] EXCEPT !.ent[s] = "deleted"], At("delete"))
  /\ UNCHANGED <<db, used, task, restarts>>

Deleted(c) ==
  /\ form[c].at = "delete" /\ Saves(c)
  /\ form' = [form EXCEPT ![c] = At("idle")]
  /\ UNCHANGED <<task, counts>>

(***************************************************************************)
(* The circuits.                                                           *)
(***************************************************************************)
\* A new circuit has a new tracker.  What was wrong with the form is put right.
Reload(c) ==
  /\ form[c].at \in {"idle", "dead"}
  /\ trk'  = [trk EXCEPT ![c] = Store!EmptyTracker]
  /\ form' = [form EXCEPT ![c] = At("idle")]
  /\ task' = [task EXCEPT ![c].valid = TRUE]
  /\ UNCHANGED <<db, used, log, counts>>

\* The process ends and starts again.
Restart ==
  /\ restarts < MaxRestarts /\ restarts' = restarts + 1
  /\ trk'  = [c \in Circuits |-> Store!EmptyTracker]
  /\ form' = [c \in Circuits |-> At("idle")]
  /\ log'  = [c \in Circuits |-> {}]
  /\ UNCHANGED <<db, used, task, visits>>

Work(c) ==
  \/ \E a \in Tags : GetOrCreate(c, a)
  \/ TagSaved(c) \/ ServerInvalid(c) \/ AddServer(c)
  \/ \E touched \in BOOLEAN : UpdateServer(c, touched)
  \/ ServerSaved(c) \/ Deleted(c) \/ SaveFails(c)

Next ==
  \/ \E c \in Circuits :
       \/ Work(c) \/ Submit(c) \/ Reload(c)
       \/ \E t \in Task : FillIn(c, t)
       \/ \E s \in Servers : Delete(c, s)
  \/ Restart

\* The process carries on with its handlers, none of which is ever blocked, so
\* that each comes to an end: what WF_vars(Work(c)) says, in a form that is
\* cheaper to check.  Users carry on with their forms.
Fairness ==
  \A c \in Circuits : /\ []<>(form[c].at \in {"idle", "dead"})
                      /\ WF_vars(Submit(c)) /\ WF_vars(form[c].at = "dead" /\ Reload(c))

Spec == Init /\ [][Next]_vars /\ Fairness

--------------------------------------------------------------------------------
\* A Save that is reported to be done has stored a new server with exactly
\* the tags on its form, whoever created them and whatever the tracker holds
\* of earlier handlers.  An edit of a server that is still there differs from
\* its form only in tags that other circuits put on or took off since this
\* one read them.
SavedWithItsTags ==
  [][\A c \in Circuits : task[c] # NoTask /\ task'[c] = NoTask =>
       LET s == task[c].srv
           stored == {a \in Tags : <<s, a>> \in db'.link}
       IN IF task[c].new THEN s \in db'.ent /\ stored = task[c].tags
          ELSE s \in db'.ent => \A a \in Tags :
                 \/ a \in stored <=> a \in task[c].tags
                 \/ /\ form[c].at = "save"
                    /\ trk[c].link[<<s, a>>] = IF a \in stored THEN "none" ELSE "unchanged"]_vars

\* Between the steps of a Save, too, the tracker has nothing pending but
\* deletes that were refused: each tag is committed before the next one, and
\* a Save that fails halfway leaves no part of a server behind, nor records of
\* it for the audit log of a later one.
NothingHalfDone ==
  /\ Store!OnlyDeletesLinger
  /\ \A c \in Circuits : /\ form[c].at # "tag" => form[c].got \subseteq db.ent
                         /\ form[c].at \in {"idle", "resolve", "dead"} => log[c] = {}

\* Whatever a transaction inserts, updates or deletes had a line of its own
\* in the audit log before, and the line was true when the transaction came:
\* it names the right operation, and the key the database knows the server,
\* or the server of the join row, by; of a server or tag that the database
\* does not have yet it has no key.  Join rows that go with their server by
\* the database's own cascade are the only exception.
Told(r, what) == [entity |-> Entity(r), action |-> what,
                  id |-> IF FirstKey(r) \in db.ent THEN FirstKey(r) ELSE Null]

Written(c) ==
  LET old == db.ent \cup db.link
      new == db'.ent \cup db'.link
  IN {<<r, Told(r, "Added")>> : r \in new \ old}
       \cup {<<r, Told(r, "Deleted")>> : r \in old \ new}
       \cup {<<s, Told(s, "Modified")>> : s \in {x \in Store!Ents : trk[c].ent[x] = "modified"}}

AuditComplete ==
  [][\A c \in Circuits : Saves(c) =>
       Written(c) \ log[c] \subseteq
         {<<l, Told(l, "Deleted")>> : l \in {x \in db.link : x[1] \notin db'.ent}}]_vars

\* However many users create the same tags at the same time, and edit and
\* delete servers meanwhile, a new server is saved in the end: a name that
\* was taken once is found at the next attempt.
NewServersLand == \A c \in Circuits : task[c].new ~> task[c] = NoTask
================================================================================
