------------------------------ MODULE GlobalSearch ------------------------------
(***************************************************************************)
(* The search box of the layout: every keystroke cancels the search before *)
(* it, waits 300 ms, then runs the queries of SearchService one by one on  *)
(* the circuit's only DbContext, which the open page uses as well.  A      *)
(* second operation on a DbContext that is busy throws, nobody catches it, *)
(* and the circuit ends.                                                   *)
(*                                                                         *)
(* Time is counted in ticks.  Whatever is ready to run on the circuit runs *)
(* before time goes on; a query takes up to the latency of the session.     *)
(***************************************************************************)
EXTENDS Naturals, FiniteSets

CONSTANTS Texts,      \* queries of two characters and more, not blank
          Short,      \* any shorter one, and "no results"
          Debounce,   \* the delay, in ticks
          Latencies,  \* how long a query may take at most, by session
          Queries,    \* queries of one search
          MaxTyped    \* bound: keystrokes

ASSUME SearchAssumption ==
  /\ Short \notin Texts
  /\ {Debounce, Queries, MaxTyped} \cup Latencies \subseteq Nat \ {0}

VARIABLES query, results, searching, popup,  \* the component's fields
          tasks,  \* invocations of OnQueryChanged that are still awaiting
          page,   \* the open page: is it reading the database?
          fate,   \* the circuit: "alive", or which two operations met
          typed,  \* keystrokes so far
          latency \* the database's, in this session

vars == <<query, results, searching, popup, tasks, page, fate, typed, latency>>

\* delay: in Task.Delay; ready: its continuation is queued; db: in a query.
\* key: the keystroke; done queries are counted; live: not cancelled.
Task == [key : 1..MaxTyped, st : {"delay", "ready", "db"}, left : Nat,
         asked : Texts \cup {Short}, done : 0..Queries, live : BOOLEAN]

TypeOK ==
  /\ query \in Texts \cup {Short} /\ results \in Texts \cup {Short}
  /\ searching \in BOOLEAN /\ popup \in BOOLEAN
  /\ tasks \subseteq Task
  /\ page \in {"idle", "loading"}
  /\ fate \in {"alive", "two searches", "search and page"}
  /\ typed \in 0..MaxTyped /\ latency \in Latencies

Init ==
  /\ query = Short /\ results = Short
  /\ searching = FALSE /\ popup = FALSE
  /\ tasks = {} /\ page = "idle" /\ fate = "alive" /\ typed = 0
  /\ latency \in Latencies

Alive == fate = "alive"

\* Mutant: the previous search is not cancelled.
CancelledNone == tasks

(***************************************************************************)
(* OnQueryChanged up to its first await.  Cancel() ends a delay that is    *)
(* still running; what is past its delay goes on, cancelled.               *)
(***************************************************************************)
Cancelled == {[t EXCEPT !.live = FALSE] : t \in {t \in tasks : t.st # "delay"}}

\* Mutant: clearing the box leaves the progress mark on.
TypeShortStillSearching ==
  /\ Alive /\ typed < MaxTyped
  /\ query' = Short /\ results' = Short /\ popup' = FALSE
  /\ tasks' = Cancelled /\ typed' = typed + 1
  /\ UNCHANGED <<searching, page, fate, latency>>

TypeShort ==
  /\ Alive /\ typed < MaxTyped
  /\ query' = Short /\ results' = Short /\ searching' = FALSE /\ popup' = FALSE
  /\ tasks' = Cancelled /\ typed' = typed + 1
  /\ UNCHANGED <<page, fate, latency>>

Type(q) ==
  /\ Alive /\ typed < MaxTyped
  /\ query' = q /\ searching' = TRUE /\ popup' = TRUE
  /\ tasks' = Cancelled \cup {[key |-> typed + 1, st |-> "delay", left |-> Debounce,
                               asked |-> Short, done |-> 0, live |-> TRUE]}
  /\ typed' = typed + 1
  /\ UNCHANGED <<results, page, fate, latency>>

(***************************************************************************)
(* Its continuations.                                                      *)
(***************************************************************************)
DelayElapses(t) ==
  /\ Alive /\ t \in tasks /\ t.st = "delay" /\ t.left = 0
  /\ tasks' = (tasks \ {t}) \cup {[t EXCEPT !.st = "ready"]}
  /\ UNCHANGED <<query, results, searching, popup, page, fate, typed, latency>>

\* ToListAsync: refused while another operation is under way.
Querying(t) ==
  /\ fate' = IF \E u \in tasks : u.st = "db" THEN "two searches"
             ELSE IF page = "loading" THEN "search and page" ELSE fate
  /\ tasks' = (tasks \ {u \in tasks : u.key = t.key})
                \cup {[t EXCEPT !.st = "db", !.left = latency]}
  /\ UNCHANGED <<query, results, searching, popup, page, typed, latency>>

\* Past the delay: the query is read now, not when it was typed.
StartSearch(t) ==
  /\ Alive /\ t \in tasks /\ t.st = "ready" /\ t.asked = Short /\ query # Short
  /\ Querying([t EXCEPT !.asked = query])

NextQuery(t) ==
  /\ Alive /\ t \in tasks /\ t.st = "ready" /\ t.done \in 1..(Queries - 1)
  /\ Querying(t)

QueryEnds(t) ==
  /\ Alive /\ t \in tasks /\ t.st = "db"
  /\ tasks' = (tasks \ {t}) \cup {[t EXCEPT !.st = "ready", !.left = 0, !.done = @ + 1]}
  /\ UNCHANGED <<query, results, searching, popup, page, fate, typed, latency>>

\* SearchAsync returned: at once for a short query, else after its last one.
Answered(t) == t.done = Queries \/ (t.asked = Short /\ query = Short)

\* Mutant: results are shown whether or not the token is cancelled.
PublishAnyway(t) ==
  /\ Alive /\ t \in tasks /\ t.st = "ready"
  /\ Answered(t)
  /\ tasks' = tasks \ {t}
  /\ results' = t.asked /\ searching' = FALSE
  /\ UNCHANGED <<query, popup, page, fate, typed, latency>>

\* Only a search nothing was typed after shows what it found.
Publish(t) ==
  /\ Alive /\ t \in tasks /\ t.st = "ready"
  /\ Answered(t)
  /\ tasks' = tasks \ {t}
  /\ IF t.live THEN results' = t.asked /\ searching' = FALSE
               ELSE UNCHANGED <<results, searching>>
  /\ UNCHANGED <<query, popup, page, fate, typed, latency>>

\* Time passes only when nothing is ready to run and nothing is overdue.
Tick ==
  /\ Alive
  /\ \E t \in tasks : t.left > 0
  /\ \A t \in tasks : t.st # "ready" /\ t.left > 0
  /\ tasks' = {[t EXCEPT !.left = @ - 1] : t \in tasks}
  /\ UNCHANGED <<query, results, searching, popup, page, fate, typed, latency>>

(***************************************************************************)
(* The rest of the component, and the page that shares its circuit.        *)
(***************************************************************************)
\* OnInitializedAsync of a page.
Load ==
  /\ page' = "loading"
  /\ fate' = IF \E u \in tasks : u.st = "db" THEN "search and page" ELSE fate

\* A click on a result; a running search is not cancelled.
Navigate ==
  /\ Alive /\ page = "idle" /\ popup /\ results # Short
  /\ query' = Short /\ results' = Short /\ popup' = FALSE
  /\ Load
  /\ UNCHANGED <<searching, tasks, typed, latency>>

FollowLink ==
  /\ Alive /\ page = "idle"
  /\ Load
  /\ UNCHANGED <<query, results, searching, popup, tasks, typed, latency>>

PageLoaded ==
  /\ Alive /\ page = "loading"
  /\ page' = "idle"
  /\ UNCHANGED <<query, results, searching, popup, tasks, fate, typed, latency>>

ClosePopup ==
  /\ Alive /\ popup
  /\ popup' = FALSE
  /\ UNCHANGED <<query, results, searching, tasks, page, fate, typed, latency>>

Continuation(t) ==
  DelayElapses(t) \/ StartSearch(t) \/ NextQuery(t) \/ QueryEnds(t) \/ Publish(t)

Next ==
  \/ TypeShort
  \/ \E q \in Texts : Type(q)
  \/ \E t \in tasks : Continuation(t)
  \/ Tick \/ Navigate \/ FollowLink \/ PageLoaded \/ ClosePopup

Spec == Init /\ [][Next]_vars

\* Timers fire, queued continuations run and queries are answered.
Fairness == WF_vars(\E t \in tasks : Continuation(t)) /\ WF_vars(Tick)

FairSpec == Spec /\ Fairness

--------------------------------------------------------------------------------
\* A popup that does not say it is searching shows the results of exactly the
\* text in the box, whatever searches were overtaken on the way.
ResultsMatchQuery == Alive /\ popup /\ ~searching => results = query

\* In a session in which a whole search takes less than the delay of the next
\* one, searches of the box never meet in the DbContext, although a cancelled
\* one runs to its end.
SearchesNeverMeet == Queries * latency < Debounce => fate # "two searches"

\* Once the typing stops, a search that was announced ends, or the circuit does.
SearchEnds == searching ~> (~searching \/ ~Alive)
================================================================================
