--------------------------- MODULE GlobalSearchProofs ---------------------------
(***************************************************************************)
(* GlobalSearch is type-correct and shows only results of the text in the  *)
(* box, and in fast sessions its searches do not meet, for any delay, any  *)
(* number of queries and of keystrokes, and any latencies.                 *)
(***************************************************************************)
EXTENDS GlobalSearch, TLAPS

\* A search that has an answer to a query has read what to ask, and has a
\* query still to go while it is in one.
Counted ==
  \A t \in tasks : /\ t.done > 0 => t.asked # Short
                   /\ t.st = "delay" => t.done = 0
                   /\ t.st = "db" => t.done < Queries /\ t.asked # Short

\* While the popup is open, whatever a search that is not cancelled will show
\* is the answer to the text in the box.
Current ==
  /\ ResultsMatchQuery
  /\ popup => \A t \in tasks : t.live => t.asked \in {Short, query}

\* How long a search that is past its delay may still take.
Rest(t) == IF t.st = "db" THEN t.left + (Queries - t.done - 1) * latency
           ELSE (Queries - t.done) * latency

\* One search at most is in its delay and one past it, and the one past it is
\* over before the delay of the other is.
Apart ==
  /\ fate # "two searches"
  /\ \A t \in tasks : t.st = "db" => t.left <= latency
  /\ \A t, u \in tasks : (t.st = "delay" <=> u.st = "delay") => t = u
  /\ \A t, u \in tasks : t.st # "delay" /\ u.st = "delay" => Rest(t) < u.left

IInv == TypeOK /\ Counted /\ Current /\ (Queries * latency < Debounce => Apart)

--------------------------------------------------------------------------------
(***************************************************************************)
(* Types.                                                                  *)
(***************************************************************************)
LEMMA TypeStep ==
  ASSUME TypeOK, Counted, [Next]_vars
  PROVE  TypeOK'
<1> USE SearchAssumption
<1>1. Cancelled \subseteq Task
  <2>1. ASSUME NEW t \in tasks PROVE [t EXCEPT !.live = FALSE] \in Task
    <3>1. t \in Task
      BY DEF TypeOK
    <3> QED BY <3>1, Zenon DEF Task
  <2> QED BY <2>1 DEF Cancelled
<1>a. typed < MaxTyped => typed + 1 \in 1..MaxTyped /\ typed + 1 \in 0..MaxTyped
  <2>1. typed \in 0..MaxTyped /\ MaxTyped \in Nat
    BY DEF TypeOK
  <2> QED BY <2>1
<1>2. CASE TypeShort
  BY <1>1, <1>2, <1>a, Zenon DEF TypeShort, TypeOK
<1>3. ASSUME NEW q \in Texts, Type(q) PROVE TypeOK'
  <2>1. [key |-> typed + 1, st |-> "delay", left |-> Debounce, asked |-> Short, done |-> 0, live |-> TRUE] \in Task
    <3>1. Debounce \in Nat /\ 0 \in 0..Queries
      OBVIOUS
    <3> QED BY <1>3, <1>a, <3>1 DEF Type, Task
  <2> QED BY <1>1, <1>3, <1>a, <2>1, Zenon DEF Type, TypeOK
<1>4. ASSUME NEW t \in tasks, DelayElapses(t) PROVE TypeOK'
  <2>1. [t EXCEPT !.st = "ready"] \in Task
    BY DEF TypeOK, Task
  <2> QED BY <1>4, <2>1 DEF DelayElapses, TypeOK
<1>5. ASSUME NEW t \in Task, Querying(t) PROVE TypeOK'
  <2>1. [t EXCEPT !.st = "db", !.left = latency] \in Task
    BY DEF TypeOK, Task
  <2> QED BY <1>5, <2>1 DEF Querying, TypeOK
<1>6. ASSUME NEW t \in tasks, StartSearch(t) PROVE TypeOK'
  <2>1. [t EXCEPT !.asked = query] \in Task
    BY DEF TypeOK, Task
  <2> QED BY <1>5, <1>6, <2>1 DEF StartSearch
<1>7. ASSUME NEW t \in tasks, NextQuery(t) PROVE TypeOK'
  BY <1>5, <1>7 DEF NextQuery, TypeOK
<1>8. ASSUME NEW t \in tasks, QueryEnds(t) PROVE TypeOK'
  <2>1. t.done + 1 \in 0..Queries
    <3>1. t \in Task
      BY DEF TypeOK
    <3>2. t.done \in 0..Queries /\ Queries \in Nat
      BY <3>1 DEF Task
    <3>3. t.done < Queries
      BY <1>8 DEF QueryEnds, Counted
    <3> QED BY <3>2, <3>3
  <2>2. [t EXCEPT !.st = "ready", !.left = 0, !.done = @ + 1] \in Task
    <3>1. ASSUME NEW d \in 0..Queries
          PROVE  [t EXCEPT !.st = "ready", !.left = 0, !.done = d] \in Task
      BY DEF TypeOK, Task
    <3>2. t.done + 1 \in 0..Queries => [t EXCEPT !.st = "ready", !.left = 0, !.done = t.done + 1] \in Task
      BY <3>1
    <3> QED BY <2>1, <3>2
  <2> QED BY <1>8, <2>2 DEF QueryEnds, TypeOK
<1>9. ASSUME NEW t \in tasks, Publish(t) PROVE TypeOK'
  <2>1. t.asked \in Texts \cup {Short}
    BY DEF TypeOK, Task
  <2> QED BY <1>9, <2>1 DEF Publish, TypeOK
<1>10. CASE Tick
  <2>1. ASSUME NEW t \in tasks PROVE [t EXCEPT !.left = @ - 1] \in Task
    <3>1. t \in Task /\ t.left \in Nat /\ t.left > 0
      BY <1>10 DEF Tick, TypeOK, Task
    <3> QED BY <3>1 DEF Task
  <2> QED BY <1>10, <2>1 DEF Tick, TypeOK
<1>11. CASE Navigate
  BY <1>11 DEF Navigate, Load, TypeOK
<1>12. CASE FollowLink
  BY <1>12 DEF FollowLink, Load, TypeOK
<1>13. CASE PageLoaded
  BY <1>13 DEF PageLoaded, TypeOK
<1>14. CASE ClosePopup
  BY <1>14 DEF ClosePopup, TypeOK
<1>15. CASE UNCHANGED vars
  BY <1>15 DEF vars, TypeOK
<1> QED BY <1>2, <1>3, <1>4, <1>6, <1>7, <1>8, <1>9, <1>10, <1>11, <1>12, <1>13, <1>14, <1>15
        DEF Next, Continuation

--------------------------------------------------------------------------------
(***************************************************************************)
(* What a step makes of the searches: every one of them is one of before,  *)
(* changed as its action says.  The other lemmas go by this one.           *)
(***************************************************************************)
LEMMA CancelledTask ==
  ASSUME TypeOK, NEW u \in Cancelled
  PROVE  \E t \in tasks : /\ t.st # "delay" /\ u.live = FALSE
                          /\ u.st = t.st /\ u.left = t.left /\ u.asked = t.asked /\ u.done = t.done
BY DEF Cancelled, TypeOK, Task

LEMMA TypedTask ==
  ASSUME TypeOK, NEW q \in Texts, Type(q), NEW u \in tasks'
  PROVE  \/ u \in Cancelled
         \/ u.st = "delay" /\ u.left = Debounce /\ u.asked = Short /\ u.done = 0
BY DEF Type

LEMMA ElapsedTask ==
  ASSUME TypeOK, NEW t \in tasks, DelayElapses(t), NEW u \in tasks'
  PROVE  \/ u \in tasks /\ u # t
         \/ u.st = "ready" /\ u.asked = t.asked /\ u.done = t.done /\ u.live = t.live
BY DEF DelayElapses, TypeOK, Task

LEMMA QueriedTask ==
  ASSUME NEW t \in Task, Querying(t), NEW u \in tasks'
  PROVE  \/ u \in tasks /\ u.key # t.key
         \/ u.st = "db" /\ u.left = latency /\ u.asked = t.asked /\ u.done = t.done /\ u.live = t.live
BY DEF Querying, Task

LEMMA StartedTask ==
  ASSUME TypeOK, NEW t \in tasks, StartSearch(t), NEW u \in tasks'
  PROVE  \/ u \in tasks /\ u.key # t.key
         \/ u.st = "db" /\ u.left = latency /\ u.asked = query /\ u.done = t.done /\ u.live = t.live
<1> DEFINE a == [t EXCEPT !.asked = query]
<1>1. a \in Task /\ a.asked = query /\ a.key = t.key /\ a.done = t.done /\ a.live = t.live
  BY DEF TypeOK, Task
<1>2. Querying(a)
  BY DEF StartSearch
<1> HIDE DEF a
<1> QED BY <1>1, <1>2, QueriedTask

LEMMA EndedTask ==
  ASSUME TypeOK, NEW t \in tasks, QueryEnds(t), NEW u \in tasks'
  PROVE  \/ u \in tasks /\ u # t
         \/ u.st = "ready" /\ u.asked = t.asked /\ u.done = t.done + 1 /\ u.live = t.live
BY DEF QueryEnds, TypeOK, Task

LEMMA TickedTask ==
  ASSUME TypeOK, Tick, NEW u \in tasks'
  PROVE  \E t \in tasks : /\ u = [t EXCEPT !.left = t.left - 1]
                          /\ u.st = t.st /\ u.left = t.left - 1
                          /\ u.asked = t.asked /\ u.done = t.done /\ u.live = t.live
BY DEF Tick, TypeOK, Task

--------------------------------------------------------------------------------
(***************************************************************************)
(* Counting queries.                                                       *)
(***************************************************************************)
LEMMA CountedStep ==
  ASSUME TypeOK, Counted, [Next]_vars
  PROVE  Counted'
<1> DEFINE Fine(u) == /\ u.done > 0 => u.asked # Short
                      /\ u.st = "delay" => u.done = 0
                      /\ u.st = "db" => u.done < Queries /\ u.asked # Short
<1> SUFFICES ASSUME NEW u \in tasks' PROVE Fine(u)
  BY DEF Counted
<1>1. \A t \in tasks : Fine(t) /\ t.done \in 0..Queries
  BY DEF Counted, TypeOK, Task
<1>2. Queries \in Nat \ {0}
  BY SearchAssumption
<1>3. CASE u \in tasks
  BY <1>1, <1>3
<1>4. CASE u \in Cancelled
  BY <1>1, <1>4, CancelledTask
<1>5. CASE TypeShort
  BY <1>4, <1>5 DEF TypeShort
<1>6. ASSUME NEW q \in Texts, Type(q) PROVE Fine(u)
  BY <1>4, <1>6, TypedTask
<1>7. ASSUME NEW t \in tasks, DelayElapses(t) PROVE Fine(u)
  BY <1>1, <1>7, ElapsedTask
<1>8. ASSUME NEW t \in tasks, StartSearch(t) PROVE Fine(u)
  <2>1. t.done = 0
    BY <1>1, <1>8 DEF StartSearch
  <2>2. query # Short
    BY <1>8 DEF StartSearch
  <2> QED BY <1>1, <1>2, <1>8, <2>1, <2>2, StartedTask
<1>9. ASSUME NEW t \in tasks, NextQuery(t) PROVE Fine(u)
  <2>1. t \in Task
    BY DEF TypeOK
  <2>2. t.done > 0 /\ t.done < Queries
    BY <1>2, <1>9 DEF NextQuery
  <2> QED BY <1>1, <1>9, <2>1, <2>2, QueriedTask DEF NextQuery
<1>10. ASSUME NEW t \in tasks, QueryEnds(t) PROVE Fine(u)
  <2>1. t.asked # Short
    BY <1>1, <1>10 DEF QueryEnds
  <2> QED BY <1>1, <1>10, <2>1, EndedTask
<1>11. ASSUME NEW t \in tasks, Publish(t) PROVE Fine(u)
  BY <1>3, <1>11 DEF Publish
<1>12. CASE Tick
  BY <1>1, <1>12, TickedTask
<1>13. CASE UNCHANGED tasks
  BY <1>3, <1>13
<1>14. Navigate \/ FollowLink \/ PageLoaded \/ ClosePopup \/ UNCHANGED vars => UNCHANGED tasks
  BY DEF Navigate, FollowLink, PageLoaded, ClosePopup, vars
<1> QED BY <1>5, <1>6, <1>7, <1>8, <1>9, <1>10, <1>11, <1>12, <1>13, <1>14 DEF Next, Continuation

--------------------------------------------------------------------------------
(***************************************************************************)
(* What will be shown.                                                     *)
(***************************************************************************)
LEMMA CurrentStep ==
  ASSUME TypeOK, Counted, Current, [Next]_vars
  PROVE  Current'
<1> DEFINE Good(u) == u.live => u.asked \in {Short, query'}
<1>1. CASE UNCHANGED <<query, results, searching, popup>> /\ (popup => \A u \in tasks' : Good(u)) /\ (Alive' => Alive)
  BY <1>1 DEF Current, ResultsMatchQuery
<1>2. CASE UNCHANGED <<query, results, searching, popup, tasks>> /\ (Alive' => Alive)
  BY <1>1, <1>2 DEF Current
<1>3. CASE TypeShort
  BY <1>3 DEF TypeShort, Current, ResultsMatchQuery
<1>4. ASSUME NEW q \in Texts, Type(q) PROVE Current'
  <2>1. \A u \in tasks' : Good(u)
    BY <1>4, TypedTask, CancelledTask
  <2> QED BY <1>4, <2>1 DEF Type, Current, ResultsMatchQuery
<1>5. ASSUME NEW t \in tasks, DelayElapses(t) PROVE Current'
  <2>1. popup => \A u \in tasks' : Good(u)
    BY <1>5, ElapsedTask DEF DelayElapses, Current
  <2> QED BY <1>1, <1>5, <2>1 DEF DelayElapses, Alive
<1>6. ASSUME NEW t \in tasks, StartSearch(t) PROVE Current'
  <2>1. popup => \A u \in tasks' : Good(u)
    BY <1>6, StartedTask DEF StartSearch, Querying, Current
  <2> QED BY <1>1, <1>6, <2>1 DEF StartSearch, Querying, Alive
<1>7. ASSUME NEW t \in tasks, NextQuery(t) PROVE Current'
  <2>1. t \in Task
    BY DEF TypeOK
  <2>2. popup => \A u \in tasks' : Good(u)
    BY <1>7, <2>1, QueriedTask DEF NextQuery, Querying, Current
  <2> QED BY <1>1, <1>7, <2>2 DEF NextQuery, Querying, Alive
<1>8. ASSUME NEW t \in tasks, QueryEnds(t) PROVE Current'
  <2>1. popup => \A u \in tasks' : Good(u)
    BY <1>8, EndedTask DEF QueryEnds, Current
  <2> QED BY <1>1, <1>8, <2>1 DEF QueryEnds, Alive
<1>9. ASSUME NEW t \in tasks, Publish(t) PROVE Current'
  <2>1. tasks' \subseteq tasks /\ UNCHANGED <<query, popup, fate>>
    BY <1>9 DEF Publish
  <2>2. popup => \A u \in tasks' : Good(u)
    BY <2>1 DEF Current
  <2>3. popup /\ t.live => t.asked = query
    <3>1. t.done = Queries => t.asked # Short
      BY SearchAssumption DEF Counted
    <3> QED BY <1>9, <3>1 DEF Publish, Answered, Current
  <2>4. ResultsMatchQuery'
    BY <1>9, <2>1, <2>3 DEF Publish, Current, ResultsMatchQuery, Alive
  <2> QED BY <2>1, <2>2, <2>4 DEF Current
<1>10. CASE Tick
  <2>1. popup => \A u \in tasks' : Good(u)
    BY <1>10, TickedTask DEF Tick, Current
  <2> QED BY <1>1, <1>10, <2>1 DEF Tick, Alive
<1>11. CASE Navigate
  BY <1>11 DEF Navigate, Current, ResultsMatchQuery
<1>12. CASE FollowLink
  BY <1>2, <1>12 DEF FollowLink, Alive
<1>13. CASE PageLoaded
  BY <1>2, <1>13 DEF PageLoaded, Alive
<1>14. CASE ClosePopup
  BY <1>14 DEF ClosePopup, Current, ResultsMatchQuery
<1>15. CASE UNCHANGED vars
  BY <1>2, <1>15 DEF vars, Alive
<1> QED BY <1>3, <1>4, <1>5, <1>6, <1>7, <1>8, <1>9, <1>10, <1>11, <1>12, <1>13, <1>14, <1>15
        DEF Next, Continuation

--------------------------------------------------------------------------------
(***************************************************************************)
(* Fast sessions.  Time that passes is time off every search and every     *)
(* delay alike, so the search under way stays ahead of the next one.       *)
(***************************************************************************)
Fast == Queries * latency < Debounce

LEMMA Products ==
  ASSUME NEW k \in Nat, NEW n \in Nat, NEW l \in Nat, k <= n
  PROVE  k * l \in Nat /\ k * l <= n * l
<1>1. (n - k) * l >= 0
  OBVIOUS
<1> QED BY <1>1

LEMMA NatOrder == \A x, y, z \in Nat : x <= y /\ y < z => x < z
OBVIOUS

LEMMA Limits ==
  ASSUME TypeOK
  PROVE  /\ latency \in Nat \ {0} /\ Queries \in Nat \ {0} /\ Debounce \in Nat \ {0}
         /\ \A t \in tasks : t.left \in Nat /\ t.done \in 0..Queries /\ t \in Task
BY SearchAssumption DEF TypeOK, Task

LEMMA RestBounds ==
  ASSUME TypeOK, Counted, Apart, NEW t \in tasks
  PROVE  /\ Rest(t) \in Nat
         /\ t.st # "delay" => Rest(t) <= Queries * latency
<1>1. /\ latency \in Nat /\ Queries \in Nat /\ t.left \in Nat /\ t.done \in 0..Queries
  BY Limits
<1>2. CASE t.st = "db"
  <2>1. t.done < Queries /\ t.left <= latency
    BY <1>2 DEF Counted, Apart
  <2> DEFINE k == Queries - t.done - 1
  <2>2. k \in Nat /\ k + 1 \in Nat /\ k + 1 <= Queries
    BY <1>1, <2>1
  <2>3. Rest(t) = t.left + k * latency
    BY <1>2 DEF Rest
  <2> HIDE DEF k
  <2>4. k * latency \in Nat /\ (k + 1) * latency <= Queries * latency /\ (k + 1) * latency = k * latency + latency
    BY <1>1, <2>2, Products
  <2> QED BY <1>1, <2>1, <2>3, <2>4
<1>3. CASE t.st # "db"
  <2> DEFINE k == Queries - t.done
  <2>1. k \in Nat /\ k <= Queries
    BY <1>1
  <2>2. Rest(t) = k * latency
    BY <1>3 DEF Rest
  <2> HIDE DEF k
  <2> QED BY <1>1, <2>1, <2>2, Products
<1> QED BY <1>2, <1>3

\* One search takes the place of another and has no more to do.
LEMMA ReplacedApart ==
  ASSUME TypeOK, Apart, UNCHANGED latency, fate' # "two searches",
         NEW t \in tasks, t.st # "delay", NEW r,
         \A u \in tasks' : (u \in tasks /\ u # t) \/ u = r,
         r.st = "ready" \/ (r.st = "db" /\ r.left <= latency), Rest(r) \in Nat, Rest(r) <= Rest(t), Rest(t) \in Nat
  PROVE  Apart'
<1>1. /\ \A u \in tasks' : u.st # "delay" => u = r
      /\ \A u, v \in tasks' : (u.st = "delay" <=> v.st = "delay") => u = v
  BY DEF Apart
<1>2. \A u \in tasks' : u.st = "db" => u.left <= latency'
  BY DEF Apart
<1>3. ASSUME NEW u \in tasks', NEW v \in tasks', u.st # "delay", v.st = "delay"
      PROVE  Rest(u)' < v.left
  <2>1. u = r /\ v \in tasks /\ v # t
    BY <1>1, <1>3
  <2>2. Rest(t) < v.left /\ v.left \in Nat
    BY <1>3, <2>1, Limits DEF Apart
  <2>3. Rest(u)' = Rest(r)
    BY <2>1 DEF Rest
  <2>4. Rest(r) < v.left
    BY <2>2, NatOrder, Zenon
  <2> QED BY <2>3, <2>4, Zenon
<1> QED BY <1>1, <1>2, <1>3 DEF Apart

LEMMA FewerApart ==
  ASSUME Apart, UNCHANGED latency, fate' # "two searches", tasks' \subseteq tasks
  PROVE  Apart'
<1>1. \A t : Rest(t)' = Rest(t)
  BY DEF Rest
<1> QED BY <1>1 DEF Apart

LEMMA ApartStep ==
  ASSUME TypeOK, Counted, Fast, Apart, [Next]_vars
  PROVE  Apart'
<1>1. /\ latency \in Nat \ {0} /\ Queries \in Nat \ {0} /\ Debounce \in Nat \ {0}
      /\ \A t \in tasks : t.left \in Nat /\ t.done \in 0..Queries /\ t \in Task
  BY Limits
<1>a. \A t \in tasks : t.st = "db" => t.left <= latency
  BY DEF Apart
<1>2. CASE TypeShort
  <2>1. \A u \in tasks' : u.st # "delay"
    BY <1>2, CancelledTask DEF TypeShort
  <2>2. \A u, v \in tasks' : u = v
    <3>1. \A t, u \in tasks : t.st # "delay" /\ u.st # "delay" => t = u
      BY DEF Apart
    <3> QED BY <1>2, <3>1 DEF TypeShort, Cancelled
  <2>3. \A u \in tasks' : u.st = "db" => u.left <= latency
    <3>1. tasks' = Cancelled
      BY <1>2 DEF TypeShort
    <3> QED BY <1>a, <3>1, CancelledTask
  <2>4. UNCHANGED latency /\ fate' # "two searches"
    BY <1>2 DEF TypeShort, Apart
  <2> QED BY <2>1, <2>2, <2>3, <2>4 DEF Apart
<1>3. ASSUME NEW q \in Texts, Type(q) PROVE Apart'
  <2>1. UNCHANGED latency /\ fate' # "two searches"
    BY <1>3 DEF Type, Apart
  <2>2. ASSUME NEW u \in tasks', u.st # "delay"
        PROVE  /\ u \in Cancelled
               /\ u.st = "db" => u.left <= latency
               /\ Rest(u)' \in Nat /\ Rest(u)' <= Queries * latency
    <3>1. u \in Cancelled
      BY <1>3, <2>2, TypedTask
    <3>2. PICK t \in tasks : t.st # "delay" /\ u.st = t.st /\ u.left = t.left /\ u.done = t.done
      BY <3>1, CancelledTask
    <3>3. Rest(u)' = Rest(t)
      BY <2>1, <3>2 DEF Rest
    <3>4. Rest(t) \in Nat /\ Rest(t) <= Queries * latency
      BY <3>2, RestBounds
    <3>5. u.st = "db" => u.left <= latency
      BY <3>2 DEF Apart
    <3> QED BY <3>1, <3>3, <3>4, <3>5, Zenon
  <2>3. \A u, v \in tasks' : (u.st = "delay" <=> v.st = "delay") => u = v
    <3>1. \A t, u \in tasks : t.st # "delay" /\ u.st # "delay" => t = u
      BY DEF Apart
    <3>2. \A u, v \in tasks' : u.st # "delay" /\ v.st # "delay" => u = v
      BY <2>2, <3>1 DEF Cancelled
    <3>3. \A u \in Cancelled : u.st # "delay"
      BY CancelledTask
    <3>4. \A u, v \in tasks' : u.st = "delay" /\ v.st = "delay" => u = v
      BY <1>3, <3>3 DEF Type
    <3> QED BY <3>2, <3>4
  <2>4. ASSUME NEW u \in tasks', NEW v \in tasks', u.st # "delay", v.st = "delay"
        PROVE  Rest(u)' < v.left
    <3>1. v.left = Debounce
      BY <1>3, <2>4, TypedTask, CancelledTask
    <3>2. Rest(u)' \in Nat /\ Rest(u)' <= Queries * latency
      BY <2>2, <2>4
    <3>3. Queries * latency \in Nat
      BY <1>1
    <3> QED BY <1>1, <3>1, <3>2, <3>3, NatOrder, Zenon DEF Fast
  <2>5. \A u \in tasks' : u.st = "db" => u.left <= latency'
    BY <2>1, <2>2
  <2> QED BY <2>1, <2>3, <2>4, <2>5 DEF Apart
<1>4. ASSUME NEW t \in tasks, DelayElapses(t) PROVE Apart'
  <2>1. \A u \in tasks : u.st = "delay"
    <3>1. \A u \in tasks : u.st # "delay" => Rest(u) < 0 /\ Rest(u) \in Nat
      BY <1>4, RestBounds DEF DelayElapses, Apart
    <3>2. \A x \in Nat : ~(x < 0)
      OBVIOUS
    <3> QED BY <3>1, <3>2, Zenon
  <2>2. tasks = {t}
    BY <2>1 DEF Apart
  <2>3. \A u \in tasks' : u = [t EXCEPT !.st = "ready"] /\ u.st = "ready"
    BY <1>1, <1>4, <2>2 DEF DelayElapses, Task
  <2> QED BY <1>4, <2>3 DEF DelayElapses, Apart
<1>5. ASSUME NEW t \in Task, NEW o \in tasks, o.key = t.key, o.st = "ready", t.st = "ready", t.done = o.done,
             t.done < Queries, Querying(t)
      PROVE  Apart'
  <2>1. \A u \in tasks : u.st = "delay" \/ u = o
    BY <1>5 DEF Apart
  <2>2. UNCHANGED latency /\ fate' # "two searches"
    BY <1>5, <2>1 DEF Querying, Apart
  <2> DEFINE r == [t EXCEPT !.st = "db", !.left = latency]
             k == Queries - t.done - 1
  <2>3. r.st = "db" /\ r.left = latency /\ r.done = t.done
    BY DEF Task
  <2>4. k \in Nat /\ Queries - t.done = k + 1
    BY <1>1, <1>5
  <2>5. Rest(r) = latency + k * latency /\ Rest(o) = (k + 1) * latency
    BY <1>5, <2>3, <2>4 DEF Rest
  <2>6. \A u \in tasks' : (u \in tasks /\ u # o) \/ u = r
    BY <1>5 DEF Querying
  <2> HIDE DEF r, k
  <2>7. Rest(r) \in Nat /\ Rest(r) = Rest(o) /\ Rest(r) <= Rest(o)
    BY <1>1, <2>4, <2>5
  <2>8. latency <= latency
    BY <1>1
  <2> QED BY <1>5, <2>2, <2>3, <2>6, <2>7, <2>8, ReplacedApart
<1>6. ASSUME NEW t \in tasks, StartSearch(t) PROVE Apart'
  <2> DEFINE a == [t EXCEPT !.asked = query]
  <2>1. a \in Task /\ a.key = t.key /\ a.st = t.st /\ a.done = t.done
    BY DEF TypeOK, Task
  <2>2. Querying(a) /\ t.st = "ready"
    BY <1>6 DEF StartSearch
  <2>3. t.done = 0
    BY <1>1, <1>6 DEF StartSearch, Counted
  <2> HIDE DEF a
  <2>4. a.done < Queries
    BY <1>1, <2>1, <2>3
  <2> QED BY <1>5, <2>1, <2>2, <2>4
<1>7. ASSUME NEW t \in tasks, NextQuery(t) PROVE Apart'
  <2>1. t.done < Queries /\ t \in Task
    BY <1>1, <1>7 DEF NextQuery
  <2> QED BY <1>5, <1>7, <2>1 DEF NextQuery
<1>8. ASSUME NEW t \in tasks, QueryEnds(t) PROVE Apart'
  <2> DEFINE r == [t EXCEPT !.st = "ready", !.left = 0, !.done = t.done + 1]
             k == Queries - t.done - 1
  <2>1. t.st = "db" /\ t.done < Queries /\ t.left \in Nat /\ t \in Task
    BY <1>1, <1>8 DEF QueryEnds, Counted
  <2>2. UNCHANGED latency /\ fate' # "two searches"
    BY <1>8 DEF QueryEnds, Apart
  <2>3. r.st = "ready" /\ r.done = t.done + 1
    BY <2>1 DEF Task
  <2>4. k \in Nat /\ Queries - (t.done + 1) = k
    BY <1>1, <2>1
  <2>5. Rest(r) = k * latency /\ Rest(t) = t.left + k * latency
    BY <2>1, <2>3, <2>4 DEF Rest
  <2>6. \A u \in tasks' : (u \in tasks /\ u # t) \/ u = r
    BY <1>8 DEF QueryEnds
  <2> HIDE DEF r, k
  <2>7. Rest(r) \in Nat /\ Rest(t) \in Nat /\ Rest(r) <= Rest(t)
    BY <1>1, <2>1, <2>4, <2>5, Products
  <2> QED BY <2>1, <2>2, <2>3, <2>6, <2>7, ReplacedApart
<1>9. ASSUME NEW t \in tasks, Publish(t) PROVE Apart'
  BY <1>9, FewerApart DEF Publish, Apart
<1>10. CASE Tick
  <2>1. UNCHANGED latency /\ fate' # "two searches"
    BY <1>10 DEF Tick, Apart
  <2>2. \A t \in tasks : t.st # "ready" /\ t.left > 0
    BY <1>10 DEF Tick
  <2>3. \A u, v \in tasks' : (u.st = "delay" <=> v.st = "delay") => u = v
    <3>1. ASSUME NEW u \in tasks', NEW v \in tasks', u.st = "delay" <=> v.st = "delay" PROVE u = v
      <4>1. PICK t \in tasks : u = [t EXCEPT !.left = t.left - 1] /\ u.st = t.st
        BY <1>10, TickedTask
      <4>2. PICK d \in tasks : v = [d EXCEPT !.left = d.left - 1] /\ v.st = d.st
        BY <1>10, TickedTask
      <4>3. t = d
        BY <3>1, <4>1, <4>2 DEF Apart
      <4> QED BY <4>1, <4>2, <4>3
    <3> QED BY <3>1
  <2>4. ASSUME NEW u \in tasks', u.st = "db" PROVE u.left <= latency'
    <3>1. PICK t \in tasks : u.st = t.st /\ u.left = t.left - 1
      BY <1>10, TickedTask
    <3>2. t.left <= latency /\ t.left \in Nat /\ latency \in Nat
      BY <1>1, <1>a, <2>4, <3>1, Zenon
    <3>3. \A x, y \in Nat : x <= y => x - 1 <= y
      OBVIOUS
    <3>4. t.left - 1 <= latency
      BY <3>2, <3>3, Zenon
    <3> QED BY <2>1, <3>1, <3>4, Zenon
  <2>5. ASSUME NEW u \in tasks', NEW v \in tasks', u.st # "delay", v.st = "delay"
        PROVE  Rest(u)' < v.left
    <3>1. PICK t \in tasks : u.st = t.st /\ u.left = t.left - 1 /\ u.done = t.done
      BY <1>10, TickedTask
    <3>2. PICK d \in tasks : v.st = d.st /\ v.left = d.left - 1
      BY <1>10, TickedTask
    <3>3. Rest(t) < d.left /\ t.st = "db" /\ u.st = "db"
      <4>1. t.st \in {"delay", "ready", "db"}
        BY <1>1 DEF Task
      <4> QED BY <2>2, <2>5, <3>1, <3>2, <4>1 DEF Apart
    <3> DEFINE p == (Queries - t.done - 1) * latency
    <3>4. Rest(t) = t.left + p /\ Rest(u)' = u.left + p
      BY <2>1, <3>1, <3>3 DEF Rest
    <3>5. p \in Nat
      <4>1. Queries - t.done - 1 \in Nat
        BY <1>1, <3>3 DEF Counted
      <4> QED BY <1>1, <4>1, Products
    <3>6. t.left \in Nat /\ t.left > 0 /\ d.left \in Nat
      BY <1>1, <2>2
    <3> HIDE DEF p
    <3>7. t.left + p < d.left => (t.left - 1) + p < d.left - 1
      BY <3>5, <3>6
    <3> QED BY <3>1, <3>2, <3>3, <3>4, <3>7
  <2> QED BY <2>1, <2>3, <2>4, <2>5 DEF Apart
<1>11. CASE UNCHANGED <<tasks, latency>> /\ fate' # "two searches"
  BY <1>11, FewerApart
<1>12. Navigate \/ FollowLink \/ PageLoaded \/ ClosePopup \/ UNCHANGED vars
         => UNCHANGED <<tasks, latency>> /\ fate' # "two searches"
  BY DEF Navigate, FollowLink, PageLoaded, ClosePopup, Load, vars, Apart
<1> QED BY <1>2, <1>3, <1>4, <1>6, <1>7, <1>8, <1>9, <1>10, <1>11, <1>12 DEF Next, Continuation

--------------------------------------------------------------------------------
LEMMA InitInv == Init => IInv
<1> SUFFICES ASSUME Init PROVE IInv
  OBVIOUS
<1>1. 0 \in 0..MaxTyped
  BY SearchAssumption
<1>2. TypeOK
  BY <1>1, Zenon DEF Init, TypeOK
<1>3. Counted /\ Current /\ Apart
  BY DEF Init, Counted, Current, ResultsMatchQuery, Apart
<1> QED BY <1>2, <1>3 DEF IInv

LEMMA StepInv == IInv /\ [Next]_vars => IInv'
<1> SUFFICES ASSUME IInv, [Next]_vars PROVE IInv'
  OBVIOUS
<1>1. TypeOK' /\ Counted' /\ Current'
  BY TypeStep, CountedStep, CurrentStep DEF IInv
<1>2. UNCHANGED latency
  BY DEF Next, Continuation, vars, TypeShort, Type, DelayElapses, StartSearch, NextQuery, Querying,
         QueryEnds, Publish, Tick, Navigate, FollowLink, PageLoaded, ClosePopup
<1>3. Fast => Apart'
  BY ApartStep DEF IInv, Fast
<1> QED BY <1>1, <1>2, <1>3 DEF IInv, Fast

LEMMA Invariance == Spec => []IInv
BY InitInv, StepInv, PTL DEF Spec

\* The fields, the searches under way and the page keep their types: no
\* search runs more queries than it has.
THEOREM TypeCorrect == Spec => []TypeOK
<1>1. IInv => TypeOK
  BY DEF IInv
<1> QED BY <1>1, Invariance, PTL

\* Whatever searches were overtaken, results that are shown as final are those
\* of the text in the box.
THEOREM ResultsAreOfQuery == Spec => []ResultsMatchQuery
<1>1. IInv => ResultsMatchQuery
  BY DEF IInv, Current
<1> QED BY <1>1, Invariance, PTL

\* Two searches of the box never meet in the DbContext while a whole search is
\* faster than the delay, although cancelling one does not stop it.
THEOREM SearchesStayApart == Spec => []SearchesNeverMeet
<1>1. IInv => SearchesNeverMeet
  BY DEF IInv, Apart, SearchesNeverMeet
<1> QED BY <1>1, Invariance, PTL
================================================================================
