------------------------------- MODULE Reconnect --------------------------------
(***************************************************************************)
(* ReconnectModal.razor.js: the dialog a page shows while its connection   *)
(* to the server is down, and what it does to get the connection back.     *)
(* Blazor reports its own attempts to it by events; the user's buttons and *)
(* the return to the tab start attempts of the script's own, which may     *)
(* overlap: each awaits Blazor.reconnect and, where the server no longer   *)
(* has the circuit, Blazor.resumeCircuit.                                  *)
(*                                                                         *)
(* What Blazor does is modelled from what the script takes it to do: true  *)
(* for connected, false for a server that was reached and refuses, an      *)
(* exception for one that was not reached.  The server handles a call in   *)
(* one step; its answer and what the script does with it are another,      *)
(* because nothing else runs in the browser between the two.               *)
(***************************************************************************)
EXTENDS FiniteSets

CONSTANTS Calls,  \* bound: attempts of the script's own under way at once
          NoCall

VARIABLES server,     \* whether the server can be reached
          circuit,    \* the page's circuit there: "live", "kept" or "gone"
          link,       \* whether the browser is connected to it
          auto,       \* whether Blazor itself is trying to reconnect
          modal,      \* what the dialog shows; "closed"
          listening,  \* whether a visibilitychange starts a retry
          visible,    \* whether the tab is
          call        \* the attempts: who made them, what they await, the answer

rvars == <<server, circuit, link, auto, modal, listening, visible, call>>

Call(by, at, answer) == [by |-> by, at |-> at, answer |-> answer]
Attempts ==
  {a \in [by : {"retry", "button"}, at : {"reconnect", "resume"}, answer : {"none", "yes", "no", "error"}] :
     a.by = "button" => a.at = "resume"}

ASSUME NoCallAssumption == NoCall \notin Attempts

TypeRec ==
  /\ {server, link, auto, listening, visible} \subseteq BOOLEAN
  /\ circuit \in {"live", "kept", "gone"}
  /\ modal \in {"closed", "retrying", "failed", "paused", "resume-failed"}
  /\ call \in [Calls -> Attempts \cup {NoCall}]

\* A page that has just been loaded.
Loaded == /\ circuit' = "live" /\ link' = TRUE /\ auto' = FALSE
          /\ modal' = "closed" /\ listening' = FALSE /\ call' = [c \in Calls |-> NoCall]

InitRec ==
  /\ server = TRUE /\ circuit = "live" /\ link = TRUE /\ auto = FALSE
  /\ modal = "closed" /\ listening = FALSE /\ visible = TRUE
  /\ call = [c \in Calls |-> NoCall]

(***************************************************************************)
(* The server and the network.                                             *)
(***************************************************************************)
Answered(c, a) == call[c] # NoCall /\ call[c].answer = a

\* What is under way when the network fails comes back as an exception.
Cut == [c \in Calls |-> IF call[c] = NoCall THEN NoCall ELSE [call[c] EXCEPT !.answer = "error"]]

\* The server is out of reach for a while: the event "show" opens the dialog.
\* A server that restarts has no circuits any more.
ConnectionLost ==
  /\ server /\ server' = FALSE
  /\ link' = FALSE /\ call' = Cut
  /\ auto' = (auto \/ link) /\ modal' = IF link THEN "retrying" ELSE modal
  /\ circuit' \in {circuit, "gone"}
  /\ UNCHANGED <<listening, visible>>

\* While nobody is connected the server drops the circuit, and its state later.
Evict ==
  /\ ~link /\ circuit # "gone" /\ ~\E c \in Calls : Answered(c, "yes")
  /\ circuit' \in {"kept", "gone"} \ {circuit}
  /\ UNCHANGED <<server, link, auto, modal, listening, visible, call>>

ServerReturns ==
  /\ ~server /\ server' = TRUE
  /\ UNCHANGED <<circuit, link, auto, modal, listening, visible, call>>

\* The server pauses the session and keeps its state.
Pause ==
  /\ link /\ link' = FALSE /\ circuit' = "kept" /\ modal' = "paused"
  /\ call' = Cut
  /\ UNCHANGED <<server, auto, listening, visible>>

(***************************************************************************)
(* The script: handleReconnectStateChanged, retry and resume.              *)
(***************************************************************************)
\* Mutant: the event "hide" does not close the dialog.
AttachedBehind == link' = TRUE /\ auto' = FALSE /\ UNCHANGED modal

\* Blazor is connected again, and says so by the event "hide".
Attached == link' = TRUE /\ auto' = FALSE /\ modal' = "closed"

\* The event "failed": Blazor gives up, and a return to the tab tries again.
AutoFails ==
  /\ auto /\ auto' = FALSE /\ modal' = "failed" /\ listening' = TRUE
  /\ UNCHANGED <<server, circuit, link, visible, call>>

AutoConnects ==
  /\ auto /\ server /\ circuit \in {"live", "kept"} /\ circuit' = "live"
  /\ Attached
  /\ UNCHANGED <<server, listening, visible, call>>

\* The event "rejected": the page is reloaded.
AutoRejected ==
  /\ auto /\ server /\ circuit # "live"
  /\ Loaded
  /\ UNCHANGED <<server, visible>>

StartRetry ==
  \E c \in Calls : /\ call[c] = NoCall
                   /\ call' = [call EXCEPT ![c] = Call("retry", "reconnect", "none")]
                   /\ listening' = FALSE

PressRetry ==
  /\ modal = "failed" /\ visible /\ StartRetry
  /\ UNCHANGED <<server, circuit, link, auto, modal, visible>>

PressResume ==
  /\ modal \in {"paused", "resume-failed"} /\ visible
  /\ \E c \in Calls : call[c] = NoCall /\ call' = [call EXCEPT ![c] = Call("button", "resume", "none")]
  /\ UNCHANGED <<server, circuit, link, auto, modal, listening, visible>>

LeaveTab ==
  /\ visible /\ visible' = FALSE
  /\ UNCHANGED <<server, circuit, link, auto, modal, listening, call>>

\* retryWhenDocumentBecomesVisible.
ReturnToTab ==
  /\ ~visible /\ visible' = TRUE
  /\ IF listening THEN StartRetry ELSE UNCHANGED <<listening, call>>
  /\ UNCHANGED <<server, circuit, link, auto, modal>>

\* The server, or the network, decides a call.
Answer(c) ==
  /\ call[c] # NoCall /\ call[c].answer = "none"
  /\ LET again == link \/ (server /\ circuit = "live")
         anew  == server /\ circuit = "kept" /\ call[c].at = "resume"
     IN /\ call' = [call EXCEPT ![c].answer = IF again \/ anew THEN "yes"
                                              ELSE IF server THEN "no" ELSE "error"]
        /\ circuit' = IF anew THEN "live" ELSE circuit
  /\ UNCHANGED <<server, link, auto, modal, listening, visible>>

Over(c) == call' = [call EXCEPT ![c] = NoCall]

Succeeds(c) ==
  /\ Answered(c, "yes") /\ Over(c) /\ Attached
  /\ UNCHANGED <<server, circuit, listening, visible>>

\* Mutant: the page is reloaded before it was tried to resume.
RefusedAtOnce(c) ==
  /\ Answered(c, "no") /\ Loaded
  /\ UNCHANGED <<server, visible>>

\* A circuit that is not there may be resumed; only then is the page reloaded.
Refused(c) ==
  /\ Answered(c, "no")
  /\ \/ /\ call[c].at = "reconnect"
        /\ call' = [call EXCEPT ![c] = Call("retry", "resume", "none")]
        /\ UNCHANGED <<circuit, link, auto, modal, listening>>
     \/ call[c].at = "resume" /\ Loaded
  /\ UNCHANGED <<server, visible>>

\* Mutant: an exception in a retry is swallowed.
FailsQuietly(c) ==
  /\ Answered(c, "error") /\ Over(c)
  /\ modal' = IF call[c].by = "button" /\ modal = "paused" THEN "resume-failed" ELSE modal
  /\ UNCHANGED <<server, circuit, link, auto, listening, visible>>

Fails(c) ==
  /\ Answered(c, "error") /\ Over(c)
  /\ IF call[c].by = "retry" THEN listening' = TRUE /\ UNCHANGED modal
     ELSE modal' = (IF modal = "paused" THEN "resume-failed" ELSE modal) /\ UNCHANGED listening
  /\ UNCHANGED <<server, circuit, link, auto, visible>>

NextRec ==
  \/ ConnectionLost \/ Evict \/ ServerReturns \/ Pause
  \/ AutoFails \/ AutoConnects \/ AutoRejected
  \/ PressRetry \/ PressResume \/ LeaveTab \/ ReturnToTab
  \/ \E c \in Calls : Answer(c) \/ Succeeds(c) \/ Refused(c) \/ Fails(c)

================================================================================
