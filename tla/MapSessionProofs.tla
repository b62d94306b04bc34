---------------------------- MODULE MapSessionProofs ----------------------------
(***************************************************************************)
(* MapSession is safe for any number of overlapping attempts, any servers  *)
(* and any number of clicks whose save is outstanding.                     *)
(*                                                                         *)
(* That a reload ends no circuit in use does not follow from what a reload *)
(* looks at, the answer of its own attempt: by the time it is handled,     *)
(* another attempt may have connected.  It follows from what an answer     *)
(* still tells about the circuit, whatever the others did (RecInv).        *)
(***************************************************************************)
EXTENDS MapSession, TLAPS

\* Only a live circuit is connected, and the dialog says so; a yes means that
\* the circuit is live until it is handled, and a no to a resume that there
\* is none to come back to.
RecInv ==
  /\ link => circuit = "live"
  /\ auto => ~link
  /\ DialogTellsTruth
  /\ \A c \in Calls : Answered(c, "yes") => circuit = "live"
  /\ \A c \in Calls : Answered(c, "no") /\ call[c].at = "resume" => circuit = "gone"

\* Until the settings are loaded or the user has clicked, all is selected; from
\* then on what FilterKept says holds whether or not the page is connected.
FilterInv ==
  /\ loading /\ ~hurried => sel = list
  /\ ~loading /\ saves = 0 /\ ~hurried /\ stored # Null =>
       IF Valid # {} THEN sel = Valid ELSE sel \in {list, {}}

IInv == TypeOK /\ RecInv /\ FilterInv

--------------------------------------------------------------------------------
(***************************************************************************)
(* The dialog.                                                             *)
(***************************************************************************)
LEMMA CutAll ==
  ASSUME TypeRec, call' = Cut
  PROVE  /\ call' \in [Calls -> Attempts \cup {NoCall}]
         /\ \A c \in Calls : ~Answered(c, "yes")' /\ ~Answered(c, "no")'
<1>1. ASSUME NEW c \in Calls
      PROVE  /\ call'[c] \in Attempts \cup {NoCall}
             /\ call'[c] # NoCall => call'[c].answer = "error"
  <2>1. CASE call[c] = NoCall
    BY <2>1 DEF Cut
  <2>2. CASE call[c] # NoCall
    <3>1. call[c] \in Attempts /\ call'[c] = [call[c] EXCEPT !.answer = "error"]
      BY <2>2 DEF TypeRec, Cut
    <3> QED BY <3>1 DEF Attempts
  <2> QED BY <2>1, <2>2
<1> QED BY <1>1 DEF Cut, Answered

LEMMA RetryStarts ==
  ASSUME TypeRec, StartRetry
  PROVE  /\ call' \in [Calls -> Attempts \cup {NoCall}] /\ listening' \in BOOLEAN
         /\ \A c \in Calls : call'[c] = call[c] \/ call'[c].answer = "none"
<1>1. Call("retry", "reconnect", "none") \in Attempts
  BY DEF Call, Attempts
<1>2. PICK c \in Calls : call' = [call EXCEPT ![c] = Call("retry", "reconnect", "none")]
  BY DEF StartRetry
<1>3. Call("retry", "reconnect", "none").answer = "none"
  BY DEF Call
<1> QED BY <1>1, <1>2, <1>3 DEF TypeRec, StartRetry

LEMMA ReloadInv ==
  ASSUME Loaded
  PROVE  RecInv'
BY DEF Loaded, RecInv, DialogTellsTruth, Answered

LEMMA ReloadTypes ==
  ASSUME TypeRec, Loaded, UNCHANGED <<server, visible>>
  PROVE  TypeRec'
BY DEF TypeRec, Loaded

LEMMA DialogStep ==
  ASSUME TypeRec, RecInv, NextRec
  PROVE  TypeRec' /\ RecInv'
<1> USE DEF RecInv, DialogTellsTruth
<1>1. CASE ConnectionLost
  BY <1>1, CutAll DEF ConnectionLost, TypeRec, Answered
<1>2. CASE Evict
  BY <1>2 DEF Evict, TypeRec, Answered
<1>3. CASE ServerReturns
  BY <1>3 DEF ServerReturns, TypeRec, Answered
<1>4. CASE Pause
  BY <1>4, CutAll DEF Pause, TypeRec, Answered
<1>5. CASE AutoFails
  BY <1>5 DEF AutoFails, TypeRec, Answered
<1>6. CASE AutoConnects
  <2>1. TypeRec'
    BY <1>6 DEF AutoConnects, Attached, TypeRec
  <2>2. \A c \in Calls : Answered(c, "no") /\ call[c].at = "resume" => FALSE
    BY <1>6 DEF AutoConnects
  <2> QED BY <1>6, <2>1, <2>2 DEF AutoConnects, Attached, Answered
<1>7. CASE AutoRejected
  BY <1>7, ReloadInv, ReloadTypes DEF AutoRejected
<1>8. CASE PressRetry
  BY <1>8, RetryStarts DEF PressRetry, TypeRec, Answered
<1>9. CASE PressResume
  <2>1. Call("button", "resume", "none") \in Attempts
    BY DEF Call, Attempts
  <2>2. PICK c \in Calls : call' = [call EXCEPT ![c] = Call("button", "resume", "none")]
    BY <1>9 DEF PressResume
  <2> QED BY <1>9, <2>1, <2>2 DEF PressResume, TypeRec, Answered, Call
<1>10. CASE LeaveTab
  BY <1>10 DEF LeaveTab, TypeRec, Answered
<1>11. CASE ReturnToTab
  BY <1>11, RetryStarts DEF ReturnToTab, TypeRec, Answered
<1>12. ASSUME NEW c \in Calls, Answer(c)
       PROVE  TypeRec' /\ RecInv'
  <2> DEFINE again == link \/ (server /\ circuit = "live")
             anew  == server /\ circuit = "kept" /\ call[c].at = "resume"
             a     == IF again \/ anew THEN "yes" ELSE IF server THEN "no" ELSE "error"
  <2>1. /\ call[c] \in Attempts /\ call' = [call EXCEPT ![c].answer = a]
        /\ circuit' = IF anew THEN "live" ELSE circuit
        /\ UNCHANGED <<server, link, auto, modal, listening, visible>>
    BY <1>12 DEF Answer, TypeRec
  <2>2. a \in {"yes", "no", "error"}
    OBVIOUS
  <2>3. [call[c] EXCEPT !.answer = a] \in Attempts
    BY <2>1, <2>2 DEF Attempts
  <2>4. /\ call'[c].answer = a /\ call'[c].at = call[c].at
        /\ \A d \in Calls \ {c} : call'[d] = call[d]
    BY <2>1, <2>2 DEF TypeRec, Attempts
  <2>5. TypeRec'
    BY <2>1, <2>3 DEF TypeRec
  <2>6. anew => ~link
    OBVIOUS
  <2>7. \A d \in Calls : Answered(d, "yes")' => circuit' = "live"
    BY <2>1, <2>4 DEF Answered
  <2>8. \A d \in Calls : Answered(d, "no")' /\ call'[d].at = "resume" => circuit' = "gone"
    BY <2>1, <2>4 DEF Answered, TypeRec
  <2> QED BY <2>1, <2>5, <2>6, <2>7, <2>8
<1>13. ASSUME NEW c \in Calls, Succeeds(c)
       PROVE  TypeRec' /\ RecInv'
  BY <1>13 DEF Succeeds, Over, Attached, TypeRec, Answered
<1>14. ASSUME NEW c \in Calls, Refused(c)
       PROVE  TypeRec' /\ RecInv'
  <2>1. CASE call[c].at = "reconnect" /\ call' = [call EXCEPT ![c] = Call("retry", "resume", "none")]
             /\ UNCHANGED <<circuit, link, auto, modal, listening, server, visible>>
    <3>1. Call("retry", "resume", "none") \in Attempts
      BY DEF Call, Attempts
    <3> QED BY <2>1, <3>1 DEF TypeRec, Answered, Call
  <2>2. CASE Loaded /\ UNCHANGED <<server, visible>>
    BY <2>2, ReloadInv, ReloadTypes
  <2> QED BY <1>14, <2>1, <2>2 DEF Refused
<1>15. ASSUME NEW c \in Calls, Fails(c)
       PROVE  TypeRec' /\ RecInv'
  BY <1>15 DEF Fails, Over, TypeRec, Answered
<1> QED BY <1>1, <1>2, <1>3, <1>4, <1>5, <1>6, <1>7, <1>8, <1>9, <1>10, <1>11,
           <1>12, <1>13, <1>14, <1>15 DEF NextRec

LEMMA DialogStutters ==
  ASSUME TypeRec, RecInv, UNCHANGED rvars
  PROVE  TypeRec' /\ RecInv'
BY DEF rvars, TypeRec, RecInv, DialogTellsTruth, Answered

--------------------------------------------------------------------------------
(***************************************************************************)
(* The page.                                                               *)
(***************************************************************************)
\* What TypeOK says of the page's variables.
TypePage ==
  /\ list \in Lists /\ sel \in SUBSET list
  /\ {loading, hurried} \subseteq BOOLEAN /\ saves \in 0..MaxSaves
  /\ stored \in (SUBSET Servers) \cup {Null}

LEMMA NoneOutstanding == 0 \in 0..MaxSaves
BY SessionAssumption

LEMMA OpenStep ==
  ASSUME TypePage, NEW all \in Lists, Open(all)
  PROVE  TypePage' /\ FilterInv'
<1>1. TypePage'
  BY NoneOutstanding, Zenon DEF TypePage, Open
<1>2. FilterInv'
  BY DEF Open, FilterInv
<1> QED BY <1>1, <1>2

LEMMA PageStutters ==
  ASSUME TypePage, FilterInv, UNCHANGED pvars
  PROVE  TypePage' /\ FilterInv'
BY DEF pvars, TypePage, FilterInv, Valid

LEMMA LoadStep ==
  ASSUME TypePage, FilterInv, LoadSettings
  PROVE  TypePage' /\ FilterInv'
<1>1. TypePage'
  BY DEF TypePage, LoadSettings, Valid
<1>2. FilterInv'
  BY DEF TypePage, FilterInv, LoadSettings, Valid
<1> QED BY <1>1, <1>2

LEMMA ClickStep ==
  ASSUME TypePage, FilterInv, NEW new \in SUBSET list, Click(new)
  PROVE  TypePage' /\ FilterInv'
<1>1. saves' \in 1..MaxSaves
  BY SessionAssumption DEF TypePage, Click
<1>2. TypePage'
  BY <1>1 DEF TypePage, Click
<1>3. FilterInv'
  BY <1>1 DEF TypePage, FilterInv, Click
<1> QED BY <1>2, <1>3

LEMMA SaveStep ==
  ASSUME TypePage, FilterInv, SaveSettings
  PROVE  TypePage' /\ FilterInv'
<1>1. saves' \in 0..MaxSaves
  BY SessionAssumption DEF TypePage, SaveSettings
<1>2. sel \subseteq Servers
  BY SessionAssumption DEF TypePage
<1>3. TypePage'
  BY <1>1, <1>2 DEF TypePage, SaveSettings
<1>4. Valid' = sel
  BY DEF TypePage, SaveSettings, Valid
<1>5. FilterInv'
  BY <1>4 DEF TypePage, FilterInv, SaveSettings
<1> QED BY <1>3, <1>5

--------------------------------------------------------------------------------
LEMMA InitInv == Init => IInv
<1> SUFFICES ASSUME Init PROVE IInv
  OBVIOUS
<1>1. TypeRec /\ RecInv
  BY DEF Init, InitRec, TypeRec, RecInv, DialogTellsTruth, Answered
<1>2. TypePage
  BY NoneOutstanding, Zenon DEF Init, TypePage
<1>3. FilterInv
  BY DEF Init, FilterInv
<1> QED BY <1>1, <1>2, <1>3 DEF IInv, TypeOK, TypePage

LEMMA StepInv == IInv /\ [Next]_vars => IInv'
<1> SUFFICES ASSUME IInv, [Next]_vars PROVE IInv'
  OBVIOUS
<1>0. TypeRec /\ RecInv /\ TypePage /\ FilterInv
  BY DEF IInv, TypeOK, TypePage
<1> SUFFICES TypeRec' /\ RecInv' /\ TypePage' /\ FilterInv'
  BY DEF IInv, TypeOK, TypePage
<1>1. CASE Dialog
  <2>1. TypeRec' /\ RecInv'
    BY <1>0, <1>1, DialogStep DEF Dialog
  <2>2. TypePage' /\ FilterInv'
    BY <1>0, <1>1, OpenStep, PageStutters DEF Dialog
  <2> QED BY <2>1, <2>2
<1>2. CASE UserReloads
  BY <1>0, <1>2, ReloadInv, ReloadTypes, OpenStep DEF UserReloads
<1>3. CASE LoadSettings
  BY <1>0, <1>3, LoadStep, DialogStutters DEF LoadSettings
<1>4. CASE SaveSettings
  BY <1>0, <1>4, SaveStep, DialogStutters DEF SaveSettings
<1>5. ASSUME NEW new \in SUBSET list, Click(new)
      PROVE  TypeRec' /\ RecInv' /\ TypePage' /\ FilterInv'
  BY <1>0, <1>5, ClickStep, DialogStutters DEF Click
<1>6. CASE SelectAll
  BY <1>5, <1>6 DEF SelectAll
<1>7. CASE DeselectAll
  BY <1>5, <1>7 DEF DeselectAll
<1>8. ASSUME NEW s \in Servers, ToggleServer(s)
      PROVE  TypeRec' /\ RecInv' /\ TypePage' /\ FilterInv'
  BY <1>0, <1>5, <1>8 DEF ToggleServer, TypePage
<1>9. CASE UNCHANGED vars
  BY <1>0, <1>9, DialogStutters, PageStutters DEF vars
<1> QED BY <1>1, <1>2, <1>3, <1>4, <1>6, <1>7, <1>8, <1>9 DEF Next

LEMMA Invariance == Spec => []IInv
BY InitInv, StepInv, PTL DEF Spec

\* However attempts overlap and connections break, every variable keeps its
\* type; what is selected is among the servers the page found.
THEOREM TypeCorrect == Spec => []TypeOK
<1>1. IInv => TypeOK
  BY DEF IInv
<1> QED BY <1>1, Invariance, PTL

\* The dialog is open exactly while the page is not connected.
THEOREM DialogIsTrue == Spec => []DialogTellsTruth
<1>1. IInv => DialogTellsTruth
  BY DEF IInv, RecInv
<1> QED BY <1>1, Invariance, PTL

\* What was saved last is what the page shows, but for the two cases FilterKept
\* names.
THEOREM FilterIsKept == Spec => []FilterKept
<1>1. IInv => FilterKept
  BY DEF IInv, FilterInv, FilterKept
<1> QED BY <1>1, Invariance, PTL

\* The dialog reloads no page whose circuit is in use.
THEOREM ReloadsAreDue == Spec => NoReloadInUse
<1>1. IInv /\ [Next]_vars => [Reloads => ~(link /\ circuit = "live")]_vars
  <2> SUFFICES ASSUME IInv, Reloads, link, circuit = "live" PROVE FALSE
    OBVIOUS
  <2>1. TypeRec /\ RecInv
    BY DEF IInv, TypeOK
  <2>2. ~AutoRejected
    BY <2>1 DEF RecInv, AutoRejected
  <2>3. PICK c \in Calls : Refused(c)
    BY <2>2 DEF Reloads
  <2>4. call[c].at # "resume"
    BY <2>1, <2>3 DEF RecInv, Refused
  <2>5. call'[c] = Call("retry", "resume", "none")
    BY <2>1, <2>3, <2>4 DEF Refused, TypeRec
  <2>6. Call("retry", "resume", "none") # NoCall
    BY NoCallAssumption DEF Call, Attempts
  <2> QED BY <2>5, <2>6 DEF Reloads, Loaded
<1> QED BY <1>1, Invariance, PTL DEF Spec, NoReloadInUse
================================================================================
