------------------------------- MODULE MapSession -------------------------------
(***************************************************************************)
(* The connections map while connections break: the page's filter lives in *)
(* the circuit, the last one saved in the browser's localStorage.  Every   *)
(* click changes the filter first and saves it once the map has been       *)
(* redrawn; the page reads the saved one when it opens, which it does      *)
(* again in every new circuit: after a reload, the user's or the dialog's, *)
(* and after a resume, for the page marks none of its state as persistent. *)
(* JavaScript calls of a circuit need the connection.                      *)
(***************************************************************************)
EXTENDS Reconnect, Naturals

CONSTANTS Servers,
          Lists,    \* what a new page may find: other users delete servers
          MaxSaves, \* bound: clicks whose filter is still to be saved
          Null

ASSUME SessionAssumption == Lists \subseteq SUBSET Servers /\ MaxSaves \in Nat

VARIABLES list,    \* the servers the page found
          sel,     \* _selectedServerIds
          loading, \* whether the saved settings are awaited
          saves,   \* handlers that have yet to save
          stored,  \* localStorage: the saved selection or Null
          hurried  \* whether the user clicked while the settings loaded

pvars == <<list, sel, loading, saves, stored, hurried>>
vars == <<rvars, pvars>>

\* A new circuit opens the page: all its servers are selected.
Open(all) ==
  /\ list' = all /\ sel' = all /\ loading' = TRUE /\ saves' = 0 /\ hurried' = FALSE
  /\ UNCHANGED stored

Init ==
  /\ InitRec
  /\ list \in Lists /\ sel = list /\ loading = TRUE /\ saves = 0
  /\ stored = Null /\ hurried = FALSE

\* Mutant: servers that are gone by now stay selected.
ValidAll == stored

Valid == stored \cap list

\* LoadSettingsAsync.
LoadSettings ==
  /\ link /\ loading /\ loading' = FALSE
  /\ sel' = IF stored # Null /\ stored # {} /\ Valid # {} THEN Valid ELSE sel
  /\ UNCHANGED <<rvars, list, saves, stored, hurried>>

\* SelectAll, DeselectAll and ToggleServer, up to the redrawing.
Click(new) ==
  /\ link /\ saves < MaxSaves
  /\ sel' = new /\ saves' = saves + 1 /\ hurried' = (hurried \/ loading)
  /\ UNCHANGED <<rvars, list, loading, stored>>

SelectAll == Click(list)
DeselectAll == Click({})
ToggleServer(s) == s \in list /\ Click(IF s \in sel THEN sel \ {s} ELSE sel \cup {s})

\* Mutant: an empty selection is not worth saving.
SaveSomething ==
  /\ link /\ saves > 0 /\ saves' = saves - 1
  /\ stored' = IF sel = {} THEN stored ELSE sel
  /\ UNCHANGED <<rvars, list, sel, loading, hurried>>

\* SaveSettingsAsync, with what is selected by now.
SaveSettings ==
  /\ link /\ saves > 0 /\ saves' = saves - 1 /\ stored' = sel
  /\ UNCHANGED <<rvars, list, sel, loading, hurried>>

UserReloads ==
  /\ server /\ Loaded /\ UNCHANGED <<server, visible>>
  /\ \E all \in Lists : Open(all)

\* The dialog's steps; a circuit that comes to be is a new one.
Dialog ==
  /\ NextRec
  /\ IF circuit # "live" /\ circuit' = "live" THEN \E all \in Lists : Open(all)
     ELSE UNCHANGED pvars

Next ==
  \/ Dialog \/ UserReloads
  \/ LoadSettings \/ SaveSettings
  \/ SelectAll \/ DeselectAll \/ \E s \in Servers : ToggleServer(s)

\* The browser gets to every answer and Blazor to an end of its attempts; the
\* user comes and goes, and presses Resume where nothing else is offered.
Fairness ==
  /\ \A c \in Calls : WF_rvars(Answer(c) \/ Succeeds(c) \/ Refused(c) \/ Fails(c))
  /\ WF_rvars(AutoFails \/ AutoConnects \/ AutoRejected)
  /\ WF_rvars(LeaveTab) /\ WF_rvars(ReturnToTab) /\ SF_rvars(PressResume)

Spec == Init /\ [][Next]_vars /\ Fairness

--------------------------------------------------------------------------------
\* The shapes of the variables; what is selected is on the page's list.
TypeOK ==
  /\ TypeRec
  /\ list \in Lists /\ sel \in SUBSET list
  /\ {loading, hurried} \subseteq BOOLEAN /\ saves \in 0..MaxSaves
  /\ stored \in (SUBSET Servers) \cup {Null}

\* The dialog is open exactly while the page is not connected, however the
\* attempts of Blazor, of the buttons and of the tab's return overlap.
DialogTellsTruth == link <=> modal = "closed"

Reloads == Loaded /\ (AutoRejected \/ \E c \in Calls : Refused(c))

\* No late answer of one attempt reloads a page that another attempt has
\* connected again: a reload by the dialog ends no circuit that is in use.
NoReloadInUse == [][Reloads => ~(link /\ circuit = "live")]_vars

\* Once the server stays in reach, the page does not stay disconnected: some
\* attempt is always under way, or the return to the tab starts one, or the
\* dialog offers to resume.
Recovers == <>[]server => []<>link

\* Between the user's actions, and whatever circuits were lost in between,
\* the page shows the filter that was saved last, as far as its servers still
\* exist.  Not so after saving an empty one, which loading takes for none,
\* and after clicking while the settings were loading, which they undo.
FilterKept ==
  link /\ ~loading /\ saves = 0 /\ ~hurried /\ stored # Null =>
    IF Valid # {} THEN sel = Valid ELSE sel \in {list, {}}
================================================================================
