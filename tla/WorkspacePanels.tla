---------------------------- MODULE WorkspacePanels ----------------------------
(***************************************************************************)
(* The workspace page (apps/web/app/page.tsx and apps/web/components): the *)
(* directory of the user's organizations, the selection of one, and the    *)
(* panels that load, edit and save the selected organization's data        *)
(* through the clients of apps/web/lib.                                    *)
(*                                                                         *)
(* Panels share nothing but the selection, so the module follows one of    *)
(* them, of any kind.  Its key is the organization: another selection      *)
(* mounts a new one, and answers to calls of the old one find nobody.  The *)
(* calls themselves go on, and a save that the page no longer waits for    *)
(* may still reach the API.                                                *)
(***************************************************************************)
EXTENDS WorkspacePage, FiniteSets

CONSTANTS
  Slots,       \* the calls that may be under way at a time
  Values,      \* valid texts and settings, or the two statuses of a member
  Malformed    \* a text that the clients and the API refuse

VARIABLES
  kind,        \* of the panel
  call         \* the calls to the API
vars == <<kind, directory, selected, panel, call, stored>>

Kinds == {"overview", "team", "organization", "profile", "preferences"}
Free == [pc |-> "free", op |-> "load", org |-> None, value |-> None, manager |-> FALSE,
         status |-> "none", awaited |-> FALSE]
-------------------------------------------------------------------------------
(* The page. *)

LoadingDirectory == [view |-> "loading", listed |-> {}, pc |-> "asked", answer |-> "none", found |-> {}]

\* Nothing is shown before the first answer of the directory.
WorkspacePage == [directory |-> LoadingDirectory, selected |-> None]

WorkspaceSessionState(answer) ==
  CASE answer = "ready" -> "ready"
    [] answer = "authentication_required" -> "signed_out"
    [] OTHER -> "unavailable"

RemainsAuthorized(listed, organization) == organization = None \/ organization \in listed

Selectable(organization) == organization \in directory.listed /\ organization # selected

\* A call that the page no longer waits for: a read might as well be over.
Abandoned(c) == IF c.op = "save" THEN [c EXCEPT !.awaited = FALSE] ELSE Free

\* A panel of an organization asks for its data, and two kinds of panels for
\* what the user may do there; the calls of the one before are not awaited.
Calls(organization) ==
  IF organization = None THEN {}
  ELSE {"load"} \cup IF kind \in {"team", "organization"} THEN {"bootstrap"} ELSE {}

Fresh(organization) ==
  [org |-> organization, status |-> IF organization = None THEN "unselected" ELSE "loading",
   value |-> None, manage |-> FALSE, save |-> "idle", from |-> {}]

Mount(organization) ==
  \E slot \in [Calls(organization) -> Slots] :
    /\ \A op, other \in Calls(organization) : slot[op] = slot[other] => op = other
    /\ \A op \in Calls(organization) : call[slot[op]].pc = "free"
    /\ panel' = Fresh(organization)
    /\ call' = [s \in Slots |->
         IF \E op \in Calls(organization) : slot[op] = s
         THEN [Free EXCEPT !.pc = "sent", !.org = organization, !.awaited = TRUE,
                           !.op = CHOOSE op \in Calls(organization) : slot[op] = s]
         ELSE Abandoned(call[s])]

Render(view, organization) ==
  IF AuthorizedOrganizationId(view, organization) = panel.org THEN UNCHANGED <<panel, call>>
  ELSE Mount(AuthorizedOrganizationId(view, organization))

Init ==
  /\ kind \in Kinds
  /\ directory = WorkspacePage.directory /\ selected = WorkspacePage.selected
  /\ panel = Fresh(None)
  /\ call = [s \in Slots |-> Free]
  /\ stored \in [Organizations -> [value : Values, awaited : {FALSE}]]

Refresh ==
  /\ directory.view # "loading"
  /\ directory' = LoadingDirectory
  /\ Render("loading", selected)
  /\ UNCHANGED <<kind, selected, stored>>

Select(o) ==
  /\ Selectable(o)
  /\ selected' = o
  /\ Render(directory.view, o)
  /\ UNCHANGED <<kind, directory, stored>>

\* The answer of the directory decides on the session, the list and the selection.
DirectorySettles ==
  LET view == WorkspaceSessionState(directory.answer)
      kept == IF view = "ready" /\ RemainsAuthorized(directory.found, selected) THEN selected ELSE None
  IN /\ directory.pc = "answered"
     /\ directory' = [view |-> view, listed |-> IF view = "ready" THEN directory.found ELSE {},
                      pc |-> "idle", answer |-> "none", found |-> {}]
     /\ selected' = kept
     /\ Render(view, kept)
     /\ UNCHANGED <<kind, stored>>

\* Signing in and out leave the page and load it again.
Reload ==
  /\ directory' = WorkspacePage.directory /\ selected' = WorkspacePage.selected
  /\ Render("loading", None)
  /\ UNCHANGED <<kind, stored>>
-------------------------------------------------------------------------------
(* The clients. *)

\* Sessions end and memberships change at any time: the API answers as it may.
\* A body that does not fit, or is another organization's, is no response.
ParseResponse(http) ==
  CASE http = "401" -> {"authentication_required"}
    [] http = "403" -> {"forbidden"}
    [] http = "200" -> {"ready", "invalid_response"}
    [] OTHER -> {"unavailable"}

Failures == (UNION {ParseResponse(http) : http \in {"200", "401", "403", "503"}}) \ {"ready"}
Failed == {[status |-> f, value |-> None, manager |-> FALSE] : f \in Failures}
Answer(v) == Failed \cup {[status |-> "ready", value |-> v, manager |-> FALSE]}

\* The directory client knows of no forbidden directory.
RequestWorkspaceDirectory ==
  {[status |-> f, listed |-> {}] : f \in Failures \ {"forbidden"}}
    \cup {[status |-> "ready", listed |-> active] : active \in SUBSET Organizations}
RequestWorkspaceBootstrap == Failed \cup {[status |-> "ready", value |-> None, manager |-> m] : m \in BOOLEAN}
RequestWorkspaceTeam(o) == Answer(stored[o].value)
RequestWorkspaceOrganizationProfile(o) == Answer(stored[o].value)
RequestWorkspaceProfile(o) == Answer(stored[o].value)
RequestWorkspaceNotificationPreferences(o) == Answer(stored[o].value)

Request(op, o) ==
  IF op = "bootstrap" \/ kind = "overview" THEN RequestWorkspaceBootstrap
  ELSE CASE kind = "team" -> RequestWorkspaceTeam(o)
         [] kind = "organization" -> RequestWorkspaceOrganizationProfile(o)
         [] kind = "profile" -> RequestWorkspaceProfile(o)
         [] OTHER -> RequestWorkspaceNotificationPreferences(o)

\* What an update is answered, and whether it wrote: an error may be the answer
\* to what was written.  A member who has the status already is not changed.
Written(v) == {[answer |-> a, wrote |-> TRUE] :
                 a \in {b \in Answer(v) : b.status \in {"ready", "invalid_response", "unavailable"}}}
Refused == [answer : Failed, wrote : {FALSE}]

UpdateWorkspaceTeamMemberStatus(o, v) == Refused \cup IF stored[o].value = v THEN {} ELSE Written(v)
UpdateWorkspaceOrganizationProfile(v) == Refused \cup Written(v)
UpdateWorkspaceProfile(v) == Refused \cup Written(v)
UpdateWorkspaceNotificationPreferences(v) == Refused \cup Written(v)

Update(o, v) ==
  CASE kind = "team" -> UpdateWorkspaceTeamMemberStatus(o, v)
    [] kind = "organization" -> UpdateWorkspaceOrganizationProfile(v)
    [] kind = "profile" -> UpdateWorkspaceProfile(v)
    [] OTHER -> UpdateWorkspaceNotificationPreferences(v)

\* The drafts that are sent: the others are refused before.
ValidateProfile(v) == v # Malformed
-------------------------------------------------------------------------------
(* What a panel does with an answer. *)

WorkspaceOverviewView(status, o) == [panel EXCEPT !.status = status, !.from = @ \cup {o}]

WorkspaceTeamPanelView(status, v, o) ==
  [panel EXCEPT !.status = status, !.value = IF status = "ready" THEN v ELSE None, !.from = @ \cup {o}]

FormLoaded(status, v, o) ==
  IF status = "ready" THEN [panel EXCEPT !.status = "ready", !.value = v, !.from = @ \cup {o}]
  ELSE [panel EXCEPT !.status = status]

Loaded(status, v, o) ==
  CASE kind = "overview" -> WorkspaceOverviewView(status, o)
    [] kind = "team" -> WorkspaceTeamPanelView(status, v, o)
    [] OTHER -> FormLoaded(status, v, o)

Bootstrapped(status, manager, o) ==
  [panel EXCEPT !.manage = status = "ready" /\ manager, !.from = @ \cup {o}]

\* The organization's form stays when a save fails, unless it was refused; the
\* forms of the user give way to the failure.
TeamSaved(status, v, o) ==
  IF status = "ready" THEN [panel EXCEPT !.value = v, !.save = "saved", !.from = @ \cup {o}]
  ELSE [panel EXCEPT !.save = "failed"]

OrganizationProfileSaved(status, v, o) ==
  IF status = "ready" THEN [panel EXCEPT !.value = v, !.save = "saved", !.from = @ \cup {o}]
  ELSE [panel EXCEPT !.save = "failed",
                     !.manage = @ /\ status \notin {"authentication_required", "forbidden"}]

ProfileSaved(status, v, o) ==
  IF status = "ready" THEN [panel EXCEPT !.value = v, !.save = "saved", !.from = @ \cup {o}]
  ELSE [panel EXCEPT !.save = "failed", !.status = status]

NotificationPreferencesSaved(status, v, o) ==
  IF status = "ready" THEN [panel EXCEPT !.value = v, !.save = "saved", !.from = @ \cup {o}]
  ELSE [panel EXCEPT !.save = "failed", !.status = status]

Saved(status, v, o) ==
  CASE kind = "team" -> TeamSaved(status, v, o)
    [] kind = "organization" -> OrganizationProfileSaved(status, v, o)
    [] kind = "profile" -> ProfileSaved(status, v, o)
    [] OTHER -> NotificationPreferencesSaved(status, v, o)

Shows(op, status, v, manager, o) ==
  panel' = CASE op = "load" -> Loaded(status, v, o)
             [] op = "bootstrap" -> Bootstrapped(status, manager, o)
             [] OTHER -> Saved(status, v, o)

\* The panel that made the call is still there, and still that organization's.
\* Variant: nobody asks.
AcceptsAnything(c) == TRUE
Accepts(c) == c.awaited

Settle(s) ==
  LET c == call[s]
  IN /\ c.pc = "answered"
     /\ IF Accepts(c) THEN Shows(c.op, c.status, c.value, c.manager, c.org) ELSE UNCHANGED panel
     /\ call' = [call EXCEPT ![s] = Free]
     /\ UNCHANGED <<kind, directory, selected, stored>>

\* The fetch throws; the request may be on its way all the same.
Throws(s) ==
  /\ call[s].pc = "sent" /\ call[s].awaited
  /\ Shows(call[s].op, "unavailable", None, FALSE, call[s].org)
  /\ call' = [call EXCEPT ![s] = Abandoned(call[s])]
  /\ UNCHANGED <<kind, directory, selected, stored>>

Lost(s) ==
  /\ call[s].pc = "sent" /\ ~call[s].awaited
  /\ call' = [call EXCEPT ![s] = Free]
  /\ UNCHANGED <<kind, directory, selected, panel, stored>>
-------------------------------------------------------------------------------
(* The user. *)

Form == panel.status = "ready" /\ panel.value # None
\* Variant: fields are not disabled while a save is under way.
EditableAlways ==
  /\ Form
  /\ kind \in {"profile", "preferences", "organization"}
  /\ kind = "organization" => panel.manage
Editable ==
  /\ Form /\ panel.save # "saving"
  /\ kind \in {"profile", "preferences", "organization"}
  /\ kind = "organization" => panel.manage

\* A change of a field takes the message of the last save away.
Edit(v) ==
  /\ Editable /\ v # panel.value
  /\ v = Malformed => kind # "preferences"
  /\ panel' = [panel EXCEPT !.value = v, !.save = "idle"]
  /\ UNCHANGED <<kind, directory, selected, call, stored>>

Send(s, v) ==
  /\ call[s].pc = "free"
  /\ panel' = [panel EXCEPT !.save = "saving"]
  /\ call' = [call EXCEPT ![s] = [Free EXCEPT !.pc = "sent", !.op = "save", !.org = panel.org,
                                    !.value = v, !.awaited = TRUE]]
  /\ UNCHANGED <<kind, directory, selected, stored>>

\* The other status of the member whose row is shown.
HandleStatusChange(s, v) ==
  /\ kind = "team" /\ Form /\ panel.manage /\ panel.save # "saving"
  /\ v # panel.value
  /\ Send(s, v)

HandleSubmit(s) ==
  /\ Editable /\ ValidateProfile(panel.value)
  /\ Send(s, panel.value)

\* The client refuses a draft, and the panel shows it as a response that did
\* not fit.
HandleSubmitMalformed ==
  /\ Editable /\ ~ValidateProfile(panel.value)
  /\ panel' = Saved("invalid_response", panel.value, panel.org)
  /\ UNCHANGED <<kind, directory, selected, call, stored>>
-------------------------------------------------------------------------------
(* The API, and other pages. *)

Answered(c, answer) ==
  [c EXCEPT !.pc = "answered", !.status = answer.status, !.value = answer.value, !.manager = answer.manager]

ServeDirectory ==
  /\ directory.pc = "asked"
  /\ \E answer \in RequestWorkspaceDirectory :
       directory' = [directory EXCEPT !.pc = "answered", !.answer = answer.status, !.found = answer.listed]
  /\ UNCHANGED <<kind, selected, panel, call, stored>>

ServeRead(s) ==
  /\ call[s].pc = "sent" /\ call[s].op # "save"
  /\ \E answer \in Request(call[s].op, call[s].org) : call' = [call EXCEPT ![s] = Answered(call[s], answer)]
  /\ UNCHANGED <<kind, directory, selected, panel, stored>>

ServeSave(s) ==
  LET c == call[s]
  IN /\ c.pc = "sent" /\ c.op = "save"
     /\ \E w \in Update(c.org, c.value) :
          /\ call' = [call EXCEPT ![s] = Answered(c, w.answer)]
          /\ stored' = IF w.wrote THEN [stored EXCEPT ![c.org] = [value |-> c.value, awaited |-> c.awaited]]
                       ELSE stored
     /\ UNCHANGED <<kind, directory, selected, panel>>

Elsewhere(o, v) ==
  /\ stored' = [stored EXCEPT ![o] = [value |-> v, awaited |-> FALSE]]
  /\ UNCHANGED <<kind, directory, selected, panel, call>>

Next ==
  \/ Refresh \/ DirectorySettles \/ Reload \/ HandleSubmitMalformed \/ ServeDirectory
  \/ \E o \in Organizations : Select(o)
  \/ \E o \in Organizations, v \in Values : Elsewhere(o, v)
  \/ \E v \in Values \cup {Malformed} : Edit(v)
  \/ \E s \in Slots :
       \/ Settle(s) \/ Throws(s) \/ Lost(s) \/ HandleSubmit(s) \/ ServeRead(s) \/ ServeSave(s)
       \/ \E v \in Values : HandleStatusChange(s, v)

Spec == Init /\ [][Next]_vars
===============================================================================
