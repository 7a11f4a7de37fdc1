--------------------------- MODULE DesktopLinkPanel ---------------------------
(***************************************************************************)
(* The panel that links a desktop                                          *)
(* (apps/web/components/workspace-desktop-link-panel.tsx), over the        *)
(* one-time exchange that the API promises (DesktopLinkExchange).          *)
(*                                                                         *)
(* The panel issues a record and shows its token, polls its status, starts *)
(* a timer for its end, may cancel it, and lists the linked desktops.  A   *)
(* call that its effect or its panel gave up goes on without them: its     *)
(* answer finds nobody, what it asked for may still be done.  The clocks   *)
(* of the browser and of the API differ: each passes the end of a record   *)
(* in its own time.                                                        *)
(***************************************************************************)
EXTENDS DesktopLinkOutcome

CONSTANTS
  Records, Devices, None,
  Slots       \* the calls that may be under way at a time

VARIABLES
  links,      \* the exchange, with status and owner
  call
Exchange == INSTANCE DesktopLinkExchange WITH Principals <- Devices
exchange == <<status, owner, links>>
vars == <<exchange, lapsed, due, panel, call>>

Free == [pc |-> "free", op |-> "status", record |-> None, device |-> None, result |-> "none",
         state |-> "none", devices |-> {}, awaited |-> FALSE]

\* about is the record that the view speaks of, exchange the one whose token it
\* shows.
SelectionRequired == [view |-> "selection_required", exchange |-> None, about |-> None, device |-> None,
                      cancelling |-> FALSE, inventory |-> "loading", linked |-> {}]
Idle == [SelectionRequired EXCEPT !.view = "idle"]

Init ==
  /\ Exchange!Init
  /\ lapsed = {} /\ due = {}
  /\ panel = SelectionRequired
  /\ call = [s \in Slots |-> Free]
-------------------------------------------------------------------------------
(* Calls. *)

Sent(op, r, device) == [Free EXCEPT !.pc = "sent", !.op = op, !.record = r, !.device = device, !.awaited = TRUE]

\* The cleanup of an effect: the answers to its calls are not looked at.  What
\* can do nothing more is over.
Abandoned(c) == IF (c.op = "status" /\ c.pc = "answered") \/ (c.op \in {"issue", "revoke"} /\ c.pc = "sent")
                THEN [c EXCEPT !.awaited = FALSE] ELSE Free
GiveUp(ops) == [s \in Slots |-> IF call[s].op \in ops THEN Abandoned(call[s]) ELSE call[s]]
AllOps == {"issue", "status", "revoke", "list"}

\* Variant: the answer to a poll is looked at whatever happened meanwhile.
AcceptsAnything(c) == TRUE
Accepts(c) == c.awaited

\* Which of the free slots takes a call is of no interest.
Open(s) == s = CHOOSE slot \in Slots : call[slot].pc = "free"

Mount(s) ==
  /\ call[s].pc = "free" /\ Open(s)
  /\ panel' = Idle
  /\ call' = [GiveUp(AllOps) EXCEPT ![s] = Sent("list", None, None)]
  /\ UNCHANGED <<exchange, lapsed, due>>

Leave ==
  /\ panel.view # "selection_required"
  /\ panel' = SelectionRequired
  /\ call' = GiveUp(AllOps)
  /\ UNCHANGED <<exchange, lapsed, due>>
-------------------------------------------------------------------------------
(* The user. *)

Busy == panel.view = "issuing" \/ panel.cancelling

\* Another device takes the token away, and stops the polls.
ChangeDevice(d) ==
  /\ panel.view # "selection_required" /\ ~Busy /\ d # panel.device
  /\ panel' = IF panel.exchange = None THEN [panel EXCEPT !.device = d]
              ELSE [panel EXCEPT !.device = d, !.view = "idle", !.exchange = None, !.about = None]
  /\ call' = GiveUp({"status"})
  /\ UNCHANGED <<exchange, lapsed, due>>

Without(view) == [panel EXCEPT !.view = view, !.exchange = None]

\* A record that is still shown is forgotten, not revoked.
HandleSubmit(s) ==
  /\ panel.view # "selection_required" /\ ~Busy
  /\ IF panel.device = None
     THEN /\ panel' = [Without("invalid_input") EXCEPT !.about = None]
          /\ call' = GiveUp({"status"})
     ELSE /\ call[s].pc = "free" /\ Open(s)
          /\ panel' = [Without("issuing") EXCEPT !.about = None]
          /\ call' = [GiveUp({"status"}) EXCEPT ![s] = Sent("issue", None, panel.device)]
  /\ UNCHANGED <<exchange, lapsed, due>>

HandleCancel(s) ==
  /\ panel.exchange # None /\ ~Busy
  /\ call[s].pc = "free" /\ Open(s)
  /\ panel' = [panel EXCEPT !.cancelling = TRUE]
  /\ call' = [GiveUp({"status"}) EXCEPT ![s] = Sent("revoke", panel.exchange, None)]
  /\ UNCHANGED <<exchange, lapsed, due>>
-------------------------------------------------------------------------------
(* Timers and answers.  A result is refused when there was no session or no *)
(* permission, or when the body of the answer did not fit.                  *)

\* Variant: the timer belongs to the view that showed the record first.
TimerDueOnce == panel.exchange \in due /\ panel.view = "ready"
TimerDue == panel.exchange \in due

TimerFires ==
  /\ TimerDue
  /\ panel' = Without("expired")
  /\ call' = GiveUp({"status"})
  /\ UNCHANGED <<exchange, lapsed, due>>

RefreshStatus(s) ==
  /\ panel.exchange # None /\ ~panel.cancelling
  /\ call[s].pc = "free" /\ Open(s)
  /\ call' = [call EXCEPT ![s] = Sent("status", panel.exchange, None)]
  /\ UNCHANGED <<exchange, lapsed, due, panel>>

WorkspaceDesktopLinkPanelView(c, result) ==
  CASE result = "ready" -> [panel EXCEPT !.view = "ready", !.exchange = c.record, !.about = c.record]
    [] OTHER -> Without("unavailable")

\* The desktop was linked: the view says so, and the list is loaded again.
Linked == [Without("linked") EXCEPT !.inventory = "loading", !.linked = {}]

StatusView(c, result) ==
  LET mismatch == result = "ready" /\ c.device # panel.device
  IN CASE mismatch \/ result = "refused" -> Without("unavailable")
       [] ~mismatch /\ result = "ready" /\ c.state = "consumed" -> Linked
       [] ~mismatch /\ result = "ready" /\ c.state = "revoked" -> Without("cancelled")
       [] ~mismatch /\ result = "ready" /\ c.state = "expired" -> Without("expired")
       [] OTHER -> panel

\* What cannot be confirmed leaves the token where it is, unless it is over.
CancelView(c, result) ==
  LET over == [Without("cancelled") EXCEPT !.cancelling = FALSE]
  IN CASE result = "ready" -> over
       [] result = "refused" -> [over EXCEPT !.view = "unavailable"]
       [] result \in {"not_found", "unavailable"} /\ c.record \in due -> [over EXCEPT !.view = "expired"]
       [] OTHER -> [over EXCEPT !.view = "cancel_unconfirmed", !.exchange = c.record]

InventoryView(c, result) ==
  IF result = "ready" THEN [panel EXCEPT !.inventory = "ready", !.linked = c.devices]
  ELSE [panel EXCEPT !.inventory = "unavailable"]

View(c, result) ==
  CASE c.op = "issue" -> WorkspaceDesktopLinkPanelView(c, result)
    [] c.op = "status" -> StatusView(c, result)
    [] c.op = "revoke" -> CancelView(c, result)
    [] OTHER -> InventoryView(c, result)

\* The list that is loaded after a link takes the place of one under way; polls
\* end with the token they are for.
After(s, left) ==
  IF panel'.view = "linked" /\ panel.view # "linked"
  THEN [GiveUp({"status", "list"}) EXCEPT ![s] = Sent("list", None, None)]
  ELSE [IF panel'.exchange = panel.exchange THEN call ELSE GiveUp({"status"}) EXCEPT ![s] = left]

Settle(s) ==
  /\ call[s].pc = "answered"
  /\ panel' = IF Accepts(call[s]) THEN View(call[s], call[s].result) ELSE panel
  /\ call' = After(s, Free)
  /\ UNCHANGED <<exchange, lapsed, due>>

\* The fetch throws; the request may be on its way all the same.
Throws(s) ==
  /\ call[s].pc = "sent" /\ call[s].awaited
  /\ panel' = View(call[s], "unavailable")
  /\ call' = After(s, IF call[s].op \in {"issue", "revoke"} THEN [call[s] EXCEPT !.awaited = FALSE] ELSE Free)
  /\ UNCHANGED <<exchange, lapsed, due>>

Lost(s) ==
  /\ call[s].pc # "free" /\ ~call[s].awaited
  /\ call' = [call EXCEPT ![s] = Free]
  /\ UNCHANGED <<exchange, lapsed, due, panel>>
-------------------------------------------------------------------------------
(* The API. *)

Answered(s, answer) == call' = [call EXCEPT ![s] = IF call[s].awaited THEN answer ELSE Free]

\* No session, no permission or no store.
RequestFails(s) ==
  /\ call[s].pc = "sent" /\ call[s].awaited
  /\ \E result \in {"refused", "unavailable"} :
       Answered(s, [call[s] EXCEPT !.pc = "answered", !.result = result])
  /\ UNCHANGED <<exchange, lapsed, due, panel>>

\* What was done may be answered by an error, or by a body that does not fit.
Done(s, answer) ==
  \E result \in {"ready", "unavailable", "refused"} :
    Answered(s, [answer EXCEPT !.pc = "answered", !.result = result])

Issue(s, r) ==
  /\ call[s].pc = "sent" /\ call[s].op = "issue"
  /\ status[r] = "absent" /\ r = CHOOSE fresh \in Records : status[fresh] = "absent"
  /\ Exchange!Issue(r, call[s].device)
  /\ Done(s, [call[s] EXCEPT !.record = r])
  /\ UNCHANGED <<lapsed, due, panel>>

Snapshot(r) == IF status[r] = "issued" /\ r \in lapsed THEN "expired" ELSE status[r]

Inspect(s) ==
  /\ call[s].pc = "sent" /\ call[s].op = "status"
  /\ Answered(s, [call[s] EXCEPT !.pc = "answered", !.result = "ready", !.device = owner[call[s].record],
                                 !.state = Snapshot(call[s].record)])
  /\ UNCHANGED <<exchange, lapsed, due, panel>>

Revoke(s) ==
  /\ call[s].pc = "sent" /\ call[s].op = "revoke"
  /\ CASE Snapshot(call[s].record) = "issued" -> Exchange!Revoke(call[s].record) /\ Done(s, call[s])
       [] Snapshot(call[s].record) = "revoked" -> Done(s, call[s]) /\ UNCHANGED exchange
       [] OTHER -> /\ Answered(s, [call[s] EXCEPT !.pc = "answered", !.result = "not_found"])
                   /\ UNCHANGED exchange
  /\ UNCHANGED <<lapsed, due, panel>>

LatestConsumed == {owner[r] : r \in Those("consumed")}

ListLinked(s) ==
  /\ call[s].pc = "sent" /\ call[s].op = "list"
  /\ Answered(s, [call[s] EXCEPT !.pc = "answered", !.result = "ready", !.devices = LatestConsumed])
  /\ UNCHANGED <<exchange, lapsed, due, panel>>
-------------------------------------------------------------------------------
(* The desktop application and the clocks. *)

\* The API may have read its clock before the end of the record.
Consume(r) ==
  /\ Exchange!Consume(r, TRUE)
  /\ UNCHANGED <<lapsed, due, panel, call>>

Lapse(r) ==
  /\ status[r] = "issued" /\ r \notin lapsed /\ lapsed' = lapsed \cup {r}
  /\ UNCHANGED <<exchange, due, panel, call>>

Due(r) ==
  /\ r \notin due /\ (panel.exchange = r \/ \E s \in Slots : call[s].record = r)
  /\ due' = due \cup {r}
  /\ UNCHANGED <<exchange, lapsed, panel, call>>

Next ==
  \/ Leave \/ TimerFires
  \/ \E d \in Devices \cup {None} : ChangeDevice(d)
  \/ \E r \in Records : Consume(r) \/ Lapse(r) \/ Due(r)
  \/ \E s \in Slots :
       \/ Mount(s) \/ HandleSubmit(s) \/ HandleCancel(s) \/ RefreshStatus(s)
       \/ Settle(s) \/ Throws(s) \/ Lost(s)
       \/ RequestFails(s) \/ Inspect(s) \/ Revoke(s) \/ ListLinked(s)
       \/ \E r \in Records : Issue(s, r)

Spec == Init /\ [][Next]_vars

\* Time passes, timers fire, and a fetch ends: the proxy has a timer of its own.
FairSpec ==
  /\ Spec /\ WF_vars(TimerFires)
  /\ \A r \in Records : WF_vars(Due(r))
  /\ \A s \in Slots : WF_vars(Settle(s) \/ Throws(s))
-------------------------------------------------------------------------------
\* The page lets go of every token, and of its own busy state, whatever the calls
\* do: a failed cancellation, polls that are never answered, or cancellations one
\* after the other do not keep a token on the page past its end.
TokenIsCleared ==
  /\ \A r \in Records : (panel.exchange = r) ~> (panel.exchange # r)
  /\ Busy ~> ~Busy
===============================================================================
