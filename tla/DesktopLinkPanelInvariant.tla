----------------------- MODULE DesktopLinkPanelInvariant -----------------------
(***************************************************************************)
(* The inductive invariant of DesktopLinkPanel: what the panel says, the   *)
(* calls it waits for and the records have to do with each other.          *)
(***************************************************************************)
EXTENDS DesktopLinkPanel

Words == {"absent", "issued", "consumed", "revoked"}

PanelStates ==
  [view : {"selection_required", "idle", "invalid_input", "issuing", "ready", "unavailable", "linked",
           "cancelled", "expired", "cancel_unconfirmed"},
   exchange : Records \cup {None}, about : Records \cup {None}, device : Devices \cup {None},
   cancelling : BOOLEAN, inventory : {"loading", "ready", "unavailable"}, linked : SUBSET (Devices \cup {None})]
CallStates ==
  [pc : {"free", "sent", "answered"}, op : AllOps, record : Records \cup {None}, device : Devices \cup {None},
   result : {"none", "ready", "refused", "unavailable", "not_found"}, state : Words \cup {"none", "expired"},
   devices : SUBSET (Devices \cup {None}), awaited : BOOLEAN]

RecordsOK ==
  /\ status \in [Records -> Words] /\ owner \in [Records -> Devices \cup {None}]
  /\ lapsed \subseteq Records /\ due \subseteq Records

TypeOK == RecordsOK /\ panel \in PanelStates /\ call \in [Slots -> CallStates]

\* Nothing that was once true of a record, and that the panel may say, ceases to be.
Consumed(r, st) == r \in Records /\ st[r] = "consumed"
Revoked(r, st) == r \in Records /\ st[r] = "revoked"

\* The panel p: its token is of the record it speaks of, and what it says is so.
PanelFits(p, st, ow, ended) ==
  /\ p.exchange # None => p.about = p.exchange /\ p.view # "linked"
  /\ p.view = "linked" =>
       /\ Consumed(p.about, st)
       /\ p.inventory = "ready" => ow[p.about] \in p.linked
  /\ p.view = "cancelled" => Revoked(p.about, st)
  /\ p.view = "expired" => p.about \in ended

\* What a call may be asking for, whoever waits for it.
Addressed(c) ==
  /\ c.op = "issue" /\ c.pc = "sent" => c.device \in Devices
  /\ c.op \in {"status", "revoke"} /\ c.pc # "free" => c.record \in Records

\* An answer that the panel p waits for finds the panel where it was asked, and
\* what it says of the record is still so.
AnswerFits(c, p, st, ow, past) ==
  /\ c.op = "issue" => p.view = "issuing" /\ ~p.cancelling /\ p.exchange = None
  /\ c.op = "status" => p.exchange = c.record /\ ~p.cancelling
  /\ c.op = "revoke" => p.cancelling /\ p.about = c.record
  /\ c.pc = "answered" /\ c.result = "ready" =>
       /\ c.op = "issue" => c.record \in Records
       /\ c.op = "status" =>
            /\ c.state = "consumed" => Consumed(c.record, st)
            /\ c.state = "revoked" => Revoked(c.record, st)
            /\ c.state = "expired" => c.record \in past
       /\ c.op = "revoke" => Revoked(c.record, st)
       /\ c.op = "list" /\ p.view = "linked" => ow[p.about] \in c.devices

CallFits(c, p, st, ow, past) ==
  /\ Addressed(c)
  /\ c.awaited => c.pc # "free" /\ AnswerFits(c, p, st, ow, past)

\* A panel waits for one answer to what it submits, and for one to what it cancels.
OneEach(calls) ==
  \A s, t \in Slots :
    calls[s].awaited /\ calls[t].awaited /\ calls[s].op = calls[t].op /\ calls[s].op \in {"issue", "revoke"} => s = t

IInv ==
  /\ TypeOK
  /\ PanelFits(panel, status, owner, lapsed \cup due)
  /\ \A s \in Slots : CallFits(call[s], panel, status, owner, lapsed)
  /\ OneEach(call)
================================================================================
