------------------------ MODULE WorkspacePanelsInvariant ------------------------
(***************************************************************************)
(* The inductive invariant of WorkspacePanels: what the panel, the calls   *)
(* it waits for and what the API holds have to do with each other.         *)
(***************************************************************************)
EXTENDS WorkspacePanels

Statuses == {"ready", "authentication_required", "forbidden", "invalid_response", "unavailable"}
Shown == Values \cup {Malformed, None}

CallStates ==
  [pc : {"free", "sent", "answered"}, op : {"load", "bootstrap", "save"}, org : Organizations \cup {None},
   value : Shown, manager : BOOLEAN, status : Statuses \cup {"none"}, awaited : BOOLEAN]
PanelStates ==
  [org : Organizations \cup {None}, status : Statuses \cup {"unselected", "loading"}, value : Shown,
   manage : BOOLEAN, save : {"idle", "saving", "saved", "failed"}, from : SUBSET Organizations]
DirectoryStates ==
  [view : {"loading", "ready", "signed_out", "unavailable"}, listed : SUBSET Organizations,
   pc : {"idle", "asked", "answered"}, answer : Statuses \cup {"none"}, found : SUBSET Organizations]
StoredStates == [value : Values, awaited : BOOLEAN]

TypeOK ==
  /\ kind \in Kinds
  /\ directory \in DirectoryStates /\ selected \in Organizations \cup {None}
  /\ panel \in PanelStates
  /\ call \in [Slots -> CallStates]
  /\ stored \in [Organizations -> StoredStates]

\* What the API holds for o is v, or was not written by a save that a panel waited for.
Holds(st, o, v) == v = st[o].value \/ ~st[o].awaited

\* The call c of the panel p.
CallFits(c, p, st) ==
  /\ c.pc # "free" => c.org \in Organizations
  /\ c.pc = "answered" => c.status \in Statuses
  /\ c.awaited => c.pc # "free" /\ c.org = p.org
  /\ c.awaited /\ c.op = "load" => p.status = "loading" /\ p.save = "idle"
  /\ c.awaited /\ c.op = "save" => p.save = "saving"
  /\ c.op = "save" /\ c.pc = "sent" => c.value \in Values
  /\ c.op = "save" /\ c.awaited /\ c.pc = "answered" /\ c.status = "ready" => Holds(st, c.org, c.value)

PanelFits(p, st) ==
  /\ p.status # "unselected" => p.org \in Organizations
  /\ p.from \subseteq {p.org}
  /\ p.save = "saved" => p.org \in Organizations /\ Holds(st, p.org, p.value)

\* A panel waits for one answer to what it loads, and for one to what it saves.
OneEach(calls) ==
  \A s, t \in Slots :
    calls[s].awaited /\ calls[t].awaited /\ calls[s].op = calls[t].op /\ calls[s].op \in {"load", "save"} => s = t

SelectionConfirmed ==
  directory.view = "ready" => selected = None \/ selected \in directory.listed

IInv ==
  /\ TypeOK
  /\ panel.org = AuthorizedOrganizationId(directory.view, selected)
  /\ SelectionConfirmed
  /\ PanelFits(panel, stored)
  /\ \A s \in Slots : CallFits(call[s], panel, stored)
  /\ OneEach(call)
=================================================================================
