--------------------------- MODULE DesktopLinkOutcome ---------------------------
(***************************************************************************)
(* What the panel that links a desktop promises, over the part of the      *)
(* state that the promise speaks of.  DesktopLinkPanel is the panel that   *)
(* keeps it.                                                               *)
(***************************************************************************)
VARIABLES
  status, owner,   \* the exchange: of each record
  lapsed,          \* records whose end the API's clock has passed
  due,             \* records whose end the browser's clock has passed
  panel

Those(word) == {r \in DOMAIN status : status[r] = word}

\* What the panel says of a record is so: it was consumed when the panel says
\* linked, and its device is in the list that is loaded then; it was revoked when
\* the panel says cancelled; and one of the clocks has passed its end when the
\* panel says expired.
OutcomeIsTrue ==
  /\ panel.view = "linked" =>
       /\ panel.about \in Those("consumed")
       /\ panel.inventory = "ready" => owner[panel.about] \in panel.linked
  /\ panel.view = "cancelled" => panel.about \in Those("revoked")
  /\ panel.view = "expired" => panel.about \in lapsed \cup due
=================================================================================
