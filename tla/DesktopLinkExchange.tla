-------------------------- MODULE DesktopLinkExchange --------------------------
(***************************************************************************)
(* What a one-time desktop link promises, whatever requests race for it:   *)
(* a record is issued to one owner, and is then consumed or revoked, never *)
(* both; at most one request is answered that it is linked, its owner's.   *)
(***************************************************************************)
EXTENDS Sequences

CONSTANTS Records,     \* ids of desktop link records
          Principals,  \* subject, organization and device of a request
          None         \* no owner

VARIABLES status,  \* status of each record
          owner,   \* whom it was issued to
          links    \* ghost: who was answered that it is linked, in this order

exchange == <<status, owner, links>>

Init ==
  /\ status = [r \in Records |-> "absent"]
  /\ owner = [r \in Records |-> None]
  /\ links = [r \in Records |-> <<>>]

Issue(r, p) ==
  /\ status[r] = "absent"
  /\ status' = [status EXCEPT ![r] = "issued"]
  /\ owner' = [owner EXCEPT ![r] = p]
  /\ UNCHANGED links

\* The answer to the request that consumes a record may be lost.
Consume(r, answered) ==
  /\ status[r] = "issued"
  /\ status' = [status EXCEPT ![r] = "consumed"]
  /\ links' = IF answered THEN [links EXCEPT ![r] = Append(@, owner[r])] ELSE links
  /\ UNCHANGED owner

Revoke(r) ==
  /\ status[r] = "issued"
  /\ status' = [status EXCEPT ![r] = "revoked"]
  /\ UNCHANGED <<owner, links>>

Next ==
  \E r \in Records :
    \/ \E p \in Principals : Issue(r, p)
    \/ \E answered \in BOOLEAN : Consume(r, answered)
    \/ Revoke(r)

Spec == Init /\ [][Next]_exchange
-------------------------------------------------------------------------------
\* A record is linked at most once, to its owner, and only when it was consumed.
SingleUse ==
  \A r \in Records :
    links[r] = <<>> \/ (status[r] = "consumed" /\ links[r] = <<owner[r]>>)
===============================================================================
