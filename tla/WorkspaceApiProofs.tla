-------------------------- MODULE WorkspaceApiProofs --------------------------
(***************************************************************************)
(* Authorization by a membership that was read earlier, for every number   *)
(* of subjects, organizations and requests under way: proofs for           *)
(* WorkspaceApi.  At the end, the page over that API: proofs for           *)
(* WorkspacePanels, for every number of organizations, values and calls.   *)
(*                                                                         *)
(* What a request read may be stale, but one thing about it is not: a      *)
(* membership that allows to manage the team is never that of an ordinary  *)
(* member, so no update takes it away.  The other way round, a request     *)
(* barred when it arrived reads a membership that is not active, unless it *)
(* was reinstated, which lifts the bar.                                    *)
(*                                                                         *)
(* The page: a call that is awaited was made for the organization of the   *)
(* panel, which is the selected one; at most one save is awaited, and what *)
(* it stored is still there when its answer comes, unless a save that a    *)
(* panel had given up wrote after it.                                      *)
(***************************************************************************)
EXTENDS WorkspaceApi, WorkspacePage, TLAPS

Statuses == {"active", "invited", "suspended"}
Memberships == [status : Statuses, roles : SUBSET STRING, permissions : SUBSET STRING]

Names == Values \cup {None}
Bodies ==
  Values \cup {Default} \cup [org : Organizations, name : Names]
    \cup [subject : Subjects, name : Names] \cup [permissions : SUBSET STRING]

RequestStates ==
  [pc : {"idle", "received", "resolved"},
   kind : ReadKinds \cup WriteKinds \cup {"none"},
   subject : Subjects \cup {None},
   org : Organizations \cup {None},
   target : Subjects \cup {None},
   value : Values \cup {"active", "suspended", None},
   member : Memberships \cup {None},
   barred : BOOLEAN,
   answer : Refused \cup {"ok", "none"},
   body : SUBSET Bodies]

TypeOK ==
  /\ pool \in {"none", "open", "closed"}
  /\ membership \in [Keys -> Memberships \cup {None}]
  /\ preferences \in [Keys -> Values \cup {None}]
  /\ profile \in [Keys -> Values \cup {None}]
  /\ organization \in [Organizations -> Values \cup {None}]
  /\ request \in [Requests -> RequestStates]

Active(row) == row # None /\ row.status = "active"

\* What holds of a request q, whatever ran since it arrived.
Sound(q, rows) ==
  /\ q.pc = "idle" /\ q.barred => q.answer \in Refused
  /\ q.pc # "idle" => q.org \in Organizations
  /\ q.pc # "idle" /\ q.kind = "putStatus" =>
       q.subject \in Subjects /\ q.target \in Subjects /\ q.value \in {"active", "suspended"}
  /\ q.pc # "idle" /\ q.kind \in WriteKinds \ {"putStatus"} => q.subject \in Subjects /\ q.value \in Values
  /\ q.pc = "received" /\ q.barred =>
       q.subject \in Subjects /\ q.kind # "listWorkspaces" /\ ~Active(rows[<<q.org, q.subject>>])
  /\ q.pc = "resolved" =>
       /\ q.subject \in Subjects /\ q.member \in Memberships /\ q.member # None
       /\ q.barred => q.member.status # "active"
       /\ Holds(q.member, "team.manage") => Holds(rows[<<q.org, q.subject>>], "team.manage")

IInv == TypeOK /\ \A r \in Requests : Sound(request[r], membership)
-------------------------------------------------------------------------------
LEMMA IdleState == Idle \in RequestStates
  BY DEF Idle, RequestStates

\* Rows that are neither taken from a manager nor made active leave every
\* request sound.
LEMMA Become ==
  ASSUME IInv, membership' = membership,
         NEW r \in Requests, NEW q \in RequestStates, Sound(q, membership),
         request' = [request EXCEPT ![r] = q]
  PROVE  request' \in [Requests -> RequestStates] /\ \A x \in Requests : Sound(request'[x], membership')
  <1> USE DEF IInv, TypeOK
  <1>1. request' \in [Requests -> RequestStates]
    OBVIOUS
  <1>2. ASSUME NEW x \in Requests PROVE Sound(request'[x], membership')
    <2>1. request'[x] = IF x = r THEN q ELSE request[x]
      OBVIOUS
    <2>2. Sound(request[x], membership)
      OBVIOUS
    <2> QED
      BY <2>1, <2>2
  <1> QED
    BY <1>1, <1>2

LEMMA AnswerKeeps ==
  ASSUME IInv, membership' = membership, NEW r \in Requests,
         NEW answer \in Refused \cup {"ok"}, request[r].barred => answer \in Refused, Answered(r, answer)
  PROVE  request' \in [Requests -> RequestStates] /\ \A x \in Requests : Sound(request'[x], membership')
  <1> DEFINE q == [Idle EXCEPT !.barred = request[r].barred, !.answer = answer]
  <1>1. request[r] \in RequestStates /\ request[r].barred \in BOOLEAN
    BY DEF IInv, TypeOK, RequestStates
  <1>2. q \in RequestStates /\ q.pc = "idle" /\ q.barred = request[r].barred /\ q.answer = answer
    BY <1>1 DEF Idle, RequestStates
  <1>3. Sound(q, membership)
    BY <1>2 DEF Sound
  <1>4. request' = [request EXCEPT ![r] = q]
    BY DEF Answered
  <1> HIDE DEF q
  <1> QED
    BY <1>2, <1>3, <1>4, Become

LEMMA ReadKeeps ==
  ASSUME IInv, NEW r \in Requests, NEW body \in SUBSET Bodies, ~request[r].barred, Reads(r, body)
  PROVE  request' \in [Requests -> RequestStates] /\ \A x \in Requests : Sound(request'[x], membership')
  <1> DEFINE q == [Idle EXCEPT !.barred = request[r].barred, !.answer = "ok", !.body = body]
  <1>1. request[r] \in RequestStates /\ request[r].barred \in BOOLEAN
    BY DEF IInv, TypeOK, RequestStates
  <1>2. q \in RequestStates /\ q.pc = "idle" /\ q.barred = request[r].barred
    BY <1>1 DEF Idle, RequestStates
  <1>3. Sound(q, membership)
    BY <1>2 DEF Sound
  <1>4. request' = [request EXCEPT ![r] = q] /\ membership' = membership
    BY DEF Reads, tables
  <1> HIDE DEF q
  <1> QED
    BY <1>2, <1>3, <1>4, Become

\* A request that is authorized is not barred.
LEMMA AuthorizedIsFree ==
  ASSUME IInv, NEW r \in Requests, NEW kind, Authorized(r, kind)
  PROVE  /\ ~request[r].barred /\ request[r].kind = kind
         /\ request[r].org \in Organizations /\ request[r].subject \in Subjects
         /\ request[r].member \in Memberships /\ request[r].member # None
         /\ request[r].member.status = "active" /\ Permission(kind) \in request[r].member.permissions
  <1>1. Sound(request[r], membership)
    BY DEF IInv
  <1> QED
    BY <1>1 DEF Sound, Authorized, AuthorizeTenantAccess
-------------------------------------------------------------------------------
(* One lemma for each kind of step. *)

LEMMA ArriveKeeps ==
  ASSUME IInv, NEW r \in Requests,
         NEW kind \in ReadKinds \cup WriteKinds, NEW s \in Subjects \cup {None}, NEW o \in Organizations,
         NEW target \in Subjects \cup {None}, NEW value \in Values \cup {"active", "suspended", None},
         kind \in WriteKinds => s \in Subjects,
         kind = "putStatus" => target \in Subjects /\ value \in {"active", "suspended"},
         kind \in WriteKinds \ {"putStatus"} => value \in Values,
         Arrive(r, kind, s, o, target, value)
  PROVE  IInv'
  <1> DEFINE barred == s # None /\ kind # "listWorkspaces"
                       /\ ~(membership[<<o, s>>] # None /\ membership[<<o, s>>].status = "active")
             q == [pc |-> "received", kind |-> kind, subject |-> s, org |-> o, target |-> target, value |-> value,
                   member |-> None, answer |-> "none", body |-> {}, barred |-> barred]
  <1>1. request' = [request EXCEPT ![r] = q]
    BY DEF Arrive
  <1>2. UNCHANGED <<pool, membership, preferences, profile, organization>>
    BY DEF Arrive, tables
  <1>3. barred \in BOOLEAN /\ (barred => s \in Subjects /\ kind # "listWorkspaces" /\ ~Active(membership[<<o, s>>]))
    BY DEF Active
  <1> HIDE DEF barred
  <1>4. q \in RequestStates
    BY <1>3 DEF RequestStates
  <1>5. Sound(q, membership)
    BY <1>3 DEF Sound, WriteKinds
  <1> HIDE DEF q
  <1>6. request' \in [Requests -> RequestStates] /\ \A x \in Requests : Sound(request'[x], membership')
    BY <1>1, <1>2, <1>4, <1>5, Become
  <1> QED
    BY <1>2, <1>6 DEF IInv, TypeOK

LEMMA ContextKeeps ==
  ASSUME IInv, NEW r \in Requests, NEW kinds, NEW failure \in Refused, Context(r, kinds, failure)
  PROVE  IInv'
  <1>1. UNCHANGED <<pool, membership, preferences, profile, organization>>
    BY DEF Context, tables
  <1>2. request[r] \in RequestStates /\ Sound(request[r], membership) /\ request[r].pc = "received"
    BY DEF IInv, TypeOK, Context
  <1>3. request' \in [Requests -> RequestStates] /\ \A x \in Requests : Sound(request'[x], membership')
    <2> DEFINE row == membership[<<request[r].org, request[r].subject>>]
               q == [request[r] EXCEPT !.pc = "resolved", !.member = row]
    <2>1. CASE \E answer \in Refused : Answered(r, answer)
      BY <1>1, <2>1, AnswerKeeps
    <2>2. CASE request[r].subject # None /\ row # None /\ request' = [request EXCEPT ![r] = q]
      <3>1. request[r].subject \in Subjects /\ request[r].org \in Organizations
        BY <1>2, <2>2 DEF RequestStates, Sound
      <3>2. row \in Memberships
        BY <2>2, <3>1 DEF IInv, TypeOK, Keys
      <3>3. request[r].barred => row.status # "active"
        BY <1>2, <2>2 DEF Sound, Active
      <3> HIDE DEF row
      <3>4. q \in RequestStates
        BY <1>2, <3>2 DEF RequestStates
      <3>5. /\ q.pc = "resolved" /\ q.member = row /\ q.kind = request[r].kind /\ q.subject = request[r].subject
            /\ q.org = request[r].org /\ q.target = request[r].target /\ q.value = request[r].value
            /\ q.barred = request[r].barred
        BY <1>2 DEF RequestStates
      <3>6. row = membership[<<q.org, q.subject>>]
        BY <3>5 DEF row
      <3> HIDE DEF q
      <3>7. Sound(q, membership)
        BY <1>2, <2>2, <3>1, <3>2, <3>3, <3>5, <3>6 DEF Sound
      <3> QED
        BY <1>1, <2>2, <3>4, <3>7, Become
    <2> QED
      BY <2>1, <2>2 DEF Context, ResolveMembership, Refused
  <1> QED
    BY <1>1, <1>3 DEF IInv, TypeOK

\* A refusal.
LEMMA FailureKeeps ==
  ASSUME IInv, NEW r \in Requests, NEW answer \in Refused, Fails(r, answer), UNCHANGED pool
  PROVE  IInv'
  <1>1. UNCHANGED <<pool, membership, preferences, profile, organization>> /\ Answered(r, answer)
    BY DEF Fails, tables
  <1>2. request' \in [Requests -> RequestStates] /\ \A x \in Requests : Sound(request'[x], membership')
    BY <1>1, AnswerKeeps
  <1> QED
    BY <1>1, <1>2 DEF IInv, TypeOK

LEMMA ReadAnswerKeeps ==
  ASSUME IInv, NEW r \in Requests, NEW body \in SUBSET Bodies, ~request[r].barred, Reads(r, body), UNCHANGED pool
  PROVE  IInv'
  <1>1. UNCHANGED <<pool, membership, preferences, profile, organization>>
    BY DEF Reads, tables
  <1>2. request' \in [Requests -> RequestStates] /\ \A x \in Requests : Sound(request'[x], membership')
    BY ReadKeeps
  <1> QED
    BY <1>1, <1>2 DEF IInv, TypeOK

LEMMA ListWorkspacesKeeps ==
  ASSUME IInv, NEW r \in Requests, ListWorkspaces(r)
  PROVE  IInv'
  <1>1. CASE \E answer \in Refused : Fails(r, answer)
    BY <1>1, FailureKeeps DEF ListWorkspaces
  <1>2. CASE Reads(r, ListForPrincipal(request[r].subject))
    <2>1. \A o \in Organizations : Named(organization[o]) \in Names
      BY DEF IInv, TypeOK, Named, Names
    <2>2. ListForPrincipal(request[r].subject) \in SUBSET Bodies
      <3>1. \A o \in Organizations : [org |-> o, name |-> Named(organization[o])] \in Bodies
        BY <2>1 DEF Bodies
      <3> QED
        BY <3>1 DEF ListForPrincipal
    <2>3. Sound(request[r], membership)
      BY DEF IInv
    <2>4. ~request[r].barred
      BY <2>3 DEF Sound, ListWorkspaces
    <2> QED
      BY <1>2, <2>2, <2>4, ReadAnswerKeeps DEF ListWorkspaces
  <1> QED
    BY <1>1, <1>2 DEF ListWorkspaces, Refused

LEMMA ReadsKeep ==
  ASSUME IInv, NEW r \in Requests,
         GetBootstrap(r) \/ GetTeam(r) \/ GetPreferences(r) \/ GetProfile(r) \/ GetOrganizationProfile(r)
  PROVE  IInv'
  <1>1. ~request[r].barred /\ request[r].org \in Organizations /\ request[r].subject \in Subjects
        /\ request[r].member \in Memberships /\ UNCHANGED pool
    BY AuthorizedIsFree
       DEF GetBootstrap, GetTeam, GetPreferences, GetProfile, GetOrganizationProfile, Authorized
  <1> DEFINE o == request[r].org
             s == request[r].subject
  <1>2. /\ SelectPreferences(s, o) \in Values \cup {None} /\ SelectProfile(s, o) \in Values \cup {None}
        /\ SelectOrganization(o) \in Values \cup {None}
    BY <1>1 DEF IInv, TypeOK, Keys, SelectPreferences, PreferencesKey, SelectProfile, ProfileKey,
       SelectOrganization, OrganizationKey
  <1>3. CASE GetBootstrap(r)
    <2>1. {[permissions |-> request[r].member.permissions]} \in SUBSET Bodies
      BY <1>1 DEF Bodies, Memberships
    <2> QED
      BY <1>1, <1>3, <2>1, ReadAnswerKeeps DEF GetBootstrap
  <1>4. CASE GetTeam(r)
    <2>1. \A t \in Subjects : Named(profile[<<o, t>>]) \in Names
      BY <1>1 DEF IInv, TypeOK, Keys, Named, Names
    <2>2. ListByOrganization(o) \in SUBSET Bodies
      <3>1. \A t \in Subjects : [subject |-> t, name |-> Named(profile[<<o, t>>])] \in Bodies
        BY <2>1 DEF Bodies
      <3> QED
        BY <3>1 DEF ListByOrganization
    <2> QED
      BY <1>1, <1>4, <2>2, ReadAnswerKeeps DEF GetTeam
  <1>5. CASE GetPreferences(r)
    <2>1. {LoadPreferences(s, o)} \in SUBSET Bodies
      BY <1>2 DEF LoadPreferences, Bodies
    <2> QED
      BY <1>1, <1>5, <2>1, ReadAnswerKeeps DEF GetPreferences
  <1>6. CASE GetProfile(r)
    <2>1. {LoadProfile(s, o)} \in SUBSET Bodies
      BY <1>2 DEF LoadProfile, Bodies
    <2> QED
      BY <1>1, <1>6, <2>1, ReadAnswerKeeps DEF GetProfile
  <1>7. CASE GetOrganizationProfile(r)
    <2>1. {LoadOrganizationProfile(o)} \in SUBSET Bodies
      BY <1>2 DEF LoadOrganizationProfile, Bodies
    <2> QED
      BY <1>1, <1>7, <2>1, ReadAnswerKeeps DEF GetOrganizationProfile
  <1> QED
    BY <1>3, <1>4, <1>5, <1>6, <1>7

LEMMA CommittedKeeps ==
  ASSUME IInv, NEW r \in Requests, ~request[r].barred, Committed(r), UNCHANGED membership
  PROVE  request' \in [Requests -> RequestStates] /\ \A x \in Requests : Sound(request'[x], membership')
  BY AnswerKeeps DEF Committed, Refused

LEMMA WritesKeep ==
  ASSUME IInv, NEW r \in Requests, PutPreferences(r) \/ PutProfile(r) \/ PutOrganizationProfile(r)
  PROVE  IInv'
  <1>1. /\ ~request[r].barred /\ request[r].org \in Organizations /\ request[r].subject \in Subjects
        /\ request[r].kind \in WriteKinds \ {"putStatus"} /\ request[r].pc = "resolved" /\ UNCHANGED pool
    BY AuthorizedIsFree
       DEF PutPreferences, PutProfile, PutOrganizationProfile, Authorized, WriteKinds
  <1>2. request[r].value \in Values
    <2>1. Sound(request[r], membership)
      BY DEF IInv
    <2> QED
      BY <1>1, <2>1 DEF Sound
  <1>3. Committed(r) /\ UNCHANGED membership
    BY
       DEF PutPreferences, PutProfile, PutOrganizationProfile, UpsertPreferences, UpsertProfile,
           UpsertOrganization
  <1>4. request' \in [Requests -> RequestStates] /\ \A x \in Requests : Sound(request'[x], membership')
    BY <1>1, <1>3, CommittedKeeps
  <1>5. /\ preferences' \in [Keys -> Values \cup {None}] /\ profile' \in [Keys -> Values \cup {None}]
        /\ organization' \in [Organizations -> Values \cup {None}]
    BY <1>2
       DEF IInv, TypeOK, PutPreferences, PutProfile, PutOrganizationProfile, UpsertPreferences,
           UpsertProfile,
       UpsertOrganization
  <1> QED
    BY <1>1, <1>3, <1>4, <1>5 DEF IInv, TypeOK
-------------------------------------------------------------------------------
(* A row changes: whom it concerns. *)

LEMMA RowChange ==
  ASSUME IInv, NEW o \in Organizations, NEW t \in Subjects, NEW row \in Memberships,
         ~Holds(membership[<<o, t>>], "team.manage"),
         membership' = [membership EXCEPT ![<<o, t>>] = row],
         NEW q \in RequestStates, Sound(q, membership),
         q.org = o /\ q.subject = t /\ q.barred => ~Active(row)
  PROVE  Sound(q, membership')
  <1>1. ASSUME NEW p \in Organizations, NEW s \in Subjects
        PROVE  membership'[<<p, s>>] = IF p = o /\ s = t THEN row ELSE membership[<<p, s>>]
    BY DEF IInv, TypeOK, Keys
  <1>2. q.pc = "received" /\ q.barred => ~Active(membership'[<<q.org, q.subject>>])
    BY <1>1 DEF Sound
  <1>3. q.pc = "resolved" /\ Holds(q.member, "team.manage") => Holds(membership'[<<q.org, q.subject>>], "team.manage")
    BY <1>1 DEF Sound
  <1> QED
    BY <1>2, <1>3 DEF Sound

LEMMA FreeKeeps ==
  ASSUME NEW q \in RequestStates, NEW rows, Sound(q, rows)
  PROVE  /\ [q EXCEPT !.barred = FALSE] \in RequestStates
         /\ Sound([q EXCEPT !.barred = FALSE], rows)
         /\ [q EXCEPT !.barred = FALSE].barred = FALSE
         /\ [q EXCEPT !.barred = FALSE].org = q.org
         /\ [q EXCEPT !.barred = FALSE].subject = q.subject
  <1> DEFINE p == [q EXCEPT !.barred = FALSE]
  <1>1. p \in RequestStates
    BY DEF RequestStates
  <1>2. /\ p.pc = q.pc /\ p.kind = q.kind /\ p.subject = q.subject /\ p.org = q.org /\ p.target = q.target
        /\ p.value = q.value /\ p.member = q.member /\ p.barred = FALSE /\ p.answer = q.answer
    BY DEF RequestStates
  <1> HIDE DEF p
  <1>3. Sound(p, rows)
    BY <1>2 DEF Sound
  <1> QED
    BY <1>1, <1>2, <1>3 DEF p

LEMMA ProvisionKeeps ==
  ASSUME IInv, NEW o \in Organizations, NEW s \in Subjects, NEW row \in Rows, Provision(o, s, row)
  PROVE  IInv'
  <1>1. row \in Memberships
    BY RowsAssumption DEF Memberships, Statuses
  <1>2. membership' = [membership EXCEPT ![<<o, s>>] = row] /\ ~Holds(membership[<<o, s>>], "team.manage")
    BY DEF Provision, Holds
  <1>3. ASSUME NEW x \in Requests
        PROVE  request'[x] \in RequestStates /\ Sound(request'[x], membership')
    <2> DEFINE q == request[x]
    <2>1. q \in RequestStates /\ Sound(q, membership)
      BY DEF IInv, TypeOK
    <2>2. request'[x] = IF q.org = o /\ q.subject = s THEN [q EXCEPT !.barred = FALSE] ELSE q
      BY DEF Provision
    <2> HIDE DEF q
    <2>3. CASE q.org = o /\ q.subject = s
      <3> DEFINE p == [q EXCEPT !.barred = FALSE]
      <3>1. p \in RequestStates /\ Sound(p, membership) /\ p.barred = FALSE
        BY <2>1, FreeKeeps
      <3> HIDE DEF p
      <3>2. Sound(p, membership')
        BY <1>1, <1>2, <3>1, RowChange
      <3> QED
        BY <2>2, <2>3, <3>1, <3>2 DEF p
    <2>4. CASE ~(q.org = o /\ q.subject = s)
      <3>1. Sound(q, membership')
        BY <1>1, <1>2, <2>1, <2>4, RowChange
      <3> QED
        BY <2>1, <2>2, <2>4, <3>1
    <2> QED
      BY <2>3, <2>4
  <1>4. membership' \in [Keys -> Memberships \cup {None}]
    BY <1>1, <1>2 DEF IInv, TypeOK
  <1>5. request' \in [Requests -> RequestStates]
    <2>1. request' = [x \in Requests |-> request'[x]]
      BY DEF Provision
    <2> QED
      BY <1>3, <2>1
  <1> QED
    BY <1>3, <1>4, <1>5 DEF IInv, TypeOK, Provision

\* The actor of an update, and what the row was and becomes.
LEMMA PutStatusActs ==
  ASSUME IInv, NEW r \in Requests, PutStatus(r),
         Updatable(membership[<<request[r].org, request[r].target>>], request[r].subject, request[r].target,
                   request[r].value)
  PROVE  LET o == request[r].org  t == request[r].target  row == membership[<<o, t>>]
         IN /\ request[r].pc = "resolved" /\ request[r].kind = "putStatus"
            /\ ~request[r].barred /\ request[r].value \in {"active", "suspended"}
            /\ o \in Organizations /\ t \in Subjects /\ row \in Memberships
            /\ ~Holds(row, "team.manage")
            /\ Holds(membership[<<o, request[r].subject>>], "team.manage")
            /\ membership' = [membership EXCEPT ![<<o, t>>] = [row EXCEPT !.status = request[r].value]]
            /\ UNCHANGED <<pool, preferences, profile, organization>>
  <1> DEFINE o == request[r].org
             t == request[r].target
             row == membership[<<o, t>>]
  <1>1. Authorized(r, "putStatus") /\ UNCHANGED pool
    BY DEF PutStatus, Authorized
  <1>2. /\ request[r].kind = "putStatus" /\ ~request[r].barred /\ o \in Organizations
        /\ request[r].member # None /\ request[r].member.status = "active"
        /\ "team.manage" \in request[r].member.permissions /\ request[r].pc = "resolved"
    BY <1>1, AuthorizedIsFree DEF Permission, Authorized
  <1>3. Sound(request[r], membership)
    BY DEF IInv
  <1>4. t \in Subjects /\ request[r].value \in {"active", "suspended"}
    BY <1>2, <1>3 DEF Sound
  <1>5. Holds(membership[<<o, request[r].subject>>], "team.manage")
    BY <1>2, <1>3 DEF Sound, Holds
  <1>6. row \in Memberships
    BY <1>2, <1>4 DEF IInv, TypeOK, Keys, Updatable
  <1>7. ~Holds(row, "team.manage")
    BY DEF Updatable, AllowedOrdinaryPermissions, Holds
  <1>8. ChangeOrdinaryMemberStatus(o, t, request[r].value)
    BY DEF PutStatus
  <1> QED
    BY <1>1, <1>2, <1>4, <1>5, <1>6, <1>7, <1>8 DEF ChangeOrdinaryMemberStatus

LEMMA PutStatusKeeps ==
  ASSUME IInv, NEW r \in Requests, PutStatus(r)
  PROVE  IInv'
  <1> DEFINE o == request[r].org
             t == request[r].target
             status == request[r].value
             old == membership[<<o, t>>]
             row == [old EXCEPT !.status = status]
  <1>1. CASE ~Updatable(old, request[r].subject, t, status)
    <2>1. Fails(r, "403") /\ UNCHANGED pool
      BY <1>1 DEF PutStatus, Authorized
    <2> QED
      BY <2>1, FailureKeeps DEF Refused
  <1>2. CASE Updatable(old, request[r].subject, t, status)
    <2>1. /\ ~request[r].barred /\ status \in {"active", "suspended"} /\ o \in Organizations /\ t \in Subjects
          /\ old \in Memberships /\ ~Holds(old, "team.manage")
          /\ membership' = [membership EXCEPT ![<<o, t>>] = row]
          /\ UNCHANGED <<pool, preferences, profile, organization>>
      BY <1>2, PutStatusActs
    <2>2. row \in Memberships /\ (status # "active" => ~Active(row))
      BY <2>1 DEF Memberships, Statuses, Active
    <2>3. PICK answer \in {"ok", "503"} :
            request' = [x \in Requests |->
              IF x = r THEN [Idle EXCEPT !.barred = request[r].barred, !.answer = answer]
              ELSE IF status = "active" /\ request[x].org = o /\ request[x].subject = t
                   THEN [request[x] EXCEPT !.barred = FALSE] ELSE request[x]]
      BY <1>2 DEF PutStatus
    <2> HIDE DEF row
    <2>4. ASSUME NEW x \in Requests
          PROVE  request'[x] \in RequestStates /\ Sound(request'[x], membership')
      <3> DEFINE q == request[x]
      <3>1. q \in RequestStates /\ Sound(q, membership)
        BY DEF IInv, TypeOK
      <3>2. CASE x = r
        <4> DEFINE p == [Idle EXCEPT !.barred = request[r].barred, !.answer = answer]
        <4>1. request'[x] = p
          BY <2>3, <3>2
        <4>2. request[r].barred \in BOOLEAN
          BY <3>1, <3>2 DEF RequestStates
        <4>3. p \in RequestStates /\ p.pc = "idle" /\ ~p.barred
          BY <2>1, <4>2 DEF Idle, RequestStates, Refused
        <4> HIDE DEF p
        <4> QED
          BY <4>1, <4>3 DEF Sound
      <3>3. CASE x # r /\ status = "active" /\ q.org = o /\ q.subject = t
        <4> DEFINE p == [q EXCEPT !.barred = FALSE]
        <4>1. request'[x] = p
          BY <2>3, <3>3
        <4>2. p \in RequestStates /\ Sound(p, membership) /\ p.barred = FALSE
          BY <3>1, FreeKeeps
        <4> HIDE DEF p
        <4>3. Sound(p, membership')
          BY <2>1, <2>2, <4>2, RowChange
        <4> QED
          BY <4>1, <4>2, <4>3
      <3>4. CASE x # r /\ ~(status = "active" /\ q.org = o /\ q.subject = t)
        <4>1. request'[x] = q
          BY <2>3, <3>4
        <4> HIDE DEF q
        <4>2. Sound(q, membership')
          BY <2>1, <2>2, <3>1, <3>4, RowChange
        <4> QED
          BY <3>1, <4>1, <4>2
      <3> QED
        BY <3>2, <3>3, <3>4
    <2>5. request' \in [Requests -> RequestStates]
      <3>1. request' = [x \in Requests |-> request'[x]]
        BY <2>3
      <3> QED
        BY <2>4, <3>1
    <2>6. membership' \in [Keys -> Memberships \cup {None}]
      BY <2>1, <2>2 DEF IInv, TypeOK
    <2> QED
      BY <2>1, <2>4, <2>5, <2>6 DEF IInv, TypeOK
  <1> QED
    BY <1>1, <1>2
-------------------------------------------------------------------------------
LEMMA InitIInv == Init => IInv
  <1> SUFFICES ASSUME Init PROVE IInv
    OBVIOUS
  <1>1. Rows \subseteq Memberships
    BY RowsAssumption DEF Memberships, Statuses
  <1>2. request \in [Requests -> RequestStates] /\ \A r \in Requests : request[r] = Idle
    BY IdleState DEF Init
  <1>3. \A r \in Requests : Sound(request[r], membership)
    BY <1>2 DEF Sound, Idle
  <1>4. membership \in [Keys -> Memberships \cup {None}]
    BY <1>1 DEF Init
  <1> QED
    BY <1>2, <1>3, <1>4 DEF Init, IInv, TypeOK, CreateRuntimeOrganizationMembershipResolver

LEMMA NextIInv == IInv /\ [Next]_vars => IInv'
  <1> SUFFICES ASSUME IInv, [Next]_vars PROVE IInv'
    OBVIOUS
  <1>1. CASE UNCHANGED vars
    BY <1>1 DEF IInv, TypeOK, vars, tables
  <1>2. CASE OnApplicationShutdown
    <2>1. pool' = "closed" /\ UNCHANGED <<membership, preferences, profile, organization, request>>
      BY <1>2 DEF OnApplicationShutdown, tables
    <2> QED
      BY <2>1 DEF IInv, TypeOK
  <1>3. CASE \E o \in Organizations, s \in Subjects, row \in Rows : Provision(o, s, row)
    BY <1>3, ProvisionKeeps
  <1>4. ASSUME NEW r \in Requests, NEW kind \in ReadKinds, NEW s \in Subjects \cup {None}, NEW o \in Organizations,
               Arrive(r, kind, s, o, None, None)
        PROVE  IInv'
    <2>1. kind \notin WriteKinds
      BY DEF ReadKinds, WriteKinds
    <2> QED
      BY <1>4, <2>1, ArriveKeeps DEF WriteKinds
  <1>5. ASSUME NEW r \in Requests, NEW kind \in WriteKinds \ {"putStatus"}, NEW s \in Subjects,
               NEW o \in Organizations, NEW v \in Values, Arrive(r, kind, s, o, None, v)
        PROVE  IInv'
    BY <1>5, ArriveKeeps
  <1>6. ASSUME NEW r \in Requests, NEW s \in Subjects, NEW t \in Subjects, NEW o \in Organizations,
               NEW status \in {"active", "suspended"}, Arrive(r, "putStatus", s, o, t, status)
        PROVE  IInv'
    BY <1>6, ArriveKeeps DEF WriteKinds
  <1>7. ASSUME NEW r \in Requests, BadRequest(r) \/ Forbidden(r) \/ PersistenceUnavailable(r)
        PROVE  IInv'
    BY <1>7, FailureKeeps DEF BadRequest, Forbidden, PersistenceUnavailable, Authorized, Refused
  <1>8. ASSUME NEW r \in Requests,
               \/ PreferencesContext(r) \/ ProfileContext(r) \/ OrganizationProfileContext(r)
               \/ StatusContext(r) \/ TeamContext(r) \/ BootstrapContext(r)
        PROVE  IInv'
    <2>1. \E kinds, failure : failure \in Refused /\ Context(r, kinds, failure)
      BY <1>8
         DEF PreferencesContext, ProfileContext, OrganizationProfileContext, StatusContext,
             TeamContext,
         BootstrapContext, Refused
    <2> QED
      BY <2>1, ContextKeeps
  <1>9. ASSUME NEW r \in Requests, ListWorkspaces(r) PROVE IInv'
    BY <1>9, ListWorkspacesKeeps
  <1>10. ASSUME NEW r \in Requests,
                GetBootstrap(r) \/ GetTeam(r) \/ GetPreferences(r) \/ GetProfile(r) \/ GetOrganizationProfile(r)
         PROVE  IInv'
    BY <1>10, ReadsKeep
  <1>11. ASSUME NEW r \in Requests, PutPreferences(r) \/ PutProfile(r) \/ PutOrganizationProfile(r) PROVE IInv'
    BY <1>11, WritesKeep
  <1>12. ASSUME NEW r \in Requests, PutStatus(r) PROVE IInv'
    BY <1>12, PutStatusKeeps
  <1> QED
    BY <1>1, <1>2, <1>3, <1>4, <1>5, <1>6, <1>7, <1>8, <1>9, <1>10, <1>11, <1>12 DEF Next

\* The inductive invariant: the types of rows and requests, and what a request
\* still knows of the membership it read (Sound).
THEOREM Invariant == Spec => []IInv
  BY InitIInv, NextIInv, PTL DEF Spec

\* A request that arrives while its subject is no active member is refused by
\* every tenant route, unless the membership is reinstated in the meantime.
THEOREM SuspensionTakesEffect == Spec => []SuspensionIsEffective
  <1>1. IInv => SuspensionIsEffective
    BY DEF IInv, Sound, SuspensionIsEffective
  <1> QED
    BY <1>1, Invariant, PTL

\* A step that changes a membership is the update of a request.
LEMMA OnlyPutStatusChanges ==
  ASSUME IInv, Next, NEW o \in Organizations, NEW t \in Subjects,
         membership[<<o, t>>] # None, membership'[<<o, t>>] # membership[<<o, t>>]
  PROVE  \E r \in Requests :
           /\ PutStatus(r)
           /\ Updatable(membership[<<request[r].org, request[r].target>>], request[r].subject, request[r].target,
                        request[r].value)
  <1>1. membership' # membership
    OBVIOUS
  <1>2. ASSUME NEW p \in Organizations, NEW s \in Subjects, NEW row \in Rows, Provision(p, s, row)
        PROVE  FALSE
    <2>1. membership[<<p, s>>] = None /\ membership' = [membership EXCEPT ![<<p, s>>] = row]
      BY <1>2 DEF Provision
    <2>2. <<p, s>> # <<o, t>> => membership'[<<o, t>>] = membership[<<o, t>>]
      BY <2>1 DEF IInv, TypeOK, Keys
    <2> QED
      BY <2>1, <2>2
  <1>3. ASSUME NEW r \in Requests, PutStatus(r),
               ~Updatable(membership[<<request[r].org, request[r].target>>], request[r].subject, request[r].target,
                          request[r].value)
        PROVE  FALSE
    BY <1>1, <1>3 DEF PutStatus, Fails, tables
  <1>4. ASSUME NEW r \in Requests, NEW kind, NEW s, NEW p, NEW target, NEW value, Arrive(r, kind, s, p, target, value)
        PROVE  FALSE
    BY <1>1, <1>4 DEF Arrive, tables
  <1>5. ASSUME NEW r \in Requests, \E kinds, failure : Context(r, kinds, failure)
        PROVE  FALSE
    BY <1>1, <1>5 DEF Context, tables
  <1>6. ASSUME NEW r \in Requests, (\E answer : Fails(r, answer)) \/ (\E body : Reads(r, body))
        PROVE  FALSE
    BY <1>1, <1>6 DEF Fails, Reads, tables
  <1>7. ASSUME NEW r \in Requests, PutPreferences(r) \/ PutProfile(r) \/ PutOrganizationProfile(r)
        PROVE  FALSE
    BY <1>1, <1>7
       DEF PutPreferences, PutProfile, PutOrganizationProfile, UpsertPreferences, UpsertProfile,
       UpsertOrganization
  <1>8. ~OnApplicationShutdown
    BY <1>1 DEF OnApplicationShutdown, tables
  <1>9. PICK r \in Requests :
          \/ \E kind, s, p, target, value : Arrive(r, kind, s, p, target, value)
          \/ \E kinds, failure : Context(r, kinds, failure)
          \/ \E answer : Fails(r, answer)
          \/ \E body : Reads(r, body)
          \/ PutPreferences(r) \/ PutProfile(r) \/ PutOrganizationProfile(r)
          \/ PutStatus(r)
    BY <1>2, <1>8
       DEF Next, BadRequest, Forbidden, PersistenceUnavailable, PreferencesContext, ProfileContext,
       OrganizationProfileContext, StatusContext, TeamContext, BootstrapContext, ListWorkspaces, GetBootstrap, GetTeam,
       GetPreferences, GetProfile, GetOrganizationProfile
  <1> QED
    BY <1>3, <1>4, <1>5, <1>6, <1>7, <1>9

\* Whoever changes the status of a member is, at that moment, an active member
\* who may manage the team, though the authorization was read earlier.
THEOREM ManagersStayManagers == Spec => ActorStillManages
  <1>1. ASSUME IInv, Next, NEW o \in Organizations, NEW t \in Subjects,
               membership[<<o, t>>] # None, membership'[<<o, t>>] # membership[<<o, t>>]
        PROVE  \E r \in Requests : /\ request[r].pc = "resolved" /\ request[r].kind = "putStatus"
                                   /\ request[r].org = o /\ request[r].target = t
                                   /\ Holds(membership[<<o, request[r].subject>>], "team.manage")
    <2>1. PICK r \in Requests :
            /\ PutStatus(r)
            /\ Updatable(membership[<<request[r].org, request[r].target>>], request[r].subject, request[r].target,
                         request[r].value)
      BY <1>1, OnlyPutStatusChanges
    <2> DEFINE p == request[r].org
               s == request[r].target
               row == [membership[<<p, s>>] EXCEPT !.status = request[r].value]
    <2>2. /\ request[r].pc = "resolved" /\ request[r].kind = "putStatus"
          /\ Holds(membership[<<p, request[r].subject>>], "team.manage")
          /\ membership' = [membership EXCEPT ![<<p, s>>] = row]
      BY <1>1, <2>1, PutStatusActs
    <2> HIDE DEF row
    <2>3. <<p, s>> # <<o, t>> => membership'[<<o, t>>] = membership[<<o, t>>]
      BY <1>1, <2>2 DEF IInv, TypeOK, Keys
    <2>4. p = o /\ s = t
      BY <1>1, <2>3
    <2> QED
      BY <2>2, <2>4
  <1> DEFINE Step ==
        \A o \in Organizations, t \in Subjects :
          membership[<<o, t>>] # None /\ membership'[<<o, t>>] # membership[<<o, t>>]
            => \E r \in Requests : /\ request[r].pc = "resolved" /\ request[r].kind = "putStatus"
                                   /\ request[r].org = o /\ request[r].target = t
                                   /\ Holds(membership[<<o, request[r].subject>>], "team.manage")
  <1>2. IInv /\ [Next]_vars => [Step]_vars
    BY <1>1 DEF vars
  <1> QED
    BY <1>2, Invariant, PTL DEF Spec, ActorStillManages
-------------------------------------------------------------------------------
(* The page of the same workspaces, on the other side of these routes. *)

CONSTANTS Slots, Malformed
VARIABLES kind, call
Panels == INSTANCE WorkspacePanelsInvariant
-------------------------------------------------------------------------------
(* What the clients return. *)

\* No failure is an answer "ready", and each is a status a panel knows.
LEMMA FailuresAreStatuses == \A f \in Panels!Failures : f \in Panels!Statuses /\ f # "ready"
BY DEF Panels!Failures, Panels!ParseResponse, Panels!Statuses

LEMMA FailedAnswers ==
  ASSUME NEW a \in Panels!Failed
  PROVE /\ a.status \in Panels!Statuses /\ a.value \in Panels!Shown /\ a.manager \in BOOLEAN
        /\ a.status # "ready"
<1>1. PICK f \in Panels!Failures : a = [status |-> f, value |-> None, manager |-> FALSE]
  BY DEF Panels!Failed
<1>2. f \in Panels!Statuses /\ f # "ready"
  BY FailuresAreStatuses
<1>3. a.status = f /\ a.value = None /\ a.manager = FALSE
  BY <1>1
<1> QED BY <1>2, <1>3 DEF Panels!Shown

\* An answer that is "ready" brings the value; the others bring none.
LEMMA AnswersCarry ==
  ASSUME NEW v \in Panels!Shown, NEW a \in Panels!Answer(v)
  PROVE /\ a.status \in Panels!Statuses /\ a.value \in Panels!Shown /\ a.manager \in BOOLEAN
        /\ a.status = "ready" => a.value = v
<1>1. CASE a \in Panels!Failed
  BY <1>1, FailedAnswers
<1>2. CASE a = [status |-> "ready", value |-> v, manager |-> FALSE]
  <2>1. a.status = "ready" /\ a.value = v /\ a.manager = FALSE
    BY <1>2
  <2> QED BY <2>1 DEF Panels!Statuses
<1> QED BY <1>1, <1>2 DEF Panels!Answer

\* A read is answered with a status and with what the API holds, or with nothing.
LEMMA RequestAnswers ==
  ASSUME stored \in [Organizations -> Panels!StoredStates], NEW op, NEW o \in Organizations,
         NEW answer \in Panels!Request(op, o)
  PROVE answer.status \in Panels!Statuses /\ answer.value \in Panels!Shown /\ answer.manager \in BOOLEAN
<1>2. stored[o].value \in Panels!Shown
  BY DEF Panels!StoredStates, Panels!Shown
<1>3. CASE answer \in Panels!RequestWorkspaceBootstrap
  <2>1. CASE answer \in Panels!Failed
    BY <2>1, FailedAnswers
  <2>2. CASE \E m \in BOOLEAN : answer = [status |-> "ready", value |-> None, manager |-> m]
    <3>1. answer.status = "ready" /\ answer.value = None /\ answer.manager \in BOOLEAN
      BY <2>2
    <3> QED BY <3>1 DEF Panels!Statuses, Panels!Shown
  <2> QED BY <1>3, <2>1, <2>2 DEF Panels!RequestWorkspaceBootstrap
<1>4. CASE answer \in Panels!Answer(stored[o].value)
  BY <1>2, <1>4, AnswersCarry
<1>5. answer \in Panels!RequestWorkspaceBootstrap \/ answer \in Panels!Answer(stored[o].value)
  BY DEF Panels!Request, Panels!RequestWorkspaceTeam, Panels!RequestWorkspaceOrganizationProfile,
       Panels!RequestWorkspaceProfile,
         Panels!RequestWorkspaceNotificationPreferences
<1> QED BY <1>3, <1>4, <1>5

\* An update that is answered "ready" wrote, and returns what it wrote.
LEMMA UpdateAnswers ==
  ASSUME NEW o, NEW v \in Values, NEW w \in Panels!Update(o, v)
  PROVE /\ w.wrote \in BOOLEAN
        /\ w.answer.status \in Panels!Statuses /\ w.answer.value \in Panels!Shown /\ w.answer.manager \in BOOLEAN
        /\ w.answer.status = "ready" => w.wrote = TRUE /\ w.answer.value = v
<1>3. w \in Panels!Refused \/ w \in Panels!Written(v)
  BY
     DEF Panels!Update, Panels!UpdateWorkspaceTeamMemberStatus,
         Panels!UpdateWorkspaceOrganizationProfile,
         Panels!UpdateWorkspaceProfile, Panels!UpdateWorkspaceNotificationPreferences
<1>4. CASE w \in Panels!Refused
  <2>1. w.answer \in Panels!Failed /\ w.wrote = FALSE
    BY <1>4 DEF Panels!Refused
  <2> QED BY <2>1, FailedAnswers
<1>5. CASE w \in Panels!Written(v)
  <2>1. w.answer \in Panels!Answer(v) /\ w.wrote = TRUE
    BY <1>5 DEF Panels!Written
  <2>2. v \in Panels!Shown
    BY DEF Panels!Shown
  <2> QED BY <2>1, <2>2, AnswersCarry
<1> QED BY <1>3, <1>4, <1>5
-------------------------------------------------------------------------------
(* What a panel does with an answer. *)

\* What is loaded changes neither the organization nor the save.
LEMMA LoadedView ==
  ASSUME panel \in Panels!PanelStates, NEW status \in Panels!Statuses, NEW v \in Panels!Shown, NEW o \in Organizations
  PROVE /\ Panels!Loaded(status, v, o) \in Panels!PanelStates
        /\ Panels!Loaded(status, v, o).org = panel.org /\ Panels!Loaded(status, v, o).save = panel.save
        /\ Panels!Loaded(status, v, o).from \subseteq panel.from \cup {o}
<1>1. Panels!WorkspaceOverviewView(status, o) \in Panels!PanelStates /\ Panels!WorkspaceTeamPanelView(status, v, o) \in Panels!PanelStates
      /\ Panels!FormLoaded(status, v, o) \in Panels!PanelStates
  BY
     DEF Panels!WorkspaceOverviewView, Panels!WorkspaceTeamPanelView, Panels!FormLoaded,
         Panels!PanelStates,
       Panels!Shown
<1>2. /\ Panels!WorkspaceOverviewView(status, o).org = panel.org /\ Panels!WorkspaceOverviewView(status, o).save = panel.save
      /\ Panels!WorkspaceOverviewView(status, o).from \subseteq panel.from \cup {o}
  BY DEF Panels!WorkspaceOverviewView, Panels!PanelStates
<1>3. /\ Panels!WorkspaceTeamPanelView(status, v, o).org = panel.org /\ Panels!WorkspaceTeamPanelView(status, v, o).save = panel.save
      /\ Panels!WorkspaceTeamPanelView(status, v, o).from \subseteq panel.from \cup {o}
  BY DEF Panels!WorkspaceTeamPanelView, Panels!PanelStates
<1>4. /\ Panels!FormLoaded(status, v, o).org = panel.org /\ Panels!FormLoaded(status, v, o).save = panel.save
      /\ Panels!FormLoaded(status, v, o).from \subseteq panel.from \cup {o}
  BY DEF Panels!FormLoaded, Panels!PanelStates
<1> QED BY <1>1, <1>2, <1>3, <1>4 DEF Panels!Loaded

LEMMA BootstrappedView ==
  ASSUME panel \in Panels!PanelStates, NEW status \in Panels!Statuses, NEW m \in BOOLEAN, NEW o \in Organizations
  PROVE /\ Panels!Bootstrapped(status, m, o) \in Panels!PanelStates
        /\ Panels!Bootstrapped(status, m, o).org = panel.org /\ Panels!Bootstrapped(status, m, o).save = panel.save
        /\ Panels!Bootstrapped(status, m, o).status = panel.status /\ Panels!Bootstrapped(status, m, o).value = panel.value
        /\ Panels!Bootstrapped(status, m, o).from \subseteq panel.from \cup {o}
<1>1. (status = "ready" /\ m) \in BOOLEAN
  OBVIOUS
<1> QED BY <1>1 DEF Panels!Bootstrapped, Panels!PanelStates

\* The answer to a save leaves the organization; a form is said to be saved
\* only by the answer "ready", with the value that came with it.
LEMMA SavedView ==
  ASSUME panel \in Panels!PanelStates, NEW status \in Panels!Statuses, NEW v \in Panels!Shown, NEW o \in Organizations
  PROVE /\ Panels!Saved(status, v, o) \in Panels!PanelStates
        /\ Panels!Saved(status, v, o).org = panel.org
        /\ Panels!Saved(status, v, o).from \subseteq panel.from \cup {o}
        /\ Panels!Saved(status, v, o).save = "saved" => status = "ready" /\ Panels!Saved(status, v, o).value = v
<1> DEFINE Good(q) == /\ q \in Panels!PanelStates /\ q.org = panel.org /\ q.from \subseteq panel.from \cup {o}
                      /\ q.save = "saved" => status = "ready" /\ q.value = v
<1>1. Good(Panels!TeamSaved(status, v, o))
  BY DEF Panels!TeamSaved, Panels!PanelStates
<1>2. Good(Panels!OrganizationProfileSaved(status, v, o))
  BY DEF Panels!OrganizationProfileSaved, Panels!PanelStates
<1>3. Good(Panels!ProfileSaved(status, v, o))
  BY DEF Panels!ProfileSaved, Panels!PanelStates
<1>4. Good(Panels!NotificationPreferencesSaved(status, v, o))
  BY DEF Panels!NotificationPreferencesSaved, Panels!PanelStates
<1>5. Good(Panels!Saved(status, v, o))
  <2> HIDE DEF Good
  <2> QED BY <1>1, <1>2, <1>3, <1>4 DEF Panels!Saved
<1> QED BY <1>5

\* The answer to a call that the panel waits for leaves a panel that fits, and
\* that every other call fits.
LEMMA ShowsFits ==
  ASSUME Panels!IInv, NEW s \in Slots, call[s].awaited,
         NEW status \in Panels!Statuses, NEW v \in Panels!Shown, NEW m \in BOOLEAN,
         call[s].op = "save" /\ status = "ready" => Panels!Holds(stored, call[s].org, v),
         Panels!Shows(call[s].op, status, v, m, call[s].org)
  PROVE /\ panel' \in Panels!PanelStates /\ panel'.org = panel.org
        /\ Panels!PanelFits(panel', stored)
        /\ \A t \in Slots \ {s} : Panels!CallFits(call[t], panel', stored)
<1>1. /\ panel \in Panels!PanelStates /\ call[s] \in Panels!CallStates /\ Panels!PanelFits(panel, stored)
      /\ \A t \in Slots : call[t] \in Panels!CallStates /\ Panels!CallFits(call[t], panel, stored)
  BY DEF Panels!IInv, Panels!TypeOK
<1>2. /\ call[s].org \in Organizations /\ call[s].org = panel.org
      /\ panel.from \cup {call[s].org} \subseteq {panel.org}
      /\ call[s].op = "load" => panel.save = "idle"
      /\ call[s].op = "save" => panel.save = "saving"
  BY <1>1 DEF Panels!CallFits, Panels!PanelFits
<1>3. \A t \in Slots \ {s} : call[t].awaited => call[t].op # call[s].op \/ call[s].op = "bootstrap"
  BY <1>1 DEF Panels!IInv, Panels!OneEach, Panels!CallStates
<1>4. CASE call[s].op = "load"
  <2>1. panel' = Panels!Loaded(status, v, call[s].org)
    BY <1>4 DEF Panels!Shows
  <2>2. /\ panel' \in Panels!PanelStates /\ panel'.org = panel.org /\ panel'.save = "idle"
        /\ panel'.from \subseteq {panel.org}
    BY <2>1, <1>1, <1>2, <1>4, LoadedView
  <2>3. Panels!PanelFits(panel', stored)
    BY <2>2, <1>2 DEF Panels!PanelFits
  <2>4. ASSUME NEW t \in Slots \ {s}  PROVE Panels!CallFits(call[t], panel', stored)
    <3>1. Panels!CallFits(call[t], panel, stored) /\ call[t] \in Panels!CallStates
      BY <1>1
    <3>2. call[t].awaited => call[t].op = "bootstrap"
      BY <3>1, <1>2, <1>3, <1>4 DEF Panels!CallFits, Panels!CallStates
    <3> QED BY <3>1, <3>2, <2>2 DEF Panels!CallFits
  <2> QED BY <2>2, <2>3, <2>4
<1>5. CASE call[s].op = "bootstrap"
  <2>1. panel' = Panels!Bootstrapped(status, m, call[s].org)
    BY <1>5 DEF Panels!Shows
  <2>2. /\ panel' \in Panels!PanelStates /\ panel'.org = panel.org /\ panel'.save = panel.save
        /\ panel'.status = panel.status /\ panel'.value = panel.value
        /\ panel'.from \subseteq {panel.org}
    BY <2>1, <1>1, <1>2, BootstrappedView
  <2>3. Panels!PanelFits(panel', stored)
    BY <2>2, <1>1 DEF Panels!PanelFits
  <2>4. ASSUME NEW t \in Slots \ {s}  PROVE Panels!CallFits(call[t], panel', stored)
    BY <2>2, <1>1 DEF Panels!CallFits
  <2> QED BY <2>2, <2>3, <2>4
<1>6. CASE call[s].op = "save"
  <2>1. panel' = Panels!Saved(status, v, call[s].org)
    BY <1>6 DEF Panels!Shows
  <2>2. /\ panel' \in Panels!PanelStates /\ panel'.org = panel.org
        /\ panel'.from \subseteq {panel.org}
        /\ panel'.save = "saved" => status = "ready" /\ panel'.value = v
    BY <2>1, <1>1, <1>2, SavedView
  <2>3. Panels!PanelFits(panel', stored)
    BY <2>2, <1>2, <1>6 DEF Panels!PanelFits
  <2>4. ASSUME NEW t \in Slots \ {s}  PROVE Panels!CallFits(call[t], panel', stored)
    <3>1. Panels!CallFits(call[t], panel, stored) /\ call[t] \in Panels!CallStates
      BY <1>1
    <3>2. call[t].awaited => call[t].op = "bootstrap"
      BY <3>1, <1>2, <1>3, <1>6 DEF Panels!CallFits, Panels!CallStates
    <3> QED BY <3>1, <3>2, <2>2 DEF Panels!CallFits
  <2> QED BY <2>2, <2>3, <2>4
<1> QED BY <1>1, <1>4, <1>5, <1>6 DEF Panels!CallStates
-------------------------------------------------------------------------------
(* The page: a new panel, or the one that is there. *)

\* A call that is given up still fits, whatever panel there is.
LEMMA AbandonedFits ==
  ASSUME NEW c \in Panels!CallStates, NEW p, NEW q, NEW st, Panels!CallFits(c, p, st)
  PROVE Panels!Abandoned(c) \in Panels!CallStates /\ ~Panels!Abandoned(c).awaited /\ Panels!CallFits(Panels!Abandoned(c), q, st)
<1>1. CASE c.op = "save"
  <2>1. Panels!Abandoned(c) = [c EXCEPT !.awaited = FALSE]
    BY <1>1 DEF Panels!Abandoned
  <2>2. /\ Panels!Abandoned(c) \in Panels!CallStates /\ Panels!Abandoned(c).awaited = FALSE
        /\ Panels!Abandoned(c).pc = c.pc /\ Panels!Abandoned(c).org = c.org /\ Panels!Abandoned(c).value = c.value
        /\ Panels!Abandoned(c).op = c.op /\ Panels!Abandoned(c).status = c.status
    BY <2>1 DEF Panels!CallStates
  <2> QED BY <1>1, <2>2 DEF Panels!CallFits
<1>2. CASE c.op # "save"
  BY <1>2 DEF Panels!Abandoned, Panels!Free, Panels!CallStates, Panels!CallFits, Panels!Shown
<1> QED BY <1>1, <1>2

\* A panel of another organization waits for its own calls only, one of each kind.
LEMMA MountFits ==
  ASSUME Panels!IInv, NEW o \in Organizations \cup {None}, Panels!Mount(o)
  PROVE /\ panel' \in Panels!PanelStates /\ panel'.org = o
        /\ Panels!PanelFits(panel', stored)
        /\ call' \in [Slots -> Panels!CallStates]
        /\ \A s \in Slots : Panels!CallFits(call'[s], panel', stored)
        /\ Panels!OneEach(call')
<1>1. \A s \in Slots : call[s] \in Panels!CallStates /\ Panels!CallFits(call[s], panel, stored)
  BY DEF Panels!IInv, Panels!TypeOK
<1>2. PICK slot \in [Panels!Calls(o) -> Slots] :
           /\ \A op, other \in Panels!Calls(o) : slot[op] = slot[other] => op = other
           /\ \A op \in Panels!Calls(o) : call[slot[op]].pc = "free"
           /\ panel' = Panels!Fresh(o)
           /\ call' = [s \in Slots |->
                IF \E op \in Panels!Calls(o) : slot[op] = s
                THEN [Panels!Free EXCEPT !.pc = "sent", !.org = o, !.awaited = TRUE,
                                  !.op = CHOOSE op \in Panels!Calls(o) : slot[op] = s]
                ELSE Panels!Abandoned(call[s])]
  BY DEF Panels!Mount
<1> DEFINE Mine(s) == \E op \in Panels!Calls(o) : slot[op] = s
           Op(s) == CHOOSE op \in Panels!Calls(o) : slot[op] = s
<1>3. Panels!Calls(o) \subseteq {"load", "bootstrap"} /\ (Panels!Calls(o) # {} => o # None /\ o \in Organizations)
  <2>1. CASE o = None
    <3>1. Panels!Calls(o) = {}
      BY <2>1 DEF Panels!Calls
    <3> QED BY <3>1
  <2>2. CASE o # None
    BY <2>2 DEF Panels!Calls
  <2> QED BY <2>1, <2>2
<1>4. \A s \in Slots : Mine(s) => Op(s) \in Panels!Calls(o) /\ slot[Op(s)] = s
  OBVIOUS
<1>5. \A s \in Slots : call'[s] = IF Mine(s) THEN [Panels!Free EXCEPT !.pc = "sent", !.org = o, !.awaited = TRUE,
                                                           !.op = Op(s)]
                                  ELSE Panels!Abandoned(call[s])
  BY <1>2
<1> HIDE DEF Mine, Op
<1>6. \A s \in Slots : Mine(s) => /\ call'[s] \in Panels!CallStates
                                  /\ call'[s].pc = "sent" /\ call'[s].org = o /\ call'[s].op = Op(s)
  <2> TAKE s \in Slots
  <2> HAVE Mine(s)
  <2>1. call'[s] = [Panels!Free EXCEPT !.pc = "sent", !.org = o, !.awaited = TRUE, !.op = Op(s)]
    BY <1>5
  <2>2. Op(s) \in {"load", "bootstrap"} /\ o \in Organizations
    BY <1>3, <1>4
  <2> QED BY <2>1, <2>2 DEF Panels!Free, Panels!CallStates, Panels!Shown
<1>7. \A s \in Slots : ~Mine(s) => call'[s] \in Panels!CallStates /\ ~call'[s].awaited /\ Panels!CallFits(call'[s], panel', stored)
  <2> TAKE s \in Slots
  <2> HAVE ~Mine(s)
  <2>1. call'[s] = Panels!Abandoned(call[s])
    BY <1>5
  <2> QED BY <2>1, <1>1, AbandonedFits
<1>8. panel' \in Panels!PanelStates /\ panel'.org = o /\ panel'.save = "idle" /\ panel'.from = {}
      /\ panel'.status = IF o = None THEN "unselected" ELSE "loading"
  BY <1>2 DEF Panels!Fresh, Panels!PanelStates, Panels!Shown
<1>9. Panels!PanelFits(panel', stored)
  BY <1>8 DEF Panels!PanelFits
<1>10. call' \in [Slots -> Panels!CallStates]
  <2>1. call' = [s \in Slots |-> call'[s]]
    BY <1>2
  <2>2. \A s \in Slots : call'[s] \in Panels!CallStates
    BY <1>6, <1>7
  <2> QED BY <2>1, <2>2
<1>11. ASSUME NEW s \in Slots  PROVE Panels!CallFits(call'[s], panel', stored)
  <2>1. CASE Mine(s)
    <3>1. /\ call'[s].pc = "sent" /\ call'[s].org = o /\ call'[s].op \in {"load", "bootstrap"}
          /\ o # None /\ o \in Organizations
      BY <2>1, <1>3, <1>4, <1>6
    <3> QED BY <3>1, <1>8 DEF Panels!CallFits
  <2> QED BY <2>1, <1>7
<1>12. Panels!OneEach(call')
  <2>1. ASSUME NEW s \in Slots, NEW t \in Slots, call'[s].awaited, call'[t].awaited, call'[s].op = call'[t].op
        PROVE s = t
    <3>1. Mine(s) /\ Mine(t)
      BY <2>1, <1>7
    <3>2. Op(s) = Op(t)
      BY <2>1, <3>1, <1>6
    <3> QED BY <3>1, <3>2, <1>4
  <2> QED BY <2>1 DEF Panels!OneEach
<1> QED BY <1>8, <1>9, <1>10, <1>11, <1>12

\* Whatever the page comes to show, the panel is of the organization that is
\* selected and confirmed, and everything about it fits.
LEMMA RenderFits ==
  ASSUME Panels!IInv, NEW view, NEW o \in Organizations \cup {None}, Panels!Render(view, o)
  PROVE /\ panel' \in Panels!PanelStates /\ panel'.org = Panels!AuthorizedOrganizationId(view, o)
        /\ Panels!PanelFits(panel', stored)
        /\ call' \in [Slots -> Panels!CallStates]
        /\ \A s \in Slots : Panels!CallFits(call'[s], panel', stored)
        /\ Panels!OneEach(call')
<1>1. Panels!AuthorizedOrganizationId(view, o) \in Organizations \cup {None}
  BY DEF Panels!AuthorizedOrganizationId
<1>2. CASE Panels!AuthorizedOrganizationId(view, o) = panel.org
  <2>1. panel' = panel /\ call' = call
    BY <1>2 DEF Panels!Render
  <2> QED BY <1>2, <2>1 DEF Panels!IInv, Panels!TypeOK
<1>3. CASE Panels!AuthorizedOrganizationId(view, o) # panel.org
  <2>1. Panels!Mount(Panels!AuthorizedOrganizationId(view, o))
    BY <1>3 DEF Panels!Render
  <2> HIDE DEF Panels!IInv
  <2> QED BY <1>1, <2>1, MountFits
<1> QED BY <1>2, <1>3

\* A step of the directory or of the selection.
LEMMA PageFits ==
  ASSUME Panels!IInv, directory' \in Panels!DirectoryStates, selected' \in Organizations \cup {None},
         Panels!SelectionConfirmed', Panels!Render(directory'.view, selected'), UNCHANGED <<kind, stored>>
  PROVE Panels!IInv'
<1>1. /\ panel' \in Panels!PanelStates /\ panel'.org = Panels!AuthorizedOrganizationId(directory'.view, selected')
      /\ Panels!PanelFits(panel', stored)
      /\ call' \in [Slots -> Panels!CallStates]
      /\ \A s \in Slots : Panels!CallFits(call'[s], panel', stored)
      /\ Panels!OneEach(call')
  BY RenderFits
<1>2. kind' \in Panels!Kinds /\ stored' \in [Organizations -> Panels!StoredStates] /\ stored' = stored
  BY DEF Panels!IInv, Panels!TypeOK
<1>3. Panels!TypeOK'
  BY <1>1, <1>2 DEF Panels!TypeOK
<1>4. (panel.org = Panels!AuthorizedOrganizationId(directory.view, selected))'
  BY <1>1 DEF Panels!AuthorizedOrganizationId
<1>5. Panels!PanelFits(panel, stored)' /\ (\A s \in Slots : Panels!CallFits(call[s], panel, stored))' /\ Panels!OneEach(call)'
  BY <1>1, <1>2 DEF Panels!PanelFits, Panels!CallFits, Panels!OneEach, Panels!Holds
<1> QED BY <1>3, <1>4, <1>5 DEF Panels!IInv
-------------------------------------------------------------------------------
(* The steps, one by one. *)

LEMMA InitFits ==
  ASSUME Panels!Init
  PROVE Panels!IInv
<1>1. Panels!TypeOK
  <2>1. directory \in Panels!DirectoryStates /\ selected = None
    BY DEF Panels!Init, Panels!WorkspacePage, Panels!LoadingDirectory, Panels!DirectoryStates
  <2>2. panel \in Panels!PanelStates
    BY DEF Panels!Init, Panels!Fresh, Panels!PanelStates, Panels!Shown
  <2>3. Panels!Free \in Panels!CallStates
    BY DEF Panels!Free, Panels!CallStates, Panels!Shown
  <2>4. call \in [Slots -> Panels!CallStates]
    BY <2>3 DEF Panels!Init
  <2>5. stored \in [Organizations -> Panels!StoredStates]
    <3>1. \A r \in [value : Values, awaited : {FALSE}] : r \in Panels!StoredStates
      BY DEF Panels!StoredStates
    <3> QED BY <3>1 DEF Panels!Init
  <2> QED BY <2>1, <2>2, <2>4, <2>5 DEF Panels!TypeOK, Panels!Init
<1>2. directory.view = "loading" /\ selected = None /\ panel = Panels!Fresh(None)
  BY DEF Panels!Init, Panels!WorkspacePage, Panels!LoadingDirectory
<1>3. panel.org = Panels!AuthorizedOrganizationId(directory.view, selected) /\ Panels!SelectionConfirmed
  BY <1>2 DEF Panels!AuthorizedOrganizationId, Panels!Fresh, Panels!SelectionConfirmed
<1>4. Panels!PanelFits(panel, stored)
  BY <1>2 DEF Panels!Fresh, Panels!PanelFits
<1>5. \A s \in Slots : call[s] = Panels!Free
  BY DEF Panels!Init
<1>6. (\A s \in Slots : Panels!CallFits(call[s], panel, stored)) /\ Panels!OneEach(call)
  BY <1>5 DEF Panels!Free, Panels!CallFits, Panels!OneEach
<1> QED BY <1>1, <1>3, <1>4, <1>6 DEF Panels!IInv

LEMMA RefreshFits ==
  ASSUME Panels!IInv, Panels!Refresh
  PROVE Panels!IInv'
<1>1. directory' \in Panels!DirectoryStates /\ directory'.view = "loading"
  BY DEF Panels!Refresh, Panels!LoadingDirectory, Panels!DirectoryStates
<1>2. selected' = selected /\ Panels!Render(directory'.view, selected') /\ UNCHANGED <<kind, stored>>
  BY <1>1 DEF Panels!Refresh
<1>3. Panels!SelectionConfirmed'
  BY <1>1 DEF Panels!SelectionConfirmed
<1>4. selected' \in Organizations \cup {None}
  BY <1>2 DEF Panels!IInv, Panels!TypeOK
<1> QED BY <1>1, <1>2, <1>3, <1>4, PageFits

LEMMA ReloadFits ==
  ASSUME Panels!IInv, Panels!Reload
  PROVE Panels!IInv'
<1>1. directory' \in Panels!DirectoryStates /\ directory'.view = "loading" /\ selected' = None
  BY DEF Panels!Reload, Panels!WorkspacePage, Panels!LoadingDirectory, Panels!DirectoryStates
<1>2. Panels!Render(directory'.view, selected') /\ UNCHANGED <<kind, stored>>
  BY <1>1 DEF Panels!Reload
<1>3. Panels!SelectionConfirmed'
  BY <1>1 DEF Panels!SelectionConfirmed
<1> QED BY <1>1, <1>2, <1>3, PageFits

LEMMA SelectFits ==
  ASSUME Panels!IInv, NEW o \in Organizations, Panels!Select(o)
  PROVE Panels!IInv'
<1>1. directory' = directory /\ selected' = o /\ o \in directory.listed
  BY DEF Panels!Select, Panels!Selectable
<1>2. Panels!Render(directory'.view, selected') /\ UNCHANGED <<kind, stored>>
  BY <1>1 DEF Panels!Select
<1>3. directory' \in Panels!DirectoryStates /\ Panels!SelectionConfirmed'
  BY <1>1 DEF Panels!IInv, Panels!TypeOK, Panels!SelectionConfirmed
<1> QED BY <1>1, <1>2, <1>3, PageFits

LEMMA DirectorySettlesFits ==
  ASSUME Panels!IInv, Panels!DirectorySettles
  PROVE Panels!IInv'
<1> DEFINE view == Panels!WorkspaceSessionState(directory.answer)
           kept == IF view = "ready" /\ Panels!RemainsAuthorized(directory.found, selected) THEN selected ELSE None
<1>1. /\ directory' = [view |-> view, listed |-> IF view = "ready" THEN directory.found ELSE {},
                       pc |-> "idle", answer |-> "none", found |-> {}]
      /\ selected' = kept /\ Panels!Render(view, kept) /\ UNCHANGED <<kind, stored>>
  BY DEF Panels!DirectorySettles
<1>2. view \in {"ready", "signed_out", "unavailable"}
  BY DEF Panels!WorkspaceSessionState
<1>3. directory.found \in SUBSET Organizations /\ selected \in Organizations \cup {None}
  BY DEF Panels!IInv, Panels!TypeOK, Panels!DirectoryStates
<1>4. kept \in Organizations \cup {None}
      /\ (view = "ready" => kept = None \/ kept \in directory.found)
  BY <1>3 DEF Panels!RemainsAuthorized
<1> HIDE DEF view, kept
<1>5. directory' \in Panels!DirectoryStates /\ directory'.view = view
      /\ (view = "ready" => directory'.listed = directory.found)
  BY <1>1, <1>2, <1>3 DEF Panels!DirectoryStates
<1>6. Panels!SelectionConfirmed'
  BY <1>1, <1>4, <1>5 DEF Panels!SelectionConfirmed
<1>7. Panels!Render(directory'.view, selected') /\ selected' \in Organizations \cup {None}
  BY <1>1, <1>4, <1>5
<1> QED BY <1>1, <1>5, <1>6, <1>7, PageFits

\* One call changes, and perhaps the panel: what each action has to show.
LEMMA PanelMoves ==
  ASSUME Panels!IInv, NEW s \in Slots, NEW d \in Panels!CallStates, call' = [call EXCEPT ![s] = d],
         panel' \in Panels!PanelStates, panel'.org = panel.org, UNCHANGED <<kind, directory, selected>>,
         stored' \in [Organizations -> Panels!StoredStates],
         Panels!PanelFits(panel', stored'), Panels!CallFits(d, panel', stored'),
         \A t \in Slots \ {s} : Panels!CallFits(call[t], panel', stored'),
         d.awaited => \A t \in Slots \ {s} : call[t].awaited => call[t].op # d.op \/ d.op = "bootstrap"
  PROVE Panels!IInv'
<1>1. call \in [Slots -> Panels!CallStates]
  BY DEF Panels!IInv, Panels!TypeOK
<1>2. call'[s] = d /\ \A t \in Slots \ {s} : call'[t] = call[t]
  BY <1>1
<1>3. Panels!TypeOK'
  <2>1. call' \in [Slots -> Panels!CallStates]
    BY <1>1
  <2> QED BY <2>1 DEF Panels!IInv, Panels!TypeOK
<1>4. \A t \in Slots : Panels!CallFits(call'[t], panel', stored')
  BY <1>2
<1>5. Panels!OneEach(call')
  <2>1. Panels!OneEach(call)
    BY DEF Panels!IInv
  <2>2. ASSUME NEW t \in Slots, NEW u \in Slots, call'[t].awaited, call'[u].awaited,
               call'[t].op = call'[u].op, call'[t].op \in {"load", "save"}, t # u
        PROVE FALSE
    <3>1. CASE t = s
      BY <1>2, <2>2, <3>1
    <3>2. CASE u = s
      BY <1>2, <2>2, <3>2
    <3>3. CASE t # s /\ u # s
      BY <1>2, <2>1, <2>2, <3>3 DEF Panels!OneEach
    <3> QED BY <3>1, <3>2, <3>3
  <2> QED BY <2>2 DEF Panels!OneEach
<1>6. (panel.org = Panels!AuthorizedOrganizationId(directory.view, selected))' /\ Panels!SelectionConfirmed'
  BY DEF Panels!IInv, Panels!AuthorizedOrganizationId, Panels!SelectionConfirmed
<1>7. Panels!PanelFits(panel, stored)' /\ (\A t \in Slots : Panels!CallFits(call[t], panel, stored))' /\ Panels!OneEach(call)'
  BY <1>4, <1>5 DEF Panels!PanelFits, Panels!CallFits, Panels!OneEach, Panels!Holds
<1> QED BY <1>3, <1>6, <1>7 DEF Panels!IInv

\* A call that is over fits any panel.
LEMMA FreeFits ==
  ASSUME NEW p, NEW st
  PROVE Panels!Free \in Panels!CallStates /\ ~Panels!Free.awaited /\ Panels!CallFits(Panels!Free, p, st)
BY DEF Panels!Free, Panels!CallStates, Panels!Shown, Panels!CallFits

LEMMA SettleFits ==
  ASSUME Panels!IInv, NEW s \in Slots, Panels!Settle(s)
  PROVE Panels!IInv'
<1>1. /\ call[s].pc = "answered" /\ call' = [call EXCEPT ![s] = Panels!Free]
      /\ UNCHANGED <<kind, directory, selected, stored>>
      /\ IF call[s].awaited THEN Panels!Shows(call[s].op, call[s].status, call[s].value, call[s].manager, call[s].org)
         ELSE UNCHANGED panel
  BY DEF Panels!Settle, Panels!Accepts
<1>2. /\ panel \in Panels!PanelStates /\ stored \in [Organizations -> Panels!StoredStates] /\ Panels!PanelFits(panel, stored)
      /\ \A t \in Slots : call[t] \in Panels!CallStates /\ Panels!CallFits(call[t], panel, stored)
  BY DEF Panels!IInv, Panels!TypeOK
<1>3. /\ panel' \in Panels!PanelStates /\ panel'.org = panel.org /\ Panels!PanelFits(panel', stored)
      /\ \A t \in Slots \ {s} : Panels!CallFits(call[t], panel', stored)
  <2>1. CASE ~call[s].awaited
    <3>1. panel' = panel
      BY <1>1, <2>1
    <3> QED BY <1>2, <3>1
  <2>2. CASE call[s].awaited
    <3>1. call[s].status \in Panels!Statuses
      BY <1>1, <1>2 DEF Panels!CallFits
    <3>2. call[s].op = "save" /\ call[s].status = "ready" => Panels!Holds(stored, call[s].org, call[s].value)
      BY <1>1, <1>2, <2>2 DEF Panels!CallFits
    <3>3. call[s].value \in Panels!Shown /\ call[s].manager \in BOOLEAN
      BY <1>2 DEF Panels!CallStates
    <3>4. Panels!Shows(call[s].op, call[s].status, call[s].value, call[s].manager, call[s].org)
      BY <1>1, <2>2
    <3> QED BY <2>2, <3>1, <3>2, <3>3, <3>4, ShowsFits
  <2> QED BY <2>1, <2>2
<1>4. stored' = stored
  BY <1>1
<1> QED BY <1>1, <1>2, <1>3, <1>4, FreeFits, PanelMoves
LEMMA ThrowsFits ==
  ASSUME Panels!IInv, NEW s \in Slots, Panels!Throws(s)
  PROVE Panels!IInv'
<1>1. /\ call[s].pc = "sent" /\ call[s].awaited /\ call' = [call EXCEPT ![s] = Panels!Abandoned(call[s])]
      /\ UNCHANGED <<kind, directory, selected, stored>>
      /\ Panels!Shows(call[s].op, "unavailable", None, FALSE, call[s].org)
  BY DEF Panels!Throws
<1>2. /\ stored \in [Organizations -> Panels!StoredStates]
      /\ \A t \in Slots : call[t] \in Panels!CallStates /\ Panels!CallFits(call[t], panel, stored)
  BY DEF Panels!IInv, Panels!TypeOK
<1>3. "unavailable" \in Panels!Statuses /\ None \in Panels!Shown /\ FALSE \in BOOLEAN /\ "unavailable" # "ready"
  BY DEF Panels!Statuses, Panels!Shown
<1>4. /\ panel' \in Panels!PanelStates /\ panel'.org = panel.org /\ Panels!PanelFits(panel', stored)
      /\ \A t \in Slots \ {s} : Panels!CallFits(call[t], panel', stored)
  BY <1>1, <1>3, ShowsFits
<1>5. Panels!Abandoned(call[s]) \in Panels!CallStates /\ ~Panels!Abandoned(call[s]).awaited /\ Panels!CallFits(Panels!Abandoned(call[s]), panel', stored)
  BY <1>2, AbandonedFits
<1>6. stored' = stored
  BY <1>1
<1> DEFINE d == Panels!Abandoned(call[s])
<1>7. d \in Panels!CallStates /\ ~d.awaited /\ Panels!CallFits(d, panel', stored') /\ call' = [call EXCEPT ![s] = d]
  BY <1>1, <1>5, <1>6
<1> HIDE DEF d
<1>8. Panels!PanelFits(panel', stored') /\ stored' \in [Organizations -> Panels!StoredStates]
      /\ \A t \in Slots \ {s} : Panels!CallFits(call[t], panel', stored')
  BY <1>2, <1>4, <1>6
<1> QED BY <1>1, <1>4, <1>7, <1>8, PanelMoves

LEMMA LostFits ==
  ASSUME Panels!IInv, NEW s \in Slots, Panels!Lost(s)
  PROVE Panels!IInv'
<1>1. call' = [call EXCEPT ![s] = Panels!Free] /\ panel' = panel /\ stored' = stored
      /\ UNCHANGED <<kind, directory, selected>>
  BY DEF Panels!Lost
<1>2. /\ panel \in Panels!PanelStates /\ stored \in [Organizations -> Panels!StoredStates] /\ Panels!PanelFits(panel, stored)
      /\ \A t \in Slots : Panels!CallFits(call[t], panel, stored)
  BY DEF Panels!IInv, Panels!TypeOK
<1> QED BY <1>1, <1>2, FreeFits, PanelMoves

\* A panel whose form is shown waits for no data, and without a save under way
\* for no save either: the user's input finds every call still fitting.
LEMMA InputFits ==
  ASSUME Panels!IInv, Panels!Form, panel.save # "saving", NEW p \in Panels!PanelStates,
         p.org = panel.org, p.status = panel.status
  PROVE /\ panel.org \in Organizations
        /\ \A t \in Slots : Panels!CallFits(call[t], p, stored)
        /\ \A t \in Slots : call[t].awaited => call[t].op = "bootstrap"
<1>1. /\ Panels!PanelFits(panel, stored)
      /\ \A t \in Slots : call[t] \in Panels!CallStates /\ Panels!CallFits(call[t], panel, stored)
  BY DEF Panels!IInv, Panels!TypeOK
<1>2. panel.status = "ready"
  BY DEF Panels!Form
<1>3. \A t \in Slots : call[t].awaited => call[t].op = "bootstrap"
  <2> TAKE t \in Slots
  <2>1. call[t] \in Panels!CallStates /\ Panels!CallFits(call[t], panel, stored)
    BY <1>1
  <2> QED BY <1>2, <2>1 DEF Panels!CallFits, Panels!CallStates
<1>4. \A t \in Slots : Panels!CallFits(call[t], p, stored)
  BY <1>1, <1>3 DEF Panels!CallFits
<1> QED BY <1>1, <1>2, <1>3, <1>4 DEF Panels!PanelFits

\* A step that changes nothing but the panel.
LEMMA PanelBecomes ==
  ASSUME Panels!IInv, panel' \in Panels!PanelStates, panel'.org = panel.org, Panels!PanelFits(panel', stored),
         \A t \in Slots : Panels!CallFits(call[t], panel', stored),
         UNCHANGED <<kind, directory, selected, call, stored>>
  PROVE Panels!IInv'
<1>1. Panels!TypeOK'
  BY DEF Panels!IInv, Panels!TypeOK
<1>2. (panel.org = Panels!AuthorizedOrganizationId(directory.view, selected))' /\ Panels!SelectionConfirmed' /\ Panels!OneEach(call)'
  BY DEF Panels!IInv, Panels!AuthorizedOrganizationId, Panels!SelectionConfirmed, Panels!OneEach
<1>3. Panels!PanelFits(panel, stored)' /\ (\A t \in Slots : Panels!CallFits(call[t], panel, stored))'
  BY DEF Panels!PanelFits, Panels!CallFits, Panels!Holds
<1> QED BY <1>1, <1>2, <1>3 DEF Panels!IInv

LEMMA EditFits ==
  ASSUME Panels!IInv, NEW v \in Values \cup {Malformed}, Panels!Edit(v)
  PROVE Panels!IInv'
<1>1. /\ Panels!Form /\ panel.save # "saving" /\ panel' = [panel EXCEPT !.value = v, !.save = "idle"]
      /\ UNCHANGED <<kind, directory, selected, call, stored>>
  BY DEF Panels!Edit, Panels!Editable
<1>2. panel \in Panels!PanelStates /\ Panels!PanelFits(panel, stored)
  BY DEF Panels!IInv, Panels!TypeOK
<1>3. /\ panel' \in Panels!PanelStates /\ panel'.org = panel.org /\ panel'.status = panel.status
      /\ panel'.save = "idle" /\ panel'.from = panel.from
  BY <1>1, <1>2 DEF Panels!PanelStates, Panels!Shown
<1>4. Panels!PanelFits(panel', stored)
  BY <1>2, <1>3 DEF Panels!PanelFits
<1>5. \A t \in Slots : Panels!CallFits(call[t], panel', stored)
  BY <1>1, <1>3, InputFits
<1> QED BY <1>1, <1>3, <1>4, <1>5, PanelBecomes

LEMMA HandleSubmitMalformedFits ==
  ASSUME Panels!IInv, Panels!HandleSubmitMalformed
  PROVE Panels!IInv'
<1>1. /\ Panels!Form /\ panel.save # "saving" /\ panel' = Panels!Saved("invalid_response", panel.value, panel.org)
      /\ UNCHANGED <<kind, directory, selected, call, stored>>
  BY DEF Panels!HandleSubmitMalformed, Panels!Editable
<1>2. panel \in Panels!PanelStates /\ Panels!PanelFits(panel, stored) /\ panel.value \in Panels!Shown
  BY DEF Panels!IInv, Panels!TypeOK, Panels!PanelStates
<1>3. "invalid_response" \in Panels!Statuses /\ "invalid_response" # "ready"
  BY DEF Panels!Statuses
<1>4. panel.org \in Organizations /\ panel.from \subseteq {panel.org}
  BY <1>1, <1>2 DEF Panels!PanelFits, Panels!Form
<1>5. /\ panel' \in Panels!PanelStates /\ panel'.org = panel.org
      /\ panel'.from \subseteq {panel.org} /\ panel'.save # "saved"
  BY <1>1, <1>2, <1>3, <1>4, SavedView
<1>6. Panels!PanelFits(panel', stored)
  BY <1>4, <1>5 DEF Panels!PanelFits
<1>7. \A t \in Slots : Panels!CallFits(call[t], panel', stored)
  <2>1. \A t \in Slots : Panels!CallFits(call[t], panel, stored) /\ (call[t].awaited => call[t].op = "bootstrap")
    BY <1>1, <1>2, InputFits
  <2> QED BY <1>5, <2>1 DEF Panels!CallFits
<1> QED BY <1>1, <1>5, <1>6, <1>7, PanelBecomes

\* A save is sent: it is the only one that the panel waits for.
LEMMA SendFits ==
  ASSUME Panels!IInv, NEW s \in Slots, NEW v \in Values, Panels!Form, panel.save # "saving", Panels!Send(s, v)
  PROVE Panels!IInv'
<1> DEFINE d == [Panels!Free EXCEPT !.pc = "sent", !.op = "save", !.org = panel.org, !.value = v, !.awaited = TRUE]
<1>1. /\ call[s].pc = "free" /\ panel' = [panel EXCEPT !.save = "saving"]
      /\ call' = [call EXCEPT ![s] = d] /\ stored' = stored /\ UNCHANGED <<kind, directory, selected>>
  BY DEF Panels!Send
<1>2. panel \in Panels!PanelStates /\ Panels!PanelFits(panel, stored) /\ stored \in [Organizations -> Panels!StoredStates]
  BY DEF Panels!IInv, Panels!TypeOK
<1>3. /\ panel' \in Panels!PanelStates /\ panel'.org = panel.org /\ panel'.status = panel.status
      /\ panel'.save = "saving" /\ panel'.from = panel.from
  BY <1>1, <1>2 DEF Panels!PanelStates
<1>4. panel.org \in Organizations /\ (\A t \in Slots : Panels!CallFits(call[t], panel', stored))
      /\ \A t \in Slots : call[t].awaited => call[t].op = "bootstrap"
  BY <1>1, <1>3, InputFits
<1>5. /\ d \in Panels!CallStates /\ d.pc = "sent" /\ d.op = "save" /\ d.org = panel.org /\ d.value = v
  BY <1>4 DEF Panels!Free, Panels!CallStates, Panels!Shown
<1> HIDE DEF d
<1>6. Panels!CallFits(d, panel', stored)
  BY <1>3, <1>4, <1>5 DEF Panels!CallFits
<1>7. Panels!PanelFits(panel', stored)
  BY <1>2, <1>3 DEF Panels!PanelFits
<1> QED BY <1>1, <1>2, <1>3, <1>4, <1>5, <1>6, <1>7, PanelMoves

LEMMA HandleStatusChangeFits ==
  ASSUME Panels!IInv, NEW s \in Slots, NEW v \in Values, Panels!HandleStatusChange(s, v)
  PROVE Panels!IInv'
<1>1. Panels!Form /\ panel.save # "saving" /\ Panels!Send(s, v)
  BY DEF Panels!HandleStatusChange
<1> QED BY <1>1, SendFits

LEMMA HandleSubmitFits ==
  ASSUME Panels!IInv, NEW s \in Slots, Panels!HandleSubmit(s)
  PROVE Panels!IInv'
<1>1. Panels!Form /\ panel.save # "saving" /\ Panels!Send(s, panel.value) /\ panel.value # Malformed
  BY DEF Panels!HandleSubmit, Panels!Editable, Panels!ValidateProfile
<1>2. panel.value \in Values
  BY <1>1 DEF Panels!IInv, Panels!TypeOK, Panels!PanelStates, Panels!Shown, Panels!Form
<1> QED BY <1>1, <1>2, SendFits

LEMMA ServeDirectoryFits ==
  ASSUME Panels!IInv, Panels!ServeDirectory
  PROVE Panels!IInv'
<1>1. PICK answer \in Panels!RequestWorkspaceDirectory :
        directory' = [directory EXCEPT !.pc = "answered", !.answer = answer.status, !.found = answer.listed]
  BY DEF Panels!ServeDirectory
<1>2. answer.status \in Panels!Statuses /\ answer.listed \in SUBSET Organizations
  <2>1. CASE \E f \in Panels!Failures : answer = [status |-> f, listed |-> {}]
    BY <2>1, FailuresAreStatuses
  <2>2. CASE \E active \in SUBSET Organizations : answer = [status |-> "ready", listed |-> active]
    BY <2>2 DEF Panels!Statuses
  <2> QED BY <2>1, <2>2 DEF Panels!RequestWorkspaceDirectory
<1>3. directory \in Panels!DirectoryStates
  BY DEF Panels!IInv, Panels!TypeOK
<1>4. directory' \in Panels!DirectoryStates /\ directory'.view = directory.view /\ directory'.listed = directory.listed
  BY <1>1, <1>2, <1>3 DEF Panels!DirectoryStates
<1>5. UNCHANGED <<kind, selected, panel, call, stored>>
  BY DEF Panels!ServeDirectory
<1>6. Panels!TypeOK'
  BY <1>4, <1>5 DEF Panels!IInv, Panels!TypeOK
<1>7. (panel.org = Panels!AuthorizedOrganizationId(directory.view, selected))' /\ Panels!SelectionConfirmed'
  BY <1>4, <1>5 DEF Panels!IInv, Panels!AuthorizedOrganizationId, Panels!SelectionConfirmed
<1>8. Panels!PanelFits(panel, stored)' /\ (\A t \in Slots : Panels!CallFits(call[t], panel, stored))' /\ Panels!OneEach(call)'
  BY <1>5 DEF Panels!IInv, Panels!PanelFits, Panels!CallFits, Panels!OneEach, Panels!Holds
<1> QED BY <1>6, <1>7, <1>8 DEF Panels!IInv

\* What the API answers is a call's state.
LEMMA AnsweredIs ==
  ASSUME NEW c \in Panels!CallStates, NEW a,
         a.status \in Panels!Statuses, a.value \in Panels!Shown, a.manager \in BOOLEAN
  PROVE /\ Panels!Answered(c, a) \in Panels!CallStates
        /\ Panels!Answered(c, a).pc = "answered" /\ Panels!Answered(c, a).status = a.status /\ Panels!Answered(c, a).value = a.value
        /\ Panels!Answered(c, a).op = c.op /\ Panels!Answered(c, a).org = c.org /\ Panels!Answered(c, a).awaited = c.awaited
BY DEF Panels!Answered, Panels!CallStates, Panels!Statuses

LEMMA ServeReadFits ==
  ASSUME Panels!IInv, NEW s \in Slots, Panels!ServeRead(s)
  PROVE Panels!IInv'
<1>1. /\ call[s].pc = "sent" /\ call[s].op # "save"
      /\ UNCHANGED <<kind, directory, selected, panel, stored>>
      /\ \E a \in Panels!Request(call[s].op, call[s].org) : call' = [call EXCEPT ![s] = Panels!Answered(call[s], a)]
  BY DEF Panels!ServeRead
<1>2. /\ panel \in Panels!PanelStates /\ stored \in [Organizations -> Panels!StoredStates] /\ Panels!PanelFits(panel, stored)
      /\ \A t \in Slots : call[t] \in Panels!CallStates /\ Panels!CallFits(call[t], panel, stored)
  BY DEF Panels!IInv, Panels!TypeOK
<1>3. PICK a \in Panels!Request(call[s].op, call[s].org) : call' = [call EXCEPT ![s] = Panels!Answered(call[s], a)]
  BY <1>1
<1>4. call[s].org \in Organizations
  BY <1>1, <1>2 DEF Panels!CallFits
<1>5. a.status \in Panels!Statuses /\ a.value \in Panels!Shown /\ a.manager \in BOOLEAN
  BY <1>2, <1>4, RequestAnswers
<1> DEFINE d == Panels!Answered(call[s], a)
<1>6. /\ d \in Panels!CallStates /\ d.pc = "answered" /\ d.status \in Panels!Statuses
      /\ d.op = call[s].op /\ d.org = call[s].org /\ d.awaited = call[s].awaited
  BY <1>2, <1>5, AnsweredIs
<1>7. call' = [call EXCEPT ![s] = d]
  BY <1>3
<1> HIDE DEF d
<1>8. Panels!CallFits(d, panel, stored)
  BY <1>1, <1>2, <1>6 DEF Panels!CallFits
<1>9. d.awaited => \A t \in Slots \ {s} : call[t].awaited => call[t].op # d.op \/ d.op = "bootstrap"
  BY <1>1, <1>2, <1>6 DEF Panels!IInv, Panels!OneEach, Panels!CallStates
<1>10. panel' = panel /\ stored' = stored /\ UNCHANGED <<kind, directory, selected>>
  BY <1>1
<1> QED BY <1>2, <1>6, <1>7, <1>8, <1>9, <1>10, PanelMoves

\* A save that the panel waits for is the only one, and while it is under way
\* no form is said to be saved; a save that nobody waits for leaves what it
\* wrote marked as such.
LEMMA ServeSaveFits ==
  ASSUME Panels!IInv, NEW s \in Slots, Panels!ServeSave(s)
  PROVE Panels!IInv'
<1>1. /\ call[s].pc = "sent" /\ call[s].op = "save" /\ UNCHANGED <<kind, directory, selected, panel>>
      /\ \E w \in Panels!Update(call[s].org, call[s].value) :
           /\ call' = [call EXCEPT ![s] = Panels!Answered(call[s], w.answer)]
           /\ stored' = IF w.wrote
                        THEN [stored EXCEPT ![call[s].org] = [value |-> call[s].value, awaited |-> call[s].awaited]]
                        ELSE stored
  BY DEF Panels!ServeSave
<1>2. /\ panel \in Panels!PanelStates /\ stored \in [Organizations -> Panels!StoredStates] /\ Panels!PanelFits(panel, stored)
      /\ \A t \in Slots : call[t] \in Panels!CallStates /\ Panels!CallFits(call[t], panel, stored)
  BY DEF Panels!IInv, Panels!TypeOK
<1>3. PICK w \in Panels!Update(call[s].org, call[s].value) :
           /\ call' = [call EXCEPT ![s] = Panels!Answered(call[s], w.answer)]
           /\ stored' = IF w.wrote
                        THEN [stored EXCEPT ![call[s].org] = [value |-> call[s].value, awaited |-> call[s].awaited]]
                        ELSE stored
  BY <1>1
<1>4. call[s].org \in Organizations /\ call[s].value \in Values /\ call[s].awaited \in BOOLEAN
  BY <1>1, <1>2 DEF Panels!CallFits, Panels!CallStates
<1>5. /\ w.wrote \in BOOLEAN
      /\ w.answer.status \in Panels!Statuses /\ w.answer.value \in Panels!Shown /\ w.answer.manager \in BOOLEAN
      /\ w.answer.status = "ready" => w.wrote = TRUE /\ w.answer.value = call[s].value
  BY <1>4, UpdateAnswers
<1> DEFINE d == Panels!Answered(call[s], w.answer)
<1>6. /\ d \in Panels!CallStates /\ d.pc = "answered" /\ d.status \in Panels!Statuses
      /\ d.op = "save" /\ d.org = call[s].org /\ d.awaited = call[s].awaited
      /\ d.status = "ready" => w.wrote = TRUE /\ d.value = call[s].value
  BY <1>1, <1>2, <1>5, AnsweredIs
<1>7. call' = [call EXCEPT ![s] = d]
  BY <1>3
<1> HIDE DEF d
<1>8. /\ stored' \in [Organizations -> Panels!StoredStates]
      /\ \A o \in Organizations : o # call[s].org => stored'[o] = stored[o]
      /\ w.wrote = TRUE => stored'[call[s].org] = [value |-> call[s].value, awaited |-> call[s].awaited]
      /\ w.wrote = FALSE => stored' = stored
  <2>1. [value |-> call[s].value, awaited |-> call[s].awaited] \in Panels!StoredStates
    BY <1>4 DEF Panels!StoredStates
  <2>2. CASE w.wrote = TRUE
    <3>1. stored' = [stored EXCEPT ![call[s].org] = [value |-> call[s].value, awaited |-> call[s].awaited]]
      BY <1>3, <2>2
    <3> QED BY <1>2, <1>4, <2>1, <2>2, <3>1
  <2>3. CASE w.wrote = FALSE
    <3>1. stored' = stored
      BY <1>3, <2>3
    <3> QED BY <1>2, <2>3, <3>1
  <2> QED BY <1>5, <2>2, <2>3
<1>9. \A o \in Organizations, v \in Panels!Shown : ~call[s].awaited /\ Panels!Holds(stored, o, v) => Panels!Holds(stored', o, v)
  <2> TAKE o \in Organizations, v \in Panels!Shown
  <2> HAVE ~call[s].awaited /\ Panels!Holds(stored, o, v)
  <2>1. CASE o = call[s].org /\ w.wrote = TRUE
    <3>1. stored'[o].awaited = call[s].awaited
      BY <1>8, <2>1
    <3> QED BY <3>1 DEF Panels!Holds
  <2>2. CASE o # call[s].org \/ w.wrote = FALSE
    BY <1>8, <2>2 DEF Panels!Holds
  <2> QED BY <1>5, <2>1, <2>2
<1>10. Panels!PanelFits(panel, stored')
  <2>1. panel.save = "saved" => ~call[s].awaited
    BY <1>1, <1>2 DEF Panels!CallFits
  <2>2. panel.value \in Panels!Shown
    BY <1>2 DEF Panels!PanelStates
  <2> QED BY <1>2, <1>9, <2>1, <2>2 DEF Panels!PanelFits
<1>11. Panels!CallFits(d, panel, stored')
  <2>1. d.status = "ready" => Panels!Holds(stored', d.org, d.value)
    BY <1>6, <1>8 DEF Panels!Holds
  <2> QED BY <1>1, <1>2, <1>6, <2>1 DEF Panels!CallFits
<1>12. \A t \in Slots \ {s} : call[t].awaited => ~(call[t].op = "save" /\ call[s].awaited)
  BY <1>1 DEF Panels!IInv, Panels!OneEach
<1>13. ASSUME NEW t \in Slots \ {s}  PROVE Panels!CallFits(call[t], panel, stored')
  <2>1. Panels!CallFits(call[t], panel, stored) /\ call[t].value \in Panels!Shown
    BY <1>2 DEF Panels!CallStates
  <2>2. call[t].op = "save" /\ call[t].awaited => ~call[s].awaited
    BY <1>12
  <2>3. call[t].pc = "answered" => call[t].org \in Organizations
    BY <2>1 DEF Panels!CallFits
  <2> QED BY <1>9, <2>1, <2>2, <2>3 DEF Panels!CallFits
<1>14. d.awaited => \A t \in Slots \ {s} : call[t].awaited => call[t].op # d.op \/ d.op = "bootstrap"
  BY <1>6, <1>12
<1>15. panel' = panel /\ UNCHANGED <<kind, directory, selected>>
  BY <1>1
<1> QED BY <1>2, <1>6, <1>7, <1>8, <1>10, <1>11, <1>13, <1>14, <1>15, PanelMoves

LEMMA ElsewhereFits ==
  ASSUME Panels!IInv, NEW o \in Organizations, NEW v \in Values, Panels!Elsewhere(o, v)
  PROVE Panels!IInv'
<1>1. /\ stored' = [stored EXCEPT ![o] = [value |-> v, awaited |-> FALSE]]
      /\ UNCHANGED <<kind, directory, selected, panel, call>>
  BY DEF Panels!Elsewhere
<1>2. /\ stored \in [Organizations -> Panels!StoredStates] /\ Panels!PanelFits(panel, stored)
      /\ \A t \in Slots : call[t] \in Panels!CallStates /\ Panels!CallFits(call[t], panel, stored)
  BY DEF Panels!IInv, Panels!TypeOK
<1>3. stored' \in [Organizations -> Panels!StoredStates] /\ stored'[o].awaited = FALSE
      /\ \A x \in Organizations : x # o => stored'[x] = stored[x]
  BY <1>1, <1>2 DEF Panels!StoredStates
<1>4. \A x \in Organizations, y \in Panels!Shown : Panels!Holds(stored, x, y) => Panels!Holds(stored', x, y)
  BY <1>3 DEF Panels!Holds
<1>5. Panels!PanelFits(panel, stored')
  <2>1. panel.value \in Panels!Shown
    BY DEF Panels!IInv, Panels!TypeOK, Panels!PanelStates
  <2> QED BY <1>2, <1>4, <2>1 DEF Panels!PanelFits
<1>6. ASSUME NEW t \in Slots  PROVE Panels!CallFits(call[t], panel, stored')
  <2>1. Panels!CallFits(call[t], panel, stored) /\ call[t].value \in Panels!Shown
    BY <1>2 DEF Panels!CallStates
  <2>2. call[t].pc = "answered" => call[t].org \in Organizations
    BY <2>1 DEF Panels!CallFits
  <2> QED BY <1>4, <2>1, <2>2 DEF Panels!CallFits
<1>7. Panels!TypeOK'
  BY <1>1, <1>3 DEF Panels!IInv, Panels!TypeOK
<1>8. (panel.org = Panels!AuthorizedOrganizationId(directory.view, selected))' /\ Panels!SelectionConfirmed' /\ Panels!OneEach(call)'
  BY <1>1
     DEF Panels!IInv, Panels!AuthorizedOrganizationId, Panels!SelectionConfirmed, Panels!OneEach
<1>9. Panels!PanelFits(panel, stored)' /\ (\A t \in Slots : Panels!CallFits(call[t], panel, stored))'
  BY <1>1, <1>5, <1>6 DEF Panels!PanelFits, Panels!CallFits, Panels!Holds
<1> QED BY <1>7, <1>8, <1>9 DEF Panels!IInv
-------------------------------------------------------------------------------
LEMMA NextFits ==
  ASSUME Panels!IInv, Panels!Next
  PROVE Panels!IInv'
<1>1. CASE Panels!Refresh \/ Panels!DirectorySettles \/ Panels!Reload \/ Panels!HandleSubmitMalformed \/ Panels!ServeDirectory
  BY <1>1, RefreshFits, DirectorySettlesFits, ReloadFits, HandleSubmitMalformedFits,
     ServeDirectoryFits
<1>2. CASE \E o \in Organizations : Panels!Select(o)
  BY <1>2, SelectFits
<1>3. CASE \E o \in Organizations, v \in Values : Panels!Elsewhere(o, v)
  BY <1>3, ElsewhereFits
<1>4. CASE \E v \in Values \cup {Malformed} : Panels!Edit(v)
  BY <1>4, EditFits
<1>5. CASE \E s \in Slots : \/ Panels!Settle(s) \/ Panels!Throws(s) \/ Panels!Lost(s) \/ Panels!HandleSubmit(s) \/ Panels!ServeRead(s) \/ Panels!ServeSave(s)
                            \/ \E v \in Values : Panels!HandleStatusChange(s, v)
  BY <1>5, SettleFits, ThrowsFits, LostFits, HandleSubmitFits, ServeReadFits, ServeSaveFits,
       HandleStatusChangeFits
<1> QED BY <1>1, <1>2, <1>3, <1>4, <1>5 DEF Panels!Next

LEMMA StutterFits ==
  ASSUME Panels!IInv, UNCHANGED Panels!vars
  PROVE Panels!IInv'
<1>1. UNCHANGED kind /\ UNCHANGED directory /\ UNCHANGED selected /\ UNCHANGED panel /\ UNCHANGED call
      /\ UNCHANGED stored
  BY DEF Panels!vars
<1> QED
  BY <1>1
     DEF Panels!IInv, Panels!TypeOK, Panels!AuthorizedOrganizationId, Panels!SelectionConfirmed,
     Panels!PanelFits, Panels!CallFits, Panels!OneEach, Panels!Holds

\* The panel, the calls it waits for and what the API holds keep fitting each
\* other, whatever the user, the directory, other pages and the network do.
THEOREM PanelInvariant == Panels!Spec => []Panels!IInv
<1>1. Panels!Init => Panels!IInv
  BY InitFits
<1>2. Panels!IInv /\ [Panels!Next]_Panels!vars => Panels!IInv'
  BY NextFits, StutterFits
<1> QED BY <1>1, <1>2, PTL DEF Panels!Spec

\* Whatever calls are under way or come late, what a panel shows and lets the
\* user do is of the organization that is selected and confirmed.
THEOREM PanelShowsTheSelected == Panels!Spec => []ShownIsSelected
<1>1. Panels!IInv => ShownIsSelected
  BY DEF ShownIsSelected, AuthorizedOrganizationId, Panels!AuthorizedOrganizationId, Panels!IInv,
       Panels!PanelFits
<1> QED BY <1>1, PanelInvariant, PTL

\* A form that is said to be saved is what the API holds, unless a write that
\* the panel did not wait for came after.
THEOREM SavedFormIsHeld == Panels!Spec => []SavedIsStored
<1>1. Panels!IInv => SavedIsStored
  BY DEF SavedIsStored, AuthorizedOrganizationId, Panels!AuthorizedOrganizationId, Panels!IInv,
       Panels!PanelFits, Panels!Holds
<1> QED BY <1>1, PanelInvariant, PTL
-------------------------------------------------------------------------------
(* Saves. *)

Saving(c) == c.pc = "sent" /\ c.op = "save"

\* A save is sent for the organization that is selected, and that the directory
\* lists at that moment, by a panel that waits for no other save and no load.
SavesAreForTheSelected ==
  [][\A s \in Slots : Saving(call'[s]) /\ ~Saving(call[s]) =>
       /\ directory.view = "ready" /\ selected \in directory.listed
       /\ call'[s].org = selected
       /\ \A t \in Slots : call[t].awaited => call[t].op = "bootstrap"]_Panels!vars

\* Giving a call up sends nothing, nor does another panel that loads its data.
LEMMA MountSendsNoSave ==
  ASSUME Panels!IInv, NEW o \in Organizations \cup {None}, Panels!Mount(o), NEW s \in Slots
  PROVE Saving(call'[s]) => Saving(call[s])
<1>1. PICK slot \in [Panels!Calls(o) -> Slots] :
           call' = [t \in Slots |->
                IF \E op \in Panels!Calls(o) : slot[op] = t
                THEN [Panels!Free EXCEPT !.pc = "sent", !.org = o, !.awaited = TRUE,
                                  !.op = CHOOSE op \in Panels!Calls(o) : slot[op] = t]
                ELSE Panels!Abandoned(call[t])]
  BY DEF Panels!Mount
<1>2. \A op \in Panels!Calls(o) : op # "save"
  BY DEF Panels!Calls
<1>3. CASE \E op \in Panels!Calls(o) : slot[op] = s
  <2> DEFINE mine == CHOOSE op \in Panels!Calls(o) : slot[op] = s
  <2>1. mine \in Panels!Calls(o)
    BY <1>3
  <2>2. call'[s] = [Panels!Free EXCEPT !.pc = "sent", !.org = o, !.awaited = TRUE, !.op = mine]
    BY <1>1, <1>3
  <2>3. call'[s].op = mine
    BY <2>2 DEF Panels!Free
  <2> QED BY <1>2, <2>1, <2>3 DEF Saving
<1>4. CASE ~\E op \in Panels!Calls(o) : slot[op] = s
  <2>1. call'[s] = Panels!Abandoned(call[s]) /\ call[s] \in Panels!CallStates
    BY <1>1, <1>4 DEF Panels!IInv, Panels!TypeOK
  <2> QED BY <2>1 DEF Panels!Abandoned, Panels!Free, Panels!CallStates, Saving
<1> QED BY <1>3, <1>4

LEMMA SendIsForTheSelected ==
  ASSUME Panels!IInv, NEW s \in Slots, NEW v, Panels!Form, panel.save # "saving", Panels!Send(s, v),
         NEW t \in Slots, Saving(call'[t]), ~Saving(call[t])
  PROVE /\ directory.view = "ready" /\ selected \in directory.listed
        /\ call'[t].org = selected
        /\ \A u \in Slots : call[u].awaited => call[u].op = "bootstrap"
<1>1. panel \in Panels!PanelStates /\ call \in [Slots -> Panels!CallStates]
  BY DEF Panels!IInv, Panels!TypeOK
<1>2. panel.org \in Organizations /\ \A u \in Slots : call[u].awaited => call[u].op = "bootstrap"
  BY <1>1, InputFits
<1>3. directory.view = "ready" /\ selected = panel.org /\ selected \in directory.listed
  <2>1. panel.org = IF directory.view = "ready" THEN selected ELSE None
    BY DEF Panels!IInv, Panels!AuthorizedOrganizationId
  <2>2. panel.org # None
    BY <1>2, OrganizationsAssumption
  <2> QED BY <2>1, <2>2 DEF Panels!IInv, Panels!SelectionConfirmed
<1>4. t = s /\ call'[s].org = panel.org
  BY <1>1 DEF Panels!Send, Panels!Free, Saving
<1> QED BY <1>2, <1>3, <1>4

\* Whatever is selected, refreshed or answered meanwhile, no save goes to an
\* organization that the user left or that the directory no longer lists.
THEOREM SavesGoToTheSelected == Panels!Spec => SavesAreForTheSelected
<1> DEFINE Sent(s) == Saving(call'[s]) /\ ~Saving(call[s])
           Right(s) == /\ directory.view = "ready" /\ selected \in directory.listed
                       /\ call'[s].org = selected
                       /\ \A t \in Slots : call[t].awaited => call[t].op = "bootstrap"
<1>1. ASSUME Panels!IInv, [Panels!Next]_Panels!vars, NEW s \in Slots, Sent(s)
      PROVE Right(s)
  <2>1. call[s] \in Panels!CallStates /\ call' # call
    BY <1>1 DEF Panels!IInv, Panels!TypeOK
  <2>2. ASSUME NEW view, NEW o \in Organizations \cup {None}, Panels!Render(view, o)
        PROVE FALSE
    <3>1. Panels!Mount(Panels!AuthorizedOrganizationId(view, o))
      BY <2>1, <2>2 DEF Panels!Render
    <3>2. Panels!AuthorizedOrganizationId(view, o) \in Organizations \cup {None}
      BY DEF Panels!AuthorizedOrganizationId
    <3> QED BY <1>1, <3>1, <3>2, MountSendsNoSave
  <2>3. ~Panels!Refresh /\ ~Panels!DirectorySettles /\ ~Panels!Reload
    <3>1. selected \in Organizations \cup {None} /\ None \in Organizations \cup {None}
      BY <1>1 DEF Panels!IInv, Panels!TypeOK
    <3>2. ~Panels!Refresh /\ ~Panels!Reload
      BY <2>2, <3>1 DEF Panels!Refresh, Panels!Reload
    <3>3. ~Panels!DirectorySettles
      BY <2>2, <3>1 DEF Panels!DirectorySettles
    <3> QED BY <3>2, <3>3
  <2>4. ASSUME NEW o \in Organizations, Panels!Select(o)  PROVE FALSE
    BY <2>2, <2>4 DEF Panels!Select
  <2>5. ASSUME NEW t \in Slots, NEW d, call' = [call EXCEPT ![t] = d], ~Saving(d)  PROVE FALSE
    BY <1>1, <2>1, <2>5 DEF Panels!IInv, Panels!TypeOK
  <2>6. ASSUME NEW t \in Slots, Panels!Settle(t) \/ Panels!Lost(t)  PROVE FALSE
    BY <2>5, <2>6 DEF Panels!Settle, Panels!Lost, Panels!Free, Saving
  <2>7. ASSUME NEW t \in Slots, Panels!Throws(t)  PROVE FALSE
    <3>1. call' = [call EXCEPT ![t] = Panels!Abandoned(call[t])] /\ call[t] \in Panels!CallStates
      BY <1>1, <2>7 DEF Panels!Throws, Panels!IInv, Panels!TypeOK
    <3>2. Saving(Panels!Abandoned(call[t])) => Saving(call[t])
      BY <3>1 DEF Panels!Abandoned, Panels!Free, Panels!CallStates, Saving
    <3> QED BY <1>1, <3>1, <3>2 DEF Panels!IInv, Panels!TypeOK
  <2>8. ASSUME NEW t \in Slots, NEW a, call' = [call EXCEPT ![t] = Panels!Answered(call[t], a)]
        PROVE FALSE
    <3>1. call[t] \in Panels!CallStates
      BY <1>1 DEF Panels!IInv, Panels!TypeOK
    <3>2. ~Saving(Panels!Answered(call[t], a))
      BY <3>1 DEF Panels!Answered, Panels!CallStates, Saving
    <3> QED BY <2>5, <2>8, <3>2
  <2>9. ASSUME NEW t \in Slots, Panels!ServeRead(t) \/ Panels!ServeSave(t)  PROVE FALSE
    <3>1. \E a : call' = [call EXCEPT ![t] = Panels!Answered(call[t], a)]
      BY <2>9 DEF Panels!ServeRead, Panels!ServeSave
    <3> QED BY <2>8, <3>1
  <2>10. PICK t \in Slots : \/ Panels!HandleSubmit(t)
                            \/ \E v \in Values : Panels!HandleStatusChange(t, v)
    <3>1. call' = call \/ Panels!Next
      BY <1>1 DEF Panels!vars
    <3>2. /\ ~Panels!HandleSubmitMalformed /\ ~Panels!ServeDirectory
          /\ ~\E o \in Organizations, v \in Values : Panels!Elsewhere(o, v)
          /\ ~\E v \in Values \cup {Malformed} : Panels!Edit(v)
      BY <2>1 DEF Panels!HandleSubmitMalformed, Panels!ServeDirectory, Panels!Elsewhere, Panels!Edit
    <3> QED BY <2>1, <2>3, <2>4, <2>6, <2>7, <2>9, <3>1, <3>2 DEF Panels!Next
  <2>11. PICK v : Panels!Form /\ panel.save # "saving" /\ Panels!Send(t, v)
    BY <2>10 DEF Panels!HandleSubmit, Panels!HandleStatusChange, Panels!Editable
  <2> QED BY <1>1, <2>11, SendIsForTheSelected
<1>2. Panels!IInv /\ [Panels!Next]_Panels!vars => \A s \in Slots : Sent(s) => Right(s)
  BY <1>1
<1> QED BY <1>2, PanelInvariant, PTL DEF Panels!Spec, SavesAreForTheSelected
===============================================================================
