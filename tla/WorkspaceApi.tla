----------------------------- MODULE WorkspaceApi -----------------------------
(***************************************************************************)
(* The workspace routes of the API (services/api/src/workspace and         *)
(* services/api/src/organizations): the directory of a subject's           *)
(* organizations, the bootstrap of one, its team, profiles, notification   *)
(* preferences and the status of its ordinary members.                     *)
(*                                                                         *)
(* A request resolves its principal's membership with one statement and    *)
(* acts with another, authorized by what the first one returned.  Between  *)
(* the two, other requests run: the membership may have been suspended.    *)
(* Identifiers and texts stand for valid ones; a request that fails to     *)
(* parse, or whose statement fails, is answered so.                        *)
(***************************************************************************)
EXTENDS Workspaces, FiniteSets

CONSTANTS
  Subjects, Requests,
  Values,     \* what profiles and preferences may hold
  Default,    \* the values answered when there is no row
  Rows        \* memberships that may be provisioned: [status, roles, permissions]

ASSUME RowsAssumption ==
  Rows \subseteq [status : {"active", "invited", "suspended"}, roles : SUBSET STRING, permissions : SUBSET STRING]
ASSUME NoneAssumption == None \notin Subjects \cup Values \cup Rows

VARIABLES
  pool,        \* the connections: "none" configured, "open" or "closed"
  membership,  \* organization_memberships, by organization and subject
  preferences, profile,   \* by organization and subject
  organization,           \* workspace_organizations
  request
tables == <<membership, preferences, profile, organization>>
vars == <<pool, tables, request>>

ReadKinds == {"listWorkspaces", "getBootstrap", "getTeam", "getPreferences", "getProfile", "getOrganizationProfile"}
WriteKinds == {"putPreferences", "putProfile", "putOrganizationProfile", "putStatus"}
Refused == {"400", "401", "403", "500", "503"}
Keys == Organizations \X Subjects

Idle == [pc |-> "idle", kind |-> "none", subject |-> None, org |-> None, target |-> None,
         value |-> None, member |-> None, barred |-> FALSE, answer |-> "none", body |-> {}]

\* Without a configured database every repository is the one that rejects.
CreateRuntimeOrganizationMembershipResolver == {"none", "open"}

Init ==
  /\ pool \in CreateRuntimeOrganizationMembershipResolver
  /\ membership \in [Keys -> Rows \cup {None}]
  /\ preferences = [k \in Keys |-> None] /\ profile = [k \in Keys |-> None]
  /\ organization = [o \in Organizations |-> None]
  /\ request = [r \in Requests |-> Idle]
-------------------------------------------------------------------------------
(* Rows and statements. *)

Holds(row, permission) == row # None /\ row.status = "active" /\ permission \in row.permissions

\* One row, or none; a failing statement is another action.
ResolveMembership(s, o) == membership[<<o, s>>]

Named(name) == IF name = Default THEN None ELSE name
ListForPrincipal(s) ==
  {[org |-> o, name |-> Named(organization[o])] : o \in {p \in Organizations : membership[<<p, s>>] # None}}
ListByOrganization(o) ==
  {[subject |-> s, name |-> Named(profile[<<o, s>>])] : s \in {t \in Subjects : membership[<<o, t>>] # None}}

PreferencesKey(s, o) == <<o, s>>
SelectPreferences(s, o) == preferences[PreferencesKey(s, o)]
UpsertPreferences(s, o, v) ==
  /\ preferences' = [preferences EXCEPT ![PreferencesKey(s, o)] = v]
  /\ UNCHANGED <<membership, profile, organization>>

ProfileKey(s, o) == <<o, s>>
SelectProfile(s, o) == profile[ProfileKey(s, o)]
UpsertProfile(s, o, v) ==
  /\ profile' = [profile EXCEPT ![ProfileKey(s, o)] = v]
  /\ UNCHANGED <<membership, preferences, organization>>

OrganizationKey(o) == o
SelectOrganization(o) == organization[OrganizationKey(o)]
UpsertOrganization(o, v) ==
  /\ organization' = [organization EXCEPT ![OrganizationKey(o)] = v]
  /\ UNCHANGED <<membership, preferences, profile>>

AllowedOrdinaryPermissions == {"conversation.read", "team.read", "device.link"}
\* Variant: any other membership of the organization.
UpdatableAnyone(row, actor, target, status) ==
  /\ target # actor
  /\ row # None /\ row.status \in {"active", "suspended"} /\ row.status # status
\* An ordinary member: no other role, and no permission that manages.
Updatable(row, actor, target, status) ==
  /\ target # actor
  /\ row # None /\ row.status \in {"active", "suspended"} /\ row.status # status
  /\ row.roles = {"member"} /\ row.permissions \subseteq AllowedOrdinaryPermissions

ChangeOrdinaryMemberStatus(o, target, status) ==
  /\ membership' = [membership EXCEPT ![<<o, target>>] = [membership[<<o, target>>] EXCEPT !.status = status]]
  /\ UNCHANGED <<preferences, profile, organization>>
-------------------------------------------------------------------------------
(* Requests. *)

Answered(r, answer) ==
  request' = [request EXCEPT ![r] = [Idle EXCEPT !.barred = request[r].barred, !.answer = answer]]
Fails(r, answer) == Answered(r, answer) /\ UNCHANGED tables

\* A read answers with what it found.
Reads(r, body) ==
  /\ request' = [request EXCEPT ![r] = [Idle EXCEPT !.barred = request[r].barred, !.answer = "ok", !.body = body]]
  /\ UNCHANGED tables

\* What the route of a request asks of the membership.
Permission(kind) ==
  CASE kind = "getTeam" -> "team.read"
    [] kind \in {"putStatus", "putOrganizationProfile"} -> "team.manage"
    [] OTHER -> "conversation.read"

\* Variant: the status of the membership is not looked at.
AuthorizeTenantAccessOfAnyStatus(row, permission) == permission \in row.permissions
AuthorizeTenantAccess(row, permission) == row.status = "active" /\ permission \in row.permissions

\* The client sends a request.
Arrive(r, kind, s, o, target, value) ==
  /\ request[r].pc = "idle"
  /\ request' = [request EXCEPT ![r] =
       [pc |-> "received", kind |-> kind, subject |-> s, org |-> o, target |-> target, value |-> value,
        member |-> None, answer |-> "none", body |-> {},
        barred |-> s # None /\ kind # "listWorkspaces"
                   /\ ~(membership[<<o, s>>] # None /\ membership[<<o, s>>].status = "active")]]
  /\ UNCHANGED <<pool, tables>>

\* An identifier or a body that is not valid.
BadRequest(r) ==
  /\ request[r].pc = "received" /\ request[r].kind # "listWorkspaces"
  /\ Fails(r, "400") /\ UNCHANGED pool

\* Identity, and the first statement: the membership.  It may fail, and without
\* a database nobody is a member.
Context(r, kinds, failure) ==
  LET row == IF pool = "none" THEN None ELSE ResolveMembership(request[r].subject, request[r].org)
  IN /\ request[r].pc = "received" /\ request[r].kind \in kinds
     /\ UNCHANGED <<pool, tables>>
     /\ \/ request[r].subject = None /\ Answered(r, "401")
        \/ Answered(r, "503")
        \/ request[r].subject # None /\ pool # "none" /\ Answered(r, failure)
        \/ request[r].subject # None /\ pool # "closed" /\ row = None /\ Answered(r, "403")
        \/ /\ request[r].subject # None /\ pool = "open" /\ row # None
           /\ request' = [request EXCEPT ![r] = [request[r] EXCEPT !.pc = "resolved", !.member = row]]

PreferencesContext(r) == Context(r, {"getPreferences", "putPreferences"}, "503")
ProfileContext(r) == Context(r, {"getProfile", "putProfile"}, "503")
OrganizationProfileContext(r) == Context(r, {"getOrganizationProfile", "putOrganizationProfile"}, "503")
StatusContext(r) == Context(r, {"putStatus"}, "503")
\* These two controllers let the error of the statement through.
TeamContext(r) == Context(r, {"getTeam"}, "500")
BootstrapContext(r) == Context(r, {"getBootstrap"}, "500")

Authorized(r, kind) ==
  /\ request[r].pc = "resolved" /\ request[r].kind = kind
  /\ AuthorizeTenantAccess(request[r].member, Permission(kind))
  /\ UNCHANGED pool

Forbidden(r) ==
  /\ request[r].pc = "resolved"
  /\ ~AuthorizeTenantAccess(request[r].member, Permission(request[r].kind))
  /\ Fails(r, "403") /\ UNCHANGED pool

\* The second statement fails.
PersistenceUnavailable(r) ==
  /\ request[r].kind # "getBootstrap" /\ Authorized(r, request[r].kind)
  /\ Fails(r, "503")

\* A statement that writes may commit and its result be lost.
Committed(r) == Answered(r, "ok") \/ Answered(r, "503")

ListWorkspaces(r) ==
  /\ request[r].pc = "received" /\ request[r].kind = "listWorkspaces"
  /\ \/ request[r].subject = None /\ Fails(r, "401")
     \/ request[r].subject # None /\ pool = "open" /\ Reads(r, ListForPrincipal(request[r].subject))
     \/ Fails(r, "503")
  /\ UNCHANGED pool

GetBootstrap(r) == Authorized(r, "getBootstrap") /\ Reads(r, {[permissions |-> request[r].member.permissions]})

GetTeam(r) == Authorized(r, "getTeam") /\ pool = "open" /\ Reads(r, ListByOrganization(request[r].org))

LoadPreferences(s, o) == IF SelectPreferences(s, o) = None THEN Default ELSE SelectPreferences(s, o)
GetPreferences(r) ==
  Authorized(r, "getPreferences") /\ pool = "open" /\ Reads(r, {LoadPreferences(request[r].subject, request[r].org)})
PutPreferences(r) ==
  /\ Authorized(r, "putPreferences") /\ pool = "open"
  /\ UpsertPreferences(request[r].subject, request[r].org, request[r].value) /\ Committed(r)

LoadProfile(s, o) == IF SelectProfile(s, o) = None THEN Default ELSE SelectProfile(s, o)
GetProfile(r) ==
  Authorized(r, "getProfile") /\ pool = "open" /\ Reads(r, {LoadProfile(request[r].subject, request[r].org)})
PutProfile(r) ==
  /\ Authorized(r, "putProfile") /\ pool = "open"
  /\ UpsertProfile(request[r].subject, request[r].org, request[r].value) /\ Committed(r)

LoadOrganizationProfile(o) == IF SelectOrganization(o) = None THEN Default ELSE SelectOrganization(o)
GetOrganizationProfile(r) ==
  Authorized(r, "getOrganizationProfile") /\ pool = "open" /\ Reads(r, {LoadOrganizationProfile(request[r].org)})
PutOrganizationProfile(r) ==
  /\ Authorized(r, "putOrganizationProfile") /\ pool = "open"
  /\ UpsertOrganization(request[r].org, request[r].value) /\ Committed(r)

\* One update that finds its row or none; reinstated members are free again.
PutStatus(r) ==
  LET o == request[r].org  target == request[r].target  status == request[r].value
  IN /\ Authorized(r, "putStatus") /\ pool = "open"
     /\ IF Updatable(membership[<<o, target>>], request[r].subject, target, status)
        THEN /\ ChangeOrdinaryMemberStatus(o, target, status)
             /\ \E answer \in {"ok", "503"} :
                  request' = [x \in Requests |->
                    IF x = r THEN [Idle EXCEPT !.barred = request[r].barred, !.answer = answer]
                    ELSE IF status = "active" /\ request[x].org = o /\ request[x].subject = target
                         THEN [request[x] EXCEPT !.barred = FALSE] ELSE request[x]]
        ELSE Fails(r, "403")
-------------------------------------------------------------------------------
\* The operator of the service adds memberships; nothing but the API changes one.
Provision(o, s, row) ==
  /\ membership[<<o, s>>] = None
  /\ membership' = [membership EXCEPT ![<<o, s>>] = row]
  /\ request' = [x \in Requests |-> IF request[x].org = o /\ request[x].subject = s
                                     THEN [request[x] EXCEPT !.barred = FALSE] ELSE request[x]]
  /\ UNCHANGED <<pool, preferences, profile, organization>>

OnApplicationShutdown ==
  pool = "open" /\ pool' = "closed" /\ UNCHANGED <<tables, request>>

Next ==
  \/ OnApplicationShutdown
  \/ \E o \in Organizations, s \in Subjects, row \in Rows : Provision(o, s, row)
  \/ \E r \in Requests :
       \/ \E kind \in ReadKinds, s \in Subjects \cup {None}, o \in Organizations : Arrive(r, kind, s, o, None, None)
       \/ \E kind \in WriteKinds \ {"putStatus"}, s \in Subjects, o \in Organizations, v \in Values :
            Arrive(r, kind, s, o, None, v)
       \/ \E s, t \in Subjects, o \in Organizations, status \in {"active", "suspended"} :
            Arrive(r, "putStatus", s, o, t, status)
       \/ BadRequest(r) \/ PreferencesContext(r) \/ ProfileContext(r) \/ OrganizationProfileContext(r)
       \/ StatusContext(r) \/ TeamContext(r) \/ BootstrapContext(r)
       \/ Forbidden(r) \/ PersistenceUnavailable(r)
       \/ ListWorkspaces(r) \/ GetBootstrap(r) \/ GetTeam(r)
       \/ GetPreferences(r) \/ PutPreferences(r) \/ GetProfile(r) \/ PutProfile(r)
       \/ GetOrganizationProfile(r) \/ PutOrganizationProfile(r) \/ PutStatus(r)

Spec == Init /\ [][Next]_vars
-------------------------------------------------------------------------------
\* Who changes the status of a member is, at that moment, an active member who
\* may manage the team: two who suspend each other at once cannot both succeed,
\* though each was authorized before the other one's update.
ActorStillManages ==
  [][\A o \in Organizations, t \in Subjects :
       membership[<<o, t>>] # None /\ membership'[<<o, t>>] # membership[<<o, t>>]
         => \E r \in Requests : /\ request[r].pc = "resolved" /\ request[r].kind = "putStatus"
                                /\ request[r].org = o /\ request[r].target = t
                                /\ Holds(membership[<<o, request[r].subject>>], "team.manage")]_vars

\* A suspension takes effect with the answer to it: a request that arrives while
\* its subject is no active member is refused by every tenant route, unless the
\* membership is reinstated in the meantime.
SuspensionIsEffective ==
  \A r \in Requests : request[r].pc = "idle" /\ request[r].barred => request[r].answer \in Refused
===============================================================================
