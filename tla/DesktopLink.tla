------------------------------ MODULE DesktopLink ------------------------------
(***************************************************************************)
(* The desktop link API: concurrent requests that issue, inspect, revoke   *)
(* and consume one-time exchange records in PostgreSQL.  Each request is   *)
(* authorized, reads a record, reads the clock, decides, and writes with   *)
(* one conditional statement; other requests run between any two of these. *)
(* A store operation may fail, before or after it took effect.             *)
(*                                                                         *)
(* The token minted with a record is represented by the id of the record:  *)
(* its digest matches no other record.                                     *)
(***************************************************************************)
EXTENDS Integers, Sequences

CONSTANTS Subjects, Organizations, Devices,
          Records,   \* record ids that randomUUID returns
          Calls,     \* requests in progress at a time
          None,      \* no record, no row
          MinTtl,    \* MIN_TTL_MS
          MaxTtl,    \* MAX_TTL_MS
          MaxSkew,   \* bound on the difference of the clocks of the replicas
          MaxTime    \* bound on the time

ASSUME NoneAssumption == None \notin Records
ASSUME TtlAssumption == MinTtl \in Nat \ {0} /\ MaxTtl \in Nat /\ MinTtl <= MaxTtl
ASSUME BoundsAssumption == MaxSkew \in Nat /\ MaxTime \in Nat

VARIABLES table,    \* desktop_link_records
          members,  \* who has an active membership with device.link, and where
          time,
          call,     \* the requests in progress
          links,    \* ghost: who was answered that it is linked, for each record
          told      \* ghost: the statuses that answers gave, for each record

vars == <<table, members, time, call, links, told>>

Principals == [subject : Subjects, organization : Organizations, device : Devices]
Memberships == Subjects \X Organizations

Row(who, issued, expires, status, consumed) ==
  [who |-> who, issued |-> issued, expires |-> expires, status |-> status, consumed |-> consumed]

NoCall == [at |-> "idle"]

Init ==
  /\ table = [r \in Records |-> None]
  /\ members = Memberships
  /\ time = 0
  /\ call = [c \in Calls |-> NoCall]
  /\ links = [r \in Records |-> <<>>]
  /\ told = [r \in Records |-> {}]

-------------------------------------------------------------------------------
\* What a request carries from one of its steps to the next.
Requested(op, who, r, token, ttl) ==
  [at |-> "authorize", op |-> op, who |-> who, record |-> r, token |-> token, ttl |-> ttl]
Fetching(k) == [at |-> "get", op |-> k.op, who |-> k.who, record |-> k.record, token |-> k.token]
Minting(k) == [at |-> "mint", who |-> k.who, ttl |-> k.ttl]
Deciding(k, row) ==
  [at |-> "decide", op |-> k.op, who |-> k.who, record |-> k.record, token |-> k.token, row |-> row]
Writing(k, now) ==
  [at |-> "write", op |-> k.op, who |-> k.who, record |-> k.record, token |-> k.token, now |-> now]
Inserting(r, row) == [at |-> "insert", record |-> r, row |-> row]

Become(c, state) == call' = [call EXCEPT ![c] = state]
Proceed(c, state) == Become(c, state) /\ UNCHANGED <<table, members, time, links, told>>
Return(c) == Become(c, NoCall)

\* A request that is denied, or that fails before it changed anything.
Refuse(c) == Proceed(c, NoCall)

Request(c) ==
  /\ call[c].at = "idle"
  /\ \E who \in Principals :
       \/ \E ttl \in 0 .. MaxTtl + 1 : Proceed(c, Requested("issue", who, None, None, ttl))
       \/ \E op \in {"inspect", "revoke"}, r \in Records :
            Proceed(c, Requested(op, who, r, None, 0))
       \/ \E r \in Records, token \in Records \union {None} :
            Proceed(c, Requested("consume", who, r, token, 0))

\* resolveAuthorizedContext
Authorize(c) ==
  LET k == call[c] IN
  /\ k.at = "authorize" /\ <<k.who.subject, k.who.organization>> \in members
  /\ Proceed(c, IF k.op = "issue" THEN Minting(k) ELSE Fetching(k))

\* store.get: the checks are made on the record as it is now.
Get(c) ==
  LET k == call[c] IN
  /\ k.at = "get"
  /\ Proceed(c, Deciding(k, table[k.record]))

\* The identity, the membership or the store is not available, or access is denied.
Fail(c) ==
  /\ call[c].at \in {"authorize", "get", "insert", "write"}
  /\ Refuse(c)

-------------------------------------------------------------------------------
\* now() of the replica that serves a request.
Clock == {t \in 0 .. MaxTime + MaxSkew : t - time \in -MaxSkew .. MaxSkew}

\* Mutant: the lower bound of the lifetime is not checked.
ValidTtlUnbounded(ttl) == ttl <= MaxTtl

ValidTtl(ttl) == ttl \in MinTtl .. MaxTtl

\* issue, up to store.put: the id is fresh.
Mint(c) ==
  LET k == call[c] IN
  /\ k.at = "mint"
  /\ \/ /\ ValidTtl(k.ttl)
        /\ \E r \in Records, now \in Clock :
             /\ table[r] = None /\ \A d \in Calls : call[d].at = "insert" => call[d].record # r
             /\ Proceed(c, Inserting(r, Row(k.who, now, now + k.ttl, "issued", None)))
     \/ ~ValidTtl(k.ttl) /\ Refuse(c)

\* The client gets its answer, or loses it with the connection.
Answer(c, r, answer, answered) ==
  /\ told' = IF answered THEN [told EXCEPT ![r] = @ \union {answer}] ELSE told
  /\ Return(c)
Tell(c, r, answer) == \E answered \in BOOLEAN : Answer(c, r, answer, answered)

Insert(c) ==
  LET k == call[c] IN
  /\ k.at = "insert"
  /\ table' = [table EXCEPT ![k.record] = k.row]
  /\ Tell(c, k.record, "issued")
  /\ UNCHANGED <<members, time, links>>

Expired(row, now) == now >= row.expires
SameTenant(who, row) == who.subject = row.who.subject /\ who.organization = row.who.organization

\* inspect
Inspect(c) ==
  LET k == call[c] IN
  /\ k.at = "decide" /\ k.op = "inspect" /\ k.row # None /\ SameTenant(k.who, k.row)
  /\ \E now \in Clock :
       Tell(c, k.record, IF k.row.status = "issued" /\ Expired(k.row, now) THEN "expired" ELSE k.row.status)
  /\ UNCHANGED <<table, members, time, links>>

\* revoke, up to store.revokeIfIssued
DecideRevoke(c) ==
  LET k == call[c] IN
  /\ k.at = "decide" /\ k.op = "revoke" /\ k.row # None /\ SameTenant(k.who, k.row)
  /\ \/ /\ k.row.status = "revoked"
        /\ Tell(c, k.record, "revoked") /\ UNCHANGED <<table, members, time, links>>
     \/ /\ k.row.status = "issued"
        /\ \E now \in Clock : ~Expired(k.row, now) /\ Proceed(c, Writing(k, now))

\* consume, up to store.consumeIfIssued
DecideConsume(c) ==
  LET k == call[c] IN
  /\ k.at = "decide" /\ k.op = "consume" /\ k.row # None
  /\ k.row.status = "issued" /\ k.token = k.record /\ k.who = k.row.who
  /\ \E now \in Clock : ~Expired(k.row, now) /\ Proceed(c, Writing(k, now))

\* The checks that deny a request, made on the record that was read.
Denied(k, now) ==
  IF k.row = None THEN TRUE
  ELSE \/ ~SameTenant(k.who, k.row)
       \/ k.op # "inspect" /\ k.row.status = "issued" /\ Expired(k.row, now)
       \/ k.op = "revoke" /\ k.row.status = "consumed"
       \/ k.op = "consume" /\ (k.row.status # "issued" \/ k.token # k.record \/ k.who # k.row.who)

Deny(c) ==
  /\ call[c].at = "decide" /\ \E now \in Clock : Denied(call[c], now)
  /\ Refuse(c)

-------------------------------------------------------------------------------
\* Mutant: the statements check the lifetime only.
PendingUnguarded(row, now) == row.issued <= now /\ now < row.expires

\* The guard of both conditional statements.
Pending(row, now) == row.status = "issued" /\ row.issued <= now /\ now < row.expires

Update(r, row) == table' = [table EXCEPT ![r] = row]

\* Mutant: a revocation that lost the race is taken for one that was made before.
RevokeIfIssuedAssumed(c) ==
  LET k == call[c]  row == table[call[c].record] IN
  /\ k.at = "write" /\ k.op = "revoke"
  /\ IF Pending(row, k.now) /\ SameTenant(k.who, row)
     THEN Update(k.record, Row(row.who, row.issued, row.expires, "revoked", None))
     ELSE UNCHANGED table
  /\ Tell(c, k.record, "revoked") /\ UNCHANGED <<members, time, links>>

\* store.revokeIfIssued
RevokeIfIssued(c) ==
  LET k == call[c]  row == table[call[c].record] IN
  /\ k.at = "write" /\ k.op = "revoke"
  /\ IF Pending(row, k.now) /\ SameTenant(k.who, row)
     THEN /\ Update(k.record, Row(row.who, row.issued, row.expires, "revoked", None))
          /\ Tell(c, k.record, "revoked") /\ UNCHANGED <<members, time, links>>
     ELSE Refuse(c)

\* store.consumeIfIssued
ConsumeIfIssued(c) ==
  LET k == call[c]  row == table[call[c].record] IN
  /\ k.at = "write" /\ k.op = "consume"
  /\ IF Pending(row, k.now) /\ k.token = k.record
     THEN /\ Update(k.record, Row(row.who, row.issued, row.expires, "consumed", k.now))
          /\ \E answered \in BOOLEAN :
               /\ Answer(c, k.record, "consumed", answered)
               /\ links' = IF answered THEN [links EXCEPT ![k.record] = Append(@, k.who)] ELSE links
          /\ UNCHANGED <<members, time>>
     ELSE Refuse(c)

\* Memberships are suspended and restored, and time passes, whatever is in progress.
Suspend == \E m \in members : members' = members \ {m} /\ UNCHANGED <<table, time, call, links, told>>
Restore ==
  \E m \in Memberships \ members :
    members' = members \union {m} /\ UNCHANGED <<table, time, call, links, told>>
Tick == time < MaxTime /\ time' = time + 1 /\ UNCHANGED <<table, members, call, links, told>>

Next ==
  \/ \E c \in Calls :
       \/ Request(c) \/ Authorize(c) \/ Get(c) \/ Fail(c)
       \/ Mint(c) \/ Insert(c) \/ Inspect(c) \/ Deny(c)
       \/ DecideRevoke(c) \/ RevokeIfIssued(c) \/ DecideConsume(c) \/ ConsumeIfIssued(c)
  \/ Suspend \/ Restore \/ Tick

Spec == Init /\ [][Next]_vars
-------------------------------------------------------------------------------
Times == 0 .. MaxTime + MaxSkew + MaxTtl
Rows == {row \in [who : Principals, issued : Times, expires : Times,
                  status : {"issued", "consumed", "revoked"}, consumed : Times \union {None}] :
          /\ row.issued < row.expires
          /\ IF row.status = "consumed" THEN row.consumed \in row.issued .. row.expires - 1
                                        ELSE row.consumed = None}

ASSUME NoneIsNoValue == None \notin Rows \union Times \union Principals

\* A record lives for a time, and is consumed in that time or not at all.
TypeOK ==
  /\ table \in [Records -> Rows \union {None}]
  /\ members \subseteq Memberships /\ time \in 0 .. MaxTime
  /\ links \in [Records -> Seq(Principals)]
  /\ told \in [Records -> SUBSET {"issued", "expired", "consumed", "revoked"}]
  /\ DOMAIN call = Calls

\* The last word is the last word: a record that a request was told is revoked is never
\* linked, neither by a request that had found it pending, and the other way round.
AnswersAgree ==
  \A r \in Records :
    /\ told[r] # {} \/ links[r] # <<>> => table[r] # None
    /\ \A final \in {"consumed", "revoked"} : final \in told[r] => table[r].status = final
    /\ links[r] # <<>> => table[r].status = "consumed"

Exchange == INSTANCE DesktopLinkExchange WITH
  status <- [r \in Records |-> IF table[r] = None THEN "absent" ELSE table[r].status],
  owner <- [r \in Records |-> IF table[r] = None THEN None ELSE table[r].who]

\* The racing requests keep the promise of the one-time exchange.
ImplementsExchange == Exchange!Spec
===============================================================================
