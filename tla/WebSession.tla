------------------------------ MODULE WebSession ------------------------------
(***************************************************************************)
(* The login of the web application and the session it leaves in one       *)
(* browser (apps/web/lib/web-session.ts), the proxy that forwards requests *)
(* with it (apps/web/lib/api-proxy.ts) and the verifier of the API that    *)
(* judges the token (services/api/src/identity).                           *)
(*                                                                         *)
(* A browser has several requests under way, of several tabs.  It adds its *)
(* two cookies when it sends one and applies what the answer sets when the *)
(* answer arrives, so a request may act on cookies that have changed and   *)
(* the last answer to arrive decides.  A login stands for its state, its   *)
(* verifier and the code that the identity provider gives for it; a cookie *)
(* stands for what was sealed in it.  Seconds are ticks of now; the clock  *)
(* of the API is off by at most Drift.                                     *)
(***************************************************************************)
EXTENDS Integers, Sequences

CONSTANTS
  Logins,           \* the logins that may be begun
  Requests,         \* the requests the browser may have under way
  Keys, Kid,        \* key ids; the one in the header of the tokens, or None
  None, Keep,       \* no cookie; a cookie that an answer leaves alone
  LoginTtl,         \* LOGIN_TRANSACTION_TTL_SECONDS
  MaxSessionTtl,    \* MAX_SESSION_TTL_SECONDS
  Lifetimes,        \* expires_in of the tokens
  ProxyTimeout,     \* timeoutMs of the proxy
  Skew,             \* clockSkewSeconds of the verifier
  Drift,            \* how far the API's clock is off
  MaxTime           \* bound on now

ASSUME TimesAssumption ==
  /\ LoginTtl \in Nat /\ MaxSessionTtl \in Nat \ {0} /\ Lifetimes \subseteq Nat \ {0}
  /\ ProxyTimeout \in Nat \ {0} /\ Skew \in Nat /\ Drift \in Nat /\ MaxTime \in Nat

\* What the deployment must grant: a token that was live when it was forwarded
\* is judged at most ProxyTimeout later by a clock at most Drift ahead.
ASSUME SkewAssumption == ProxyTimeout + Drift <= Skew

ASSUME NoneAssumption == Kid \in Keys \cup {None} /\ None \notin Logins \cup Nat \cup Keys /\ Keep # None /\ Keep \notin Logins

VARIABLES
  env,       \* the configuration of the web server and of the API
  now,
  cookies,   \* the browser's: tx, the login transaction; session
  login,     \* per login: when it began, its code, its token
  request    \* the browser's requests
vars == <<env, now, cookies, login, request>>

Kinds == {"login", "callback", "logout", "api"}
Tokens == [iat : Nat, exp : Nat]
Sessions == [login : Logins, expiresAt : Nat]
Leave == [tx |-> Keep, session |-> Keep]
Idle == [pc |-> "idle", kind |-> "api", code |-> None, allowed |-> TRUE,
         cookies |-> [tx |-> None, session |-> None], at |-> 0, token |-> None,
         status |-> "none", set |-> Leave]
-------------------------------------------------------------------------------
(* The configuration, read from the environment. *)

LoadWebSessionConfig(required, secret, valid) ==
  IF required = "none" /\ ~secret THEN "not_configured"
  ELSE IF required # "all" \/ ~valid THEN "invalid" ELSE "configured"

LoadApiProxyConfig(origin, valid) ==
  IF ~origin THEN "not_configured" ELSE IF valid THEN "configured" ELSE "invalid"

Distinct(jwks) == \A i, j \in DOMAIN jwks : jwks[i] = jwks[j] /\ jwks[i] # None => i = j

\* A key set is the sequence of its key ids, None for a key without one.
ParseOidcJwks(jwks) ==
  Len(jwks) > 0 /\ Distinct(jwks) /\ (Len(jwks) > 1 => \A i \in DOMAIN jwks : jwks[i] # None)

\* The verifiers the API may start with: a partial or invalid configuration is
\* a startup error, none at all leaves the resolver that rejects everyone.
LoadOptionalOidcVerifierConfig(present, jwks) ==
  IF present = "none" THEN {<<>>}
  ELSE IF present = "all" /\ ParseOidcJwks(jwks) THEN {jwks} ELSE {}

KeySets == UNION {[1 .. n -> Keys \cup {None}] : n \in 0 .. 2}

\* web and proxy: whether they are configured, all that the handlers ask.
Environments ==
  [web : {LoadWebSessionConfig(q, s, v) = "configured" : q \in {"none", "some", "all"}, s, v \in BOOLEAN},
   proxy : {LoadApiProxyConfig(o, v) = "configured" : o, v \in BOOLEAN},
   keys : UNION {LoadOptionalOidcVerifierConfig(p, j) : p \in {"none", "some", "all"}, j \in KeySets}]

Cookies == [tx : Logins \cup {None}, session : Sessions \cup {None}]
LoginStates == [began : Nat \cup {None}, presented : BOOLEAN,
                code : {"none", "asked", "given", "spent"}, token : Tokens \cup {None}]
RequestStates ==
  [pc : {"idle", "sent", "exchanging", "redeemed", "fetching", "judged", "answered"},
   kind : Kinds, code : Logins \cup {None}, allowed : BOOLEAN, cookies : Cookies,
   at : Nat, token : Logins \cup {None},
   status : {"none", "redirect", "unavailable", "rejected", "failed", "refused", "401", "ok"},
   set : [tx : Logins \cup {None, Keep}, session : Sessions \cup {None, Keep}]]

\* Types; and no session is longer than its cap, whatever the token allows.
TypeOK ==
  /\ env \in Environments /\ now \in Nat /\ cookies \in Cookies
  /\ login \in [Logins -> LoginStates] /\ request \in [Requests -> RequestStates]
  /\ cookies.session # None => cookies.session.expiresAt <= now + MaxSessionTtl

Init ==
  /\ env \in Environments /\ now = 0
  /\ cookies = [tx |-> None, session |-> None]
  /\ login = [l \in Logins |-> [began |-> None, presented |-> FALSE, code |-> "none", token |-> None]]
  /\ request = [r \in Requests |-> Idle]
-------------------------------------------------------------------------------
Become(r, state) == request' = [request EXCEPT ![r] = state]

\* What a request carried is forgotten when it is answered, but for its code.
Answered(r, status, set) ==
  Become(r, [Idle EXCEPT !.pc = "answered", !.kind = request[r].kind, !.code = request[r].code,
                         !.status = status, !.set = set])

(* The browser. *)

\* Fetch metadata decide when the browser sends them, else the origin does.
IsSameOriginMutation(fetchSite, origin) ==
  IF fetchSite # None THEN fetchSite = "same-origin" ELSE origin \in {"request", "public"}

\* Whether a request passes that guard: only a mutation or a logout is asked.
Permitted(kind) ==
  IF kind \in {"login", "callback"} THEN {TRUE}
  ELSE {IsSameOriginMutation(f, o) : f \in {None, "same-origin", "cross-site"},
                                     o \in {None, "request", "public", "other"}}

\* The one of its cookies that the handler of a request reads.
Carried(kind) == [tx |-> IF kind = "callback" THEN cookies.tx ELSE None,
                  session |-> IF kind = "api" THEN cookies.session ELSE None]

Send(r, kind, l, allowed) ==
  /\ request[r].pc = "idle" /\ allowed \in Permitted(kind)
  /\ IF kind = "callback" THEN l \in Logins /\ login[l].code \in {"given", "spent"} ELSE l = None
  /\ Become(r, [Idle EXCEPT !.pc = "sent", !.kind = kind, !.code = l, !.allowed = allowed,
                            !.cookies = Carried(kind)])
  /\ UNCHANGED <<env, now, cookies, login>>

\* The answer arrives: its cookies are stored, and the answer of a login takes
\* the browser to the identity provider.
Receive(r) ==
  /\ request[r].pc = "answered"
  /\ cookies' = [tx |-> IF request[r].set.tx = Keep THEN cookies.tx ELSE request[r].set.tx,
                 session |-> IF request[r].set.session = Keep THEN cookies.session ELSE request[r].set.session]
  /\ login' = [l \in Logins |-> IF request[r].kind = "login" /\ request[r].set.tx = l /\ login[l].code = "none"
                                THEN [login[l] EXCEPT !.code = "asked"] ELSE login[l]]
  /\ Become(r, Idle)
  /\ UNCHANGED <<env, now>>

\* The request or its answer is lost, or the tab is closed.
Lose(r) ==
  /\ request[r].pc \in {"sent", "answered"}
  /\ Become(r, Idle)
  /\ UNCHANGED <<env, now, cookies, login>>
-------------------------------------------------------------------------------
(* /auth/login, /auth/callback, /auth/logout. *)

Unavailable(r) ==
  /\ request[r].pc = "sent" /\ request[r].kind \in {"login", "callback", "logout"}
  /\ ~env.web
  /\ Answered(r, "unavailable", Leave)
  /\ UNCHANGED <<env, now, cookies, login>>

\* A new state and verifier replace those of a login that is under way.
BeginLogin(r, l) ==
  /\ request[r].pc = "sent" /\ request[r].kind = "login" /\ env.web
  /\ login[l].began = None
  /\ login' = [login EXCEPT ![l].began = now]
  /\ Answered(r, "redirect", [tx |-> l, session |-> Keep])
  /\ UNCHANGED <<env, now, cookies>>

\* Variant: a transaction is refused in its last second.
TransactionAcceptedShort(r) ==
  LET tx == request[r].cookies.tx
  IN tx # None /\ now - login[tx].began < LoginTtl /\ request[r].code = tx
TransactionAccepted(r) ==
  LET tx == request[r].cookies.tx
  IN tx # None /\ now - login[tx].began <= LoginTtl /\ request[r].code = tx

LoginFailed(r, why) == Answered(r, why, [tx |-> None, session |-> Keep])

\* The callback is checked; its code goes to the token endpoint together with
\* the verifier of the transaction.  The clock was read before.
CompleteLogin(r) ==
  /\ request[r].pc = "sent" /\ request[r].kind = "callback" /\ env.web
  /\ TransactionAccepted(r)
  /\ Become(r, [Idle EXCEPT !.pc = "exchanging", !.kind = "callback", !.at = now,
                            !.code = request[r].code, !.cookies = request[r].cookies])
  /\ login' = [login EXCEPT ![request[r].code].presented = TRUE]
  /\ UNCHANGED <<env, now, cookies>>

RejectCallback(r) ==
  /\ request[r].pc = "sent" /\ request[r].kind = "callback" /\ env.web
  /\ ~TransactionAccepted(r)
  /\ LoginFailed(r, "rejected")
  /\ UNCHANGED <<env, now, cookies, login>>

\* An error status, a body that is too long or no token, the abort of the timer,
\* or a session that does not fit in a cookie.
ExchangeFails(r) ==
  /\ request[r].pc \in {"exchanging", "redeemed"}
  /\ LoginFailed(r, "failed")
  /\ UNCHANGED <<env, now, cookies, login>>

\* Variant: the lifetime is not capped.
TtlUncapped(r) == LET token == login[request[r].code].token IN token.exp - token.iat
Ttl(r) == LET token == login[request[r].code].token
          IN IF token.exp - token.iat < MaxSessionTtl THEN token.exp - token.iat ELSE MaxSessionTtl

\* Variant: the clock is read after the exchange.
ExpiresAtLate(r) == now + Ttl(r)
ExpiresAt(r) == request[r].at + Ttl(r)

EstablishSession(r) ==
  /\ request[r].pc = "redeemed"
  /\ Answered(r, "redirect", [tx |-> None, session |-> [login |-> request[r].code, expiresAt |-> ExpiresAt(r)]])
  /\ UNCHANGED <<env, now, cookies, login>>

Logout(r) ==
  /\ request[r].pc = "sent" /\ request[r].kind = "logout" /\ env.web
  /\ IF request[r].allowed THEN Answered(r, "redirect", [tx |-> Keep, session |-> None])
     ELSE Answered(r, "refused", Leave)
  /\ UNCHANGED <<env, now, cookies, login>>
-------------------------------------------------------------------------------
(* The identity provider. *)

Authenticate(l) ==
  /\ login[l].code = "asked"
  /\ login' = [login EXCEPT ![l].code = "given"]
  /\ UNCHANGED <<env, now, cookies, request>>

\* A code is exchanged once, with the verifier of its own login.
Redeem(r) ==
  /\ request[r].pc = "exchanging"
  /\ login[request[r].code].code = "given" /\ request[r].cookies.tx = request[r].code
  /\ \E life \in Lifetimes :
       login' = [login EXCEPT ![request[r].code] =
                   [@ EXCEPT !.code = "spent", !.token = [iat |-> now, exp |-> now + life]]]
  /\ Become(r, [request[r] EXCEPT !.pc = "redeemed"])
  /\ UNCHANGED <<env, now, cookies>>
-------------------------------------------------------------------------------
(* /v1: the proxy, and the API's judgement of the token. *)

SessionAccessToken(session) ==
  IF env.web /\ session # None /\ session.expiresAt > now THEN session.login ELSE None

Forwardable(r) == env.proxy /\ request[r].allowed

\* Not configured; or the method, the origin, the path, the query or the body
\* is refused.
ProxyRefuses(r) ==
  /\ request[r].pc = "sent" /\ request[r].kind = "api"
  /\ \/ ~env.proxy /\ Answered(r, "unavailable", Leave)
     \/ env.proxy /\ Answered(r, "refused", Leave)
  /\ UNCHANGED <<env, now, cookies, login>>

Forward(r) ==
  /\ request[r].pc = "sent" /\ request[r].kind = "api" /\ Forwardable(r)
  /\ Become(r, [Idle EXCEPT !.pc = "fetching", !.at = now,
                            !.token = SessionAccessToken(request[r].cookies.session)])
  /\ UNCHANGED <<env, now, cookies, login>>

\* Without a key id only a key set of one key is unambiguous.
SelectKey(keys) == IF Kid = None THEN Len(keys) = 1 ELSE \E i \in DOMAIN keys : keys[i] = Kid

\* Variant: no allowance for clocks that differ.
PrincipalFromClaimsExact(token, clock) == token.exp > clock /\ token.iat <= clock
PrincipalFromClaims(token, clock) == token.exp > clock - Skew /\ token.iat <= clock + Skew

Verify(token, clock) == env.keys # <<>> /\ SelectKey(env.keys) /\ PrincipalFromClaims(token, clock)

ResolveTrustedPrincipal(r, clock) == request[r].token # None /\ Verify(login[request[r].token].token, clock)

Judge(r) ==
  /\ request[r].pc = "fetching"
  /\ \E d \in (- Drift) .. Drift :
       Become(r, [request[r] EXCEPT !.pc = "judged",
                    !.status = IF ResolveTrustedPrincipal(r, now + d) THEN "ok" ELSE "401"])
  /\ UNCHANGED <<env, now, cookies, login>>

\* The upstream's answer; a redirect or a body that is too long is a bad gateway.
ProxyAnswers(r) ==
  /\ request[r].pc = "judged"
  /\ \/ Answered(r, request[r].status, Leave)
     \/ Answered(r, "unavailable", Leave)
  /\ UNCHANGED <<env, now, cookies, login>>

\* No connection, or the abort of the timer.
ProxyFails(r) ==
  /\ request[r].pc \in {"fetching", "judged"}
  /\ Answered(r, "unavailable", Leave)
  /\ UNCHANGED <<env, now, cookies, login>>

\* The timer of a fetch fires in time.
Tick ==
  /\ now < MaxTime
  /\ \A r \in Requests : request[r].pc \in {"fetching", "judged"} => now - request[r].at < ProxyTimeout
  /\ now' = now + 1
  /\ UNCHANGED <<env, cookies, login, request>>
-------------------------------------------------------------------------------
Next ==
  \/ Tick
  \/ \E l \in Logins : Authenticate(l)
  \/ \E r \in Requests :
       \/ \E kind \in Kinds, l \in Logins \cup {None}, same \in BOOLEAN : Send(r, kind, l, same)
       \/ \E l \in Logins : BeginLogin(r, l)
       \/ Receive(r) \/ Lose(r) \/ Unavailable(r) \/ CompleteLogin(r) \/ RejectCallback(r)
       \/ ExchangeFails(r) \/ EstablishSession(r) \/ Logout(r) \/ Redeem(r)
       \/ ProxyRefuses(r) \/ Forward(r) \/ Judge(r) \/ ProxyAnswers(r) \/ ProxyFails(r)

Spec == Init /\ [][Next]_vars
-------------------------------------------------------------------------------
\* A token that the proxy forwarded from a live session is never refused by the
\* API, however long the exchange took and whichever way its clock is off: the
\* session ends no later than its token, and a signed-in user is never told to
\* sign in again by a request that the web server still held for signed in.
ForwardedIsAccepted ==
  \A r \in Requests : request[r].pc = "judged" /\ request[r].status = "401"
    => request[r].token = None \/ env.keys = <<>> \/ ~SelectKey(env.keys)

\* The callback of a login is turned away only for a reason the user can see:
\* the transaction is older than its ten minutes, its code was presented
\* already, or another login was begun in the same browser (the two share one
\* cookie, and whichever callback comes first spends it).
RejectedForCause ==
  \A r \in Requests : request[r].pc = "answered" /\ request[r].status = "rejected"
    => LET l == request[r].code
       IN \/ now - login[l].began > LoginTtl
          \/ login[l].presented
          \/ \E m \in Logins \ {l} : login[m].began # None
===============================================================================
