--------------------------- MODULE WebSessionProofs ---------------------------
(***************************************************************************)
(* The promises of the web session for every number of logins and requests *)
(* under way, all lifetimes of tokens and all clocks: proofs for           *)
(* WebSession.                                                             *)
(*                                                                         *)
(* The inductive invariant says of every request what it may still do with *)
(* what it carries: a session, wherever it is held, ends no later than the *)
(* token of its login; a request that was forwarded had a live token, not  *)
(* longer ago than the timer allows; and a callback carries the            *)
(* transaction of its login unless there is a cause why it does not.       *)
(***************************************************************************)
EXTENDS WebSession, TLAPS

\* A token that was given out by time t.
Given(one, t) ==
  one.code = "spent" /\ one.token \in Tokens /\ one.token.iat <= t /\ one.token.iat < one.token.exp

\* A session, held by a cookie, a request or an answer.
Sound(session, lg, t) ==
  session # None =>
    /\ session \in Sessions /\ Given(lg[session.login], t)
    /\ session.expiresAt <= lg[session.login].token.exp
    /\ session.expiresAt <= t + MaxSessionTtl

\* Why the callback of l may be turned away.
Cause(l, lg, t) ==
  \/ t - lg[l].began > LoginTtl
  \/ lg[l].presented
  \/ \E m \in Logins \ {l} : lg[m].began # None

\* The state q of a request.
Fits(q, lg, t, keys) ==
  /\ q \in RequestStates
  /\ Sound(q.cookies.session, lg, t)
  /\ q.set.session # Keep => Sound(q.set.session, lg, t)
  /\ q.cookies.tx # None => lg[q.cookies.tx].began # None
  /\ q.set.tx \notin {None, Keep} => lg[q.set.tx].began # None
  /\ q.pc \in {"exchanging", "redeemed"} =>
       q.code \in Logins /\ lg[q.code].presented /\ lg[q.code].began # None /\ q.at <= t
  /\ q.pc = "redeemed" => Given(lg[q.code], t) /\ q.at <= lg[q.code].token.iat
  /\ q.pc \in {"fetching", "judged"} =>
       /\ q.at <= t /\ t - q.at <= ProxyTimeout
       /\ q.token # None =>
            Given(lg[q.token], t) /\ lg[q.token].token.iat <= q.at /\ q.at < lg[q.token].token.exp
  /\ q.pc = "judged" =>
       /\ q.status \in {"ok", "401"}
       /\ q.status = "401" => q.token = None \/ keys = <<>> \/ ~SelectKey(keys)
  /\ q.pc = "sent" /\ q.kind = "callback" =>
       /\ q.code \in Logins /\ lg[q.code].began # None
       /\ q.cookies.tx = q.code \/ Cause(q.code, lg, t)
  /\ q.pc = "answered" /\ q.set.tx = None =>
       q.code \in Logins /\ lg[q.code].began # None /\ Cause(q.code, lg, t)
  /\ q.pc = "answered" /\ q.status = "rejected" => q.set.tx = None

\* The browser's transaction is that of every login that is under way, unless
\* there is a cause.
Held(l, tx, lg, t) ==
  lg[l].code # "none" => lg[l].began # None /\ (tx = l \/ Cause(l, lg, t))

CookiesFit ==
  /\ Sound(cookies.session, login, now)
  /\ cookies.tx # None => login[cookies.tx].began # None
  /\ \A l \in Logins : Held(l, cookies.tx, login, now)

IInv ==
  /\ env \in Environments /\ now \in Nat /\ cookies \in Cookies
  /\ login \in [Logins -> LoginStates]
  /\ request \in [Requests -> RequestStates]
  /\ \A r \in Requests : Fits(request[r], login, now, env.keys)
  /\ CookiesFit
-------------------------------------------------------------------------------
(* What is known of a login stays so. *)

Grows(lg, lg2) ==
  \A l \in Logins :
    /\ lg[l].began # None => lg2[l].began = lg[l].began
    /\ lg[l].presented => lg2[l].presented
    /\ lg[l].code = "spent" => lg2[l].code = "spent" /\ lg2[l].token = lg[l].token

LEMMA SoundGrows ==
  ASSUME NEW lg \in [Logins -> LoginStates], NEW lg2 \in [Logins -> LoginStates], Grows(lg, lg2),
         NEW t \in Nat, NEW t2 \in Nat, t <= t2, NEW session, Sound(session, lg, t)
  PROVE  Sound(session, lg2, t2)
  <1> USE TimesAssumption
  <1> SUFFICES ASSUME session # None PROVE Sound(session, lg2, t2)
    BY DEF Sound
  <1>1. session \in Sessions /\ session.login \in Logins /\ session.expiresAt \in Nat
    BY DEF Sound, Sessions
  <1>2. Given(lg2[session.login], t2) /\ lg2[session.login].token = lg[session.login].token
    BY <1>1 DEF Sound, Given, Grows, LoginStates, Tokens
  <1> QED
    BY <1>1, <1>2 DEF Sound

LEMMA CauseGrows ==
  ASSUME NEW lg \in [Logins -> LoginStates], NEW lg2 \in [Logins -> LoginStates], Grows(lg, lg2),
         NEW t \in Nat, NEW t2 \in Nat, t <= t2, NEW l \in Logins, lg[l].began # None, Cause(l, lg, t)
  PROVE  Cause(l, lg2, t2)
  <1>1. CASE t - lg[l].began > LoginTtl
    <2>1. lg[l].began \in Nat /\ lg2[l].began = lg[l].began
      BY DEF Grows, LoginStates
    <2> QED
      BY <1>1, <2>1, TimesAssumption DEF Cause
  <1>2. CASE lg[l].presented
    BY <1>2 DEF Cause, Grows
  <1>3. CASE \E m \in Logins \ {l} : lg[m].began # None
    BY <1>3 DEF Cause, Grows
  <1> QED
    BY <1>1, <1>2, <1>3 DEF Cause

LEMMA FitsGrows ==
  ASSUME NEW lg \in [Logins -> LoginStates], NEW lg2 \in [Logins -> LoginStates], Grows(lg, lg2),
         NEW t \in Nat, NEW t2 \in Nat, t <= t2, NEW q, NEW keys, Fits(q, lg, t, keys),
         q.pc \in {"fetching", "judged"} => t2 - q.at <= ProxyTimeout
  PROVE  Fits(q, lg2, t2, keys)
  <1>1. q \in RequestStates /\ q.at \in Nat /\ q.token \in Logins \cup {None}
        /\ q.cookies.tx \in Logins \cup {None} /\ q.set.tx \in Logins \cup {None, Keep}
    BY DEF Fits, RequestStates, Cookies
  <1>2. Sound(q.cookies.session, lg2, t2) /\ (q.set.session # Keep => Sound(q.set.session, lg2, t2))
    BY SoundGrows DEF Fits
  <1>3. /\ q.cookies.tx # None => lg2[q.cookies.tx].began # None
        /\ q.set.tx \notin {None, Keep} => lg2[q.set.tx].began # None
    BY <1>1 DEF Fits, Grows
  <1>4. q.pc \in {"exchanging", "redeemed"} =>
          q.code \in Logins /\ lg2[q.code].presented /\ lg2[q.code].began # None /\ q.at <= t2
    BY <1>1 DEF Fits, Grows
  <1>5. q.pc = "redeemed" => Given(lg2[q.code], t2) /\ q.at <= lg2[q.code].token.iat
    BY <1>1 DEF Fits, Grows, Given, Tokens
  <1>6. q.pc \in {"fetching", "judged"} =>
          /\ q.at <= t2 /\ t2 - q.at <= ProxyTimeout
          /\ q.token # None =>
               Given(lg2[q.token], t2) /\ lg2[q.token].token.iat <= q.at /\ q.at < lg2[q.token].token.exp
    BY <1>1 DEF Fits, Grows, Given, Tokens
  <1>7. /\ q.pc = "sent" /\ q.kind = "callback" =>
             /\ q.code \in Logins /\ lg2[q.code].began # None
             /\ q.cookies.tx = q.code \/ Cause(q.code, lg2, t2)
        /\ q.pc = "answered" /\ q.set.tx = None =>
             q.code \in Logins /\ lg2[q.code].began # None /\ Cause(q.code, lg2, t2)
    BY CauseGrows DEF Fits, Grows
  <1> QED
    BY <1>1, <1>2, <1>3, <1>4, <1>5, <1>6, <1>7 DEF Fits

LEMMA HeldGrows ==
  ASSUME NEW lg \in [Logins -> LoginStates], NEW lg2 \in [Logins -> LoginStates], Grows(lg, lg2),
         NEW t \in Nat, NEW t2 \in Nat, t <= t2, NEW l \in Logins, NEW tx, Held(l, tx, lg, t),
         lg2[l].code # "none" => lg[l].code # "none"
  PROVE  Held(l, tx, lg2, t2)
  <1>1. lg2[l].code # "none" => lg2[l].began # None
    BY DEF Held, Grows
  <1> QED
    BY <1>1, CauseGrows DEF Held, Grows

\* A step that answers nothing to the browser: one request moves to a state that
\* fits, and logins grow.
LEMMA BecomeFits ==
  ASSUME IInv, NEW r \in Requests, NEW q, Become(r, q), UNCHANGED <<env, now, cookies>>,
         login' \in [Logins -> LoginStates], Grows(login, login'),
         \A l \in Logins : login'[l].code # "none" => login[l].code # "none",
         Fits(q, login', now, env.keys)
  PROVE  IInv'
  <1> USE DEF IInv
  <1>1. request'[r] = q /\ (\A o \in Requests \ {r} : request'[o] = request[o])
    BY DEF Become
  <1>2. q \in RequestStates
    BY DEF Fits
  <1>3. request' \in [Requests -> RequestStates]
    BY <1>2 DEF Become
  <1>4. ASSUME NEW o \in Requests PROVE Fits(request'[o], login', now, env.keys)
    <2>1. CASE o = r
      BY <1>1, <2>1
    <2>2. CASE o # r
      <3>1. Fits(request[o], login, now, env.keys)
        OBVIOUS
      <3>2. request[o].pc \in {"fetching", "judged"} => now - request[o].at <= ProxyTimeout
        BY <3>1 DEF Fits
      <3>3. Fits(request[o], login', now, env.keys)
        BY <3>1, <3>2, FitsGrows
      <3> QED
        BY <1>1, <2>2, <3>3
    <2> QED
      BY <2>1, <2>2
  <1>5. \A o \in Requests : Fits(request[o], login, now, env.keys)'
    <2>1. now' = now /\ env' = env
      OBVIOUS
    <2> QED
      BY <1>4, <2>1
  <1>6. Sound(cookies.session, login', now)
    BY SoundGrows DEF CookiesFit
  <1>7. cookies.tx # None => login'[cookies.tx].began # None
    BY DEF CookiesFit, Grows, Cookies
  <1>8. \A l \in Logins : Held(l, cookies.tx, login', now)
    BY HeldGrows DEF CookiesFit
  <1>9. CookiesFit'
    <2>1. now' = now /\ cookies' = cookies
      OBVIOUS
    <2> QED
      BY <1>6, <1>7, <1>8, <2>1 DEF CookiesFit
  <1> QED
    BY <1>3, <1>5, <1>9

\* In particular when the logins stay as they are.
LEMMA BecomeFitsSame ==
  ASSUME IInv, NEW r \in Requests, NEW q, Become(r, q), UNCHANGED <<env, now, cookies, login>>,
         Fits(q, login, now, env.keys)
  PROVE  IInv'
  <1>1. Grows(login, login') /\ login' \in [Logins -> LoginStates]
    BY DEF Grows, IInv
  <1>2. Fits(q, login', now, env.keys)
    BY login' = login
  <1> QED
    BY <1>1, <1>2, BecomeFits

LEMMA IdleFits == \A lg, t, keys : Fits(Idle, lg, t, keys)
  BY NoneAssumption DEF Fits, Sound, Idle, Leave, RequestStates, Cookies, Kinds

\* An answer that sets no cookie, or takes the session away.
LEMMA AnswerFits ==
  ASSUME IInv, NEW r \in Requests,
         NEW status \in {"redirect", "unavailable", "refused", "401", "ok"},
         NEW session \in {None, Keep},
         Answered(r, status, [tx |-> Keep, session |-> session]), UNCHANGED <<env, now, cookies, login>>
  PROVE  IInv'
  <1> DEFINE q == [Idle EXCEPT !.pc = "answered", !.kind = request[r].kind, !.code = request[r].code,
                               !.status = status, !.set = [tx |-> Keep, session |-> session]]
  <1>1. request[r].kind \in Kinds /\ request[r].code \in Logins \cup {None}
    BY DEF IInv, RequestStates
  <1>2. Fits(q, login, now, env.keys)
    BY <1>1, NoneAssumption DEF Fits, Sound, Idle, Leave, RequestStates, Cookies
  <1>3. Become(r, q)
    BY DEF Answered
  <1> QED
    BY <1>2, <1>3, BecomeFitsSame

\* An answer that takes the transaction away.
LEMMA LoginFailedFits ==
  ASSUME IInv, NEW r \in Requests, NEW status \in {"rejected", "failed"},
         LoginFailed(r, status), UNCHANGED <<env, now, cookies, login>>,
         request[r].code \in Logins, login[request[r].code].began # None,
         Cause(request[r].code, login, now)
  PROVE  IInv'
  <1> DEFINE q == [Idle EXCEPT !.pc = "answered", !.kind = request[r].kind, !.code = request[r].code,
                               !.status = status, !.set = [tx |-> None, session |-> Keep]]
  <1>1. request[r].kind \in Kinds
    BY DEF IInv, RequestStates
  <1>2. Fits(q, login, now, env.keys)
    BY <1>1, NoneAssumption DEF Fits, Sound, Idle, Leave, RequestStates, Cookies
  <1>3. Become(r, q)
    BY DEF Answered, LoginFailed
  <1> QED
    BY <1>2, <1>3, BecomeFitsSame
-------------------------------------------------------------------------------
(* Every step. *)

LEMMA InitIInv == Init => IInv
  <1> SUFFICES ASSUME Init PROVE IInv
    OBVIOUS
  <1>1. Idle \in RequestStates
    BY DEF Idle, Leave, RequestStates, Cookies, Kinds
  <1>2. \A r \in Requests : Fits(request[r], login, now, env.keys)
    BY <1>1 DEF Init, Fits, Sound, Idle, Leave
  <1>3. CookiesFit
    BY DEF Init, CookiesFit, Sound, Held
  <1> QED
    BY <1>1, <1>2, <1>3 DEF Init, IInv, Cookies, LoginStates

LEMMA TickFits == IInv /\ Tick => IInv'
  <1> SUFFICES ASSUME IInv, Tick PROVE IInv'
    OBVIOUS
  <1> USE DEF IInv, Tick
  <1>1. Grows(login, login) /\ now + 1 \in Nat /\ now <= now + 1
    BY DEF Grows
  <1>2. ASSUME NEW r \in Requests PROVE Fits(request[r], login, now + 1, env.keys)
    <2>1. request[r].at \in Nat /\ Fits(request[r], login, now, env.keys)
      BY DEF RequestStates
    <2>2. request[r].pc \in {"fetching", "judged"} => now + 1 - request[r].at <= ProxyTimeout
      BY <2>1, TimesAssumption
    <2> QED
      BY <1>1, <2>1, <2>2, FitsGrows
  <1>3. Sound(cookies.session, login, now + 1)
    BY <1>1, SoundGrows DEF CookiesFit
  <1>4. \A l \in Logins : Held(l, cookies.tx, login, now + 1)
    BY <1>1, HeldGrows DEF CookiesFit
  <1>5. CookiesFit'
    BY <1>3, <1>4 DEF CookiesFit
  <1>6. \A r \in Requests : Fits(request[r], login, now, env.keys)'
    BY <1>2
  <1> QED
    BY <1>1, <1>5, <1>6

LEMMA AuthenticateFits == ASSUME NEW l \in Logins PROVE IInv /\ Authenticate(l) => IInv'
  <1> SUFFICES ASSUME IInv, Authenticate(l) PROVE IInv'
    OBVIOUS
  <1> USE DEF IInv
  <1>0. UNCHANGED <<env, now, cookies, request>>
    BY DEF Authenticate
  <1>1. /\ login' \in [Logins -> LoginStates] /\ Grows(login, login')
        /\ \A m \in Logins : login'[m].code # "none" => login[m].code # "none"
    BY DEF Grows, LoginStates, Authenticate
  <1>2. ASSUME NEW r \in Requests PROVE Fits(request[r], login', now, env.keys)
    <2>1. /\ Fits(request[r], login, now, env.keys)
          /\ request[r].pc \in {"fetching", "judged"} => now - request[r].at <= ProxyTimeout
      BY DEF Fits
    <2> QED
      BY <1>1, <2>1, FitsGrows
  <1>3. Sound(cookies.session, login', now) /\ (cookies.tx # None => login'[cookies.tx].began # None)
    BY <1>1, SoundGrows DEF CookiesFit, Grows, Cookies
  <1>4. \A m \in Logins : Held(m, cookies.tx, login', now)
    BY <1>1, HeldGrows DEF CookiesFit
  <1>5. CookiesFit'
    BY <1>0, <1>3, <1>4 DEF CookiesFit
  <1>6. \A r \in Requests : Fits(request[r], login, now, env.keys)'
    BY <1>0, <1>2
  <1> QED
    BY <1>0, <1>1, <1>5, <1>6

LEMMA SendFits ==
  ASSUME NEW r \in Requests, NEW kind \in Kinds, NEW l \in Logins \cup {None}, NEW allowed \in BOOLEAN
  PROVE  IInv /\ Send(r, kind, l, allowed) => IInv'
  <1> SUFFICES ASSUME IInv, Send(r, kind, l, allowed) PROVE IInv'
    OBVIOUS
  <1> DEFINE q == [Idle EXCEPT !.pc = "sent", !.kind = kind, !.code = l, !.allowed = allowed,
                               !.cookies = Carried(kind)]
  <1>1. Carried(kind) \in Cookies
    BY DEF Carried, Cookies, IInv
  <1>2. q \in RequestStates
    BY <1>1 DEF Idle, Leave, RequestStates
  <1>3. Sound(q.cookies.session, login, now) /\ (q.cookies.tx # None => login[q.cookies.tx].began # None)
    BY DEF Idle, Carried, IInv, CookiesFit, Sound
  <1>4. kind = "callback" => /\ l \in Logins /\ login[l].began # None
                             /\ q.cookies.tx = l \/ Cause(l, login, now)
    BY DEF Send, Carried, IInv, CookiesFit, Held, Idle
  <1>5. Fits(q, login, now, env.keys)
    BY <1>2, <1>3, <1>4, NoneAssumption DEF Fits, Idle, Leave
  <1> QED
    BY <1>5, BecomeFitsSame DEF Send

LEMMA LoseFits == ASSUME NEW r \in Requests PROVE IInv /\ Lose(r) => IInv'
  BY IdleFits, BecomeFitsSame DEF Lose

LEMMA UnavailableFits == ASSUME NEW r \in Requests PROVE IInv /\ Unavailable(r) => IInv'
  BY AnswerFits DEF Unavailable, Leave

LEMMA LogoutFits == ASSUME NEW r \in Requests PROVE IInv /\ Logout(r) => IInv'
  BY AnswerFits DEF Logout, Leave

LEMMA ProxyRefusesFits == ASSUME NEW r \in Requests PROVE IInv /\ ProxyRefuses(r) => IInv'
  BY AnswerFits DEF ProxyRefuses, Leave

LEMMA ProxyFailsFits == ASSUME NEW r \in Requests PROVE IInv /\ ProxyFails(r) => IInv'
  BY AnswerFits DEF ProxyFails, Leave

\* The last answer to arrive decides what the browser holds.
LEMMA ReceiveFits == ASSUME NEW r \in Requests PROVE IInv /\ Receive(r) => IInv'
  <1> SUFFICES ASSUME IInv, Receive(r) PROVE IInv'
    OBVIOUS
  <1> DEFINE q == request[r]
  <1> USE DEF IInv
  <1>1. q.pc = "answered" /\ env' = env /\ now' = now /\ Become(r, Idle)
    BY DEF Receive
  <1>2. q \in RequestStates /\ Fits(q, login, now, env.keys)
    OBVIOUS
  <1>3. /\ cookies'.tx = IF q.set.tx = Keep THEN cookies.tx ELSE q.set.tx
        /\ cookies'.session = IF q.set.session = Keep THEN cookies.session ELSE q.set.session
        /\ cookies' \in Cookies
    BY <1>2 DEF Receive, Cookies, RequestStates
  <1>4. /\ login' \in [Logins -> LoginStates] /\ Grows(login, login')
        /\ \A l \in Logins : login'[l].began = login[l].began /\ login'[l].presented = login[l].presented
        /\ \A l \in Logins : login'[l].code # "none" => login[l].code # "none" \/ q.set.tx = l
    BY DEF Receive, Grows, LoginStates
  <1>5. ASSUME NEW o \in Requests PROVE Fits(request'[o], login', now, env.keys)
    <2>1. CASE o = r
      BY <1>1, <2>1, IdleFits DEF Become
    <2>2. CASE o # r
      <3>1. /\ Fits(request[o], login, now, env.keys)
            /\ request[o].pc \in {"fetching", "judged"} => now - request[o].at <= ProxyTimeout
        BY DEF Fits
      <3>2. Fits(request[o], login', now, env.keys)
        BY <1>4, <3>1, FitsGrows
      <3> QED
        BY <1>1, <2>2, <3>2 DEF Become
    <2> QED
      BY <2>1, <2>2
  <1>6. Sound(cookies'.session, login', now)
    <2>1. Sound(cookies'.session, login, now)
      BY <1>2, <1>3 DEF Fits, CookiesFit
    <2> QED
      BY <1>4, <2>1, SoundGrows
  <1>7. cookies'.tx # None => login'[cookies'.tx].began # None
    <2>1. cookies'.tx # None => cookies'.tx \in Logins /\ login[cookies'.tx].began # None
      BY <1>2, <1>3 DEF Fits, CookiesFit, Cookies
    <2> QED
      BY <1>4, <2>1
  <1>8. ASSUME NEW l \in Logins PROVE Held(l, cookies'.tx, login', now)
    <2> SUFFICES ASSUME login'[l].code # "none"
                 PROVE  login'[l].began # None /\ (cookies'.tx = l \/ Cause(l, login', now))
      BY DEF Held
    <2>1. CASE q.set.tx = l
      <3>1. cookies'.tx = l /\ login[l].began # None
        BY <1>2, <1>3, <2>1, NoneAssumption DEF Fits
      <3> QED
        BY <1>4, <3>1
    <2>2. CASE q.set.tx # l
      <3>1. login[l].began # None /\ (cookies.tx = l \/ Cause(l, login, now))
        BY <1>4, <2>2 DEF CookiesFit, Held
      <3>2. CASE q.set.tx = Keep
        BY <1>3, <1>4, <3>1, <3>2, CauseGrows
      <3>3. CASE q.set.tx = None
        <4>1. q.code \in Logins /\ login[q.code].began # None /\ Cause(q.code, login, now)
          BY <1>1, <1>2, <3>3 DEF Fits
        <4>2. Cause(l, login, now)
          BY <4>1 DEF Cause
        <4> QED
          BY <1>4, <3>1, <4>2, CauseGrows
      <3>4. CASE q.set.tx \notin {None, Keep}
        <4>1. q.set.tx \in Logins \ {l} /\ login[q.set.tx].began # None
          BY <1>2, <2>2, <3>4 DEF Fits, RequestStates
        <4>2. Cause(l, login, now)
          BY <4>1 DEF Cause
        <4> QED
          BY <1>4, <3>1, <4>2, CauseGrows
      <3> QED
        BY <3>2, <3>3, <3>4
    <2> QED
      BY <2>1, <2>2
  <1>9. CookiesFit'
    BY <1>1, <1>6, <1>7, <1>8 DEF CookiesFit
  <1>10. \A o \in Requests : Fits(request[o], login, now, env.keys)'
    BY <1>1, <1>5
  <1>11. request' \in [Requests -> RequestStates]
    BY <1>1, IdleFits DEF Become, Fits
  <1> QED
    BY <1>1, <1>3, <1>4, <1>9, <1>10, <1>11

LEMMA BeginLoginFits ==
  ASSUME NEW r \in Requests, NEW l \in Logins PROVE IInv /\ BeginLogin(r, l) => IInv'
  <1> SUFFICES ASSUME IInv, BeginLogin(r, l) PROVE IInv'
    OBVIOUS
  <1> DEFINE q == [Idle EXCEPT !.pc = "answered", !.kind = request[r].kind, !.code = request[r].code,
                               !.status = "redirect", !.set = [tx |-> l, session |-> Keep]]
  <1>1. /\ login' \in [Logins -> LoginStates] /\ Grows(login, login') /\ login'[l].began = now
        /\ \A m \in Logins : login'[m].code # "none" => login[m].code # "none"
    BY DEF BeginLogin, IInv, Grows, LoginStates
  <1>2. request[r].kind \in Kinds /\ request[r].code \in Logins \cup {None} /\ now # None
    BY NoneAssumption DEF IInv, RequestStates
  <1>3. Fits(q, login', now, env.keys)
    BY <1>1, <1>2, NoneAssumption DEF Fits, Sound, Idle, Leave, RequestStates, Cookies
  <1>4. Become(r, q) /\ UNCHANGED <<env, now, cookies>>
    BY DEF BeginLogin, Answered
  <1> QED
    BY <1>1, <1>3, <1>4, BecomeFits

LEMMA CompleteLoginFits == ASSUME NEW r \in Requests PROVE IInv /\ CompleteLogin(r) => IInv'
  <1> SUFFICES ASSUME IInv, CompleteLogin(r) PROVE IInv'
    OBVIOUS
  <1> DEFINE q == [Idle EXCEPT !.pc = "exchanging", !.kind = "callback", !.at = now,
                               !.code = request[r].code, !.cookies = request[r].cookies]
  <1>1. request[r] \in RequestStates /\ Fits(request[r], login, now, env.keys)
    BY DEF IInv
  <1>2. request[r].code \in Logins /\ login[request[r].code].began # None
    BY <1>1 DEF CompleteLogin, Fits
  <1>3. /\ login' \in [Logins -> LoginStates] /\ Grows(login, login')
        /\ login'[request[r].code].presented /\ login'[request[r].code].began # None
        /\ \A m \in Logins : login'[m].code # "none" => login[m].code # "none"
    BY <1>2 DEF CompleteLogin, IInv, Grows, LoginStates
  <1>4. Sound(request[r].cookies.session, login', now)
    BY <1>1, <1>3, SoundGrows DEF IInv, Fits
  <1>5. request[r].cookies.tx # None => login'[request[r].cookies.tx].began # None
    BY <1>1, <1>3 DEF Fits, Grows, RequestStates, Cookies
  <1>6. q \in RequestStates
    BY <1>1, <1>2 DEF Idle, Leave, RequestStates, Kinds, IInv
  <1>7. Fits(q, login', now, env.keys)
    BY <1>2, <1>3, <1>4, <1>5, <1>6 DEF Fits, Idle, Leave, IInv
  <1>8. Become(r, q) /\ UNCHANGED <<env, now, cookies>>
    BY DEF CompleteLogin
  <1> QED
    BY <1>3, <1>7, <1>8, BecomeFits

LEMMA RejectCallbackFits == ASSUME NEW r \in Requests PROVE IInv /\ RejectCallback(r) => IInv'
  <1> SUFFICES ASSUME IInv, RejectCallback(r) PROVE IInv'
    OBVIOUS
  <1>1. request[r] \in RequestStates /\ Fits(request[r], login, now, env.keys)
    BY DEF IInv
  <1>2. /\ request[r].code \in Logins /\ login[request[r].code].began # None
        /\ request[r].cookies.tx = request[r].code \/ Cause(request[r].code, login, now)
    BY <1>1 DEF RejectCallback, Fits
  <1>3. Cause(request[r].code, login, now)
    <2>1. CASE request[r].cookies.tx = request[r].code
      <3>1. request[r].cookies.tx # None /\ ~(now - login[request[r].code].began <= LoginTtl)
        BY <1>2, <2>1, NoneAssumption DEF RejectCallback, TransactionAccepted
      <3>2. login[request[r].code].began \in Nat /\ now \in Nat
        BY <1>2 DEF IInv, LoginStates
      <3> QED
        BY <3>1, <3>2, TimesAssumption DEF Cause
    <2> QED
      BY <1>2, <2>1
  <1> QED
    BY <1>2, <1>3, LoginFailedFits DEF RejectCallback

LEMMA ExchangeFailsFits == ASSUME NEW r \in Requests PROVE IInv /\ ExchangeFails(r) => IInv'
  <1> SUFFICES ASSUME IInv, ExchangeFails(r) PROVE IInv'
    OBVIOUS
  <1>1. /\ request[r].code \in Logins /\ login[request[r].code].began # None
        /\ Cause(request[r].code, login, now)
    BY DEF IInv, ExchangeFails, Fits, Cause
  <1> QED
    BY <1>1, LoginFailedFits DEF ExchangeFails

\* The clock of the new session was read before the token was given out, so it
\* ends no later than the token.
LEMMA EstablishSessionFits == ASSUME NEW r \in Requests PROVE IInv /\ EstablishSession(r) => IInv'
  <1> SUFFICES ASSUME IInv, EstablishSession(r) PROVE IInv'
    OBVIOUS
  <1> DEFINE session == [login |-> request[r].code, expiresAt |-> ExpiresAt(r)]
             q == [Idle EXCEPT !.pc = "answered", !.kind = request[r].kind, !.code = request[r].code,
                               !.status = "redirect", !.set = [tx |-> None, session |-> session]]
             token == login[request[r].code].token
  <1>1. request[r] \in RequestStates /\ Fits(request[r], login, now, env.keys) /\ now \in Nat
    BY DEF IInv
  <1>2. /\ request[r].code \in Logins /\ login[request[r].code].began # None /\ request[r].at \in Nat
        /\ login[request[r].code].presented /\ request[r].at <= now
        /\ Given(login[request[r].code], now) /\ request[r].at <= token.iat
    BY <1>1 DEF EstablishSession, Fits, RequestStates
  <1>3. Cause(request[r].code, login, now)
    BY <1>2 DEF Cause
  <1>4. ExpiresAt(r) \in Nat /\ ExpiresAt(r) <= token.exp /\ ExpiresAt(r) <= now + MaxSessionTtl
    BY <1>1, <1>2, TimesAssumption DEF ExpiresAt, Ttl, Given, Tokens
  <1>5. session \in Sessions
    BY <1>2, <1>4 DEF Sessions
  <1>6. Sound(session, login, now)
    BY <1>2, <1>4, <1>5 DEF Sound
  <1>7. q \in RequestStates
    BY <1>1, <1>2, <1>5 DEF Idle, Leave, RequestStates, Cookies
  <1>8. Fits(q, login, now, env.keys)
    BY <1>2, <1>3, <1>6, <1>7, NoneAssumption DEF Fits, Idle, Leave, Sound
  <1>9. Become(r, q) /\ UNCHANGED <<env, now, cookies, login>>
    BY DEF EstablishSession, Answered
  <1> QED
    BY <1>8, <1>9, BecomeFitsSame

LEMMA RedeemFits == ASSUME NEW r \in Requests PROVE IInv /\ Redeem(r) => IInv'
  <1> SUFFICES ASSUME IInv, Redeem(r) PROVE IInv'
    OBVIOUS
  <1> DEFINE l == request[r].code
             q == [request[r] EXCEPT !.pc = "redeemed"]
  <1>1. request[r] \in RequestStates /\ Fits(request[r], login, now, env.keys) /\ now \in Nat
    BY DEF IInv
  <1>2. l \in Logins /\ login[l].presented /\ login[l].began # None /\ request[r].at <= now
    BY <1>1 DEF Redeem, Fits
  <1>3. PICK life \in Lifetimes :
          login' = [login EXCEPT ![l] =
                      [login[l] EXCEPT !.code = "spent", !.token = [iat |-> now, exp |-> now + life]]]
    BY <1>2 DEF Redeem, IInv
  <1>4. now < now + life /\ [iat |-> now, exp |-> now + life] \in Tokens
    BY <1>1, TimesAssumption DEF Tokens
  <1>5. login'[l] = [began |-> login[l].began, presented |-> login[l].presented, code |-> "spent",
                     token |-> [iat |-> now, exp |-> now + life]]
    BY <1>2, <1>3 DEF IInv, LoginStates
  <1>6. \A m \in Logins \ {l} : login'[m] = login[m]
    BY <1>2, <1>3 DEF IInv
  <1>7. login' \in [Logins -> LoginStates]
    <2>1. login'[l] \in LoginStates
      BY <1>2, <1>4, <1>5 DEF IInv, LoginStates
    <2>2. login' = [login EXCEPT ![l] = login'[l]]
      BY <1>2, <1>3 DEF IInv
    <2> QED
      BY <1>2, <2>1, <2>2 DEF IInv
  <1>8. login[l].code = "given"
    BY DEF Redeem
  <1>9. Grows(login, login') /\ \A m \in Logins : login'[m].code # "none" => login[m].code # "none"
    BY <1>5, <1>6, <1>8 DEF Grows
  <1>10. Given(login'[l], now) /\ request[r].at <= login'[l].token.iat
    BY <1>1, <1>2, <1>4, <1>5 DEF Given
  <1>11. Fits(request[r], login', now, env.keys)
    <2>1. login \in [Logins -> LoginStates] /\ now <= now /\ request[r].pc \notin {"fetching", "judged"}
      BY <1>1 DEF IInv, Redeem
    <2> QED
      BY <1>1, <1>7, <1>9, <2>1, FitsGrows
  <1>12. q \in RequestStates
    BY <1>1 DEF RequestStates
  <1>13. Fits(q, login', now, env.keys)
    <2>1. /\ q.pc = "redeemed" /\ q.cookies = request[r].cookies /\ q.set = request[r].set
          /\ q.code = l /\ q.at = request[r].at
      BY <1>1 DEF RequestStates
    <2> QED
      BY <1>10, <1>11, <1>12, <2>1 DEF Fits, Redeem
  <1>14. Become(r, q) /\ UNCHANGED <<env, now, cookies>>
    BY DEF Redeem
  <1> QED
    BY <1>7, <1>9, <1>13, <1>14, BecomeFits

LEMMA ForwardFits == ASSUME NEW r \in Requests PROVE IInv /\ Forward(r) => IInv'
  <1> SUFFICES ASSUME IInv, Forward(r) PROVE IInv'
    OBVIOUS
  <1> DEFINE session == request[r].cookies.session
             token == SessionAccessToken(session)
             q == [Idle EXCEPT !.pc = "fetching", !.at = now, !.token = token]
  <1>1. request[r] \in RequestStates /\ Sound(session, login, now) /\ now \in Nat
    BY DEF IInv, Fits
  <1>2. token # None => /\ token \in Logins /\ Given(login[token], now)
                        /\ login[token].token.iat <= now /\ now < login[token].token.exp
    <2> SUFFICES ASSUME token # None
                 PROVE  /\ token \in Logins /\ Given(login[token], now)
                        /\ login[token].token.iat <= now /\ now < login[token].token.exp
      OBVIOUS
    <2>1. session # None /\ token = session.login /\ session.expiresAt > now
      BY DEF SessionAccessToken
    <2>2. session \in Sessions /\ token \in Logins /\ session.expiresAt \in Nat
      BY <1>1, <2>1 DEF Sound, Sessions
    <2>3. Given(login[token], now) /\ session.expiresAt <= login[token].token.exp
      BY <1>1, <2>1 DEF Sound
    <2>4. login[token].token.exp \in Nat
      BY <2>3 DEF Given, Tokens
    <2> QED
      BY <1>1, <2>1, <2>2, <2>3, <2>4 DEF Given
  <1>3. q \in RequestStates
    BY <1>1, <1>2 DEF Idle, Leave, RequestStates, Cookies, Kinds
  <1>4. now - now <= ProxyTimeout /\ now <= now
    BY <1>1, TimesAssumption
  <1>5. Fits(q, login, now, env.keys)
    BY <1>2, <1>3, <1>4, NoneAssumption DEF Fits, Sound, Idle, Leave
  <1>6. Become(r, q) /\ UNCHANGED <<env, now, cookies, login>>
    BY DEF Forward
  <1> QED
    BY <1>5, <1>6, BecomeFitsSame

\* The skew that the verifier allows makes up for the time the request took and
\* for the clock.
LEMMA JudgeFits == ASSUME NEW r \in Requests PROVE IInv /\ Judge(r) => IInv'
  <1> SUFFICES ASSUME IInv, Judge(r) PROVE IInv'
    OBVIOUS
  <1> DEFINE Status(d) == IF ResolveTrustedPrincipal(r, now + d) THEN "ok" ELSE "401"
             Q(d) == [request[r] EXCEPT !.pc = "judged", !.status = Status(d)]
  <1>1. PICK d \in (- Drift) .. Drift : Become(r, Q(d))
    BY DEF Judge
  <1>2. request[r] \in RequestStates /\ Fits(request[r], login, now, env.keys) /\ now \in Nat
        /\ request[r].pc = "fetching"
    BY DEF IInv, Judge
  <1>3. request[r].token # None => PrincipalFromClaims(login[request[r].token].token, now + d)
    <2> SUFFICES ASSUME request[r].token # None
                 PROVE  PrincipalFromClaims(login[request[r].token].token, now + d)
      OBVIOUS
    <2> DEFINE one == login[request[r].token].token
               at == request[r].at
    <2>1. at \in Nat /\ one.iat \in Nat /\ one.exp \in Nat
      BY <1>2 DEF Fits, Given, Tokens, RequestStates
    <2>2. at <= now /\ now - at <= ProxyTimeout /\ one.iat <= at /\ at < one.exp
      BY <1>2 DEF Fits
    <2>3. d \in Int /\ - Drift <= d /\ d <= Drift
      BY TimesAssumption
    <2>4. one.exp > now + d - Skew /\ one.iat <= now + d + Skew
      BY <1>2, <2>1, <2>2, <2>3, TimesAssumption, SkewAssumption
    <2> QED
      BY <1>2, <2>1, <2>3, <2>4, TimesAssumption DEF PrincipalFromClaims
  <1>4. Status(d) = "401" => request[r].token = None \/ env.keys = <<>> \/ ~SelectKey(env.keys)
    BY <1>3 DEF ResolveTrustedPrincipal, Verify
  <1>5. Status(d) \in {"ok", "401"}
    OBVIOUS
  <1> HIDE DEF Status
  <1>6. /\ Q(d).pc = "judged" /\ Q(d).status = Status(d) /\ Q(d).kind = request[r].kind
        /\ Q(d).cookies = request[r].cookies /\ Q(d).set = request[r].set /\ Q(d).code = request[r].code
        /\ Q(d).at = request[r].at /\ Q(d).token = request[r].token
    BY <1>2 DEF RequestStates
  <1>7. Q(d) \in RequestStates
    BY <1>2, <1>5 DEF RequestStates
  <1> HIDE DEF Q
  <1>8. Fits(Q(d), login, now, env.keys)
    BY <1>2, <1>4, <1>5, <1>6, <1>7 DEF Fits
  <1>9. UNCHANGED <<env, now, cookies, login>>
    BY DEF Judge
  <1> QED
    BY <1>1, <1>8, <1>9, BecomeFitsSame

LEMMA ProxyAnswersFits == ASSUME NEW r \in Requests PROVE IInv /\ ProxyAnswers(r) => IInv'
  <1> SUFFICES ASSUME IInv, ProxyAnswers(r) PROVE IInv'
    OBVIOUS
  <1>1. UNCHANGED <<env, now, cookies, login>>
    BY DEF ProxyAnswers
  <1>2. CASE Answered(r, "unavailable", Leave)
    BY <1>1, <1>2, AnswerFits DEF Leave
  <1>3. CASE Answered(r, request[r].status, Leave)
    <2> DEFINE q == [Idle EXCEPT !.pc = "answered", !.kind = request[r].kind, !.code = request[r].code,
                                 !.status = request[r].status, !.set = Leave]
    <2>1. request[r] \in RequestStates
      BY DEF IInv
    <2>2. q \in RequestStates
      BY <2>1 DEF Idle, Leave, RequestStates, Cookies
    <2>3. request[r].status # "rejected"
      BY DEF IInv, Fits, ProxyAnswers
    <2>4. Fits(q, login, now, env.keys)
      BY <2>2, <2>3, NoneAssumption DEF Fits, Sound, Idle, Leave
    <2> QED
      BY <1>1, <1>3, <2>4, BecomeFitsSame DEF Answered
  <1> QED
    BY <1>2, <1>3 DEF ProxyAnswers

LEMMA NextIInv == IInv /\ [Next]_vars => IInv'
  <1> SUFFICES ASSUME IInv, [Next]_vars PROVE IInv'
    OBVIOUS
  <1>1. CASE Tick
    BY <1>1, TickFits
  <1>2. CASE \E l \in Logins : Authenticate(l)
    BY <1>2, AuthenticateFits
  <1>3. ASSUME NEW r \in Requests, NEW kind \in Kinds, NEW l \in Logins \cup {None}, NEW same \in BOOLEAN,
               Send(r, kind, l, same)
        PROVE  IInv'
    BY <1>3, SendFits
  <1>4. ASSUME NEW r \in Requests, NEW l \in Logins, BeginLogin(r, l) PROVE IInv'
    BY <1>4, BeginLoginFits
  <1>5. ASSUME NEW r \in Requests,
               \/ Receive(r) \/ Lose(r) \/ Unavailable(r) \/ CompleteLogin(r) \/ RejectCallback(r)
               \/ ExchangeFails(r) \/ EstablishSession(r) \/ Logout(r) \/ Redeem(r)
               \/ ProxyRefuses(r) \/ Forward(r) \/ Judge(r) \/ ProxyAnswers(r) \/ ProxyFails(r)
        PROVE  IInv'
    BY <1>5, ReceiveFits, LoseFits, UnavailableFits, CompleteLoginFits, RejectCallbackFits,
       ExchangeFailsFits, EstablishSessionFits, LogoutFits, RedeemFits, ProxyRefusesFits,
       ForwardFits, JudgeFits, ProxyAnswersFits, ProxyFailsFits
  <1>6. CASE UNCHANGED vars
    BY <1>6 DEF vars, IInv, CookiesFit
  <1> QED
    BY <1>1, <1>2, <1>3, <1>4, <1>5, <1>6 DEF Next
-------------------------------------------------------------------------------
\* Whatever the tabs of a browser do, every request and every session fit.
THEOREM Invariant == Spec => []IInv
  BY InitIInv, NextIInv, PTL DEF Spec

\* The web server's state has its types, and no session outlives its cap.
THEOREM TypeCorrect == Spec => []TypeOK
  <1>1. IInv => TypeOK
    BY TimesAssumption DEF IInv, TypeOK, CookiesFit, Sound
  <1> QED
    BY <1>1, Invariant, PTL

\* The API never refuses a token that the proxy forwarded from a live session,
\* for every number of requests and as long as the skew of the verifier covers
\* the timeout of the proxy and the drift of the clocks (SkewAssumption).
THEOREM NeverSentBackToSignIn == Spec => []ForwardedIsAccepted
  <1>1. IInv => ForwardedIsAccepted
    BY DEF IInv, Fits, ForwardedIsAccepted
  <1> QED
    BY <1>1, Invariant, PTL

\* A callback is turned away only for a cause, in whatever order the answers of
\* the logins arrive.
THEOREM LoginsFailForCause == Spec => []RejectedForCause
  <1>1. IInv => RejectedForCause
    BY DEF IInv, Fits, Cause, RejectedForCause
  <1> QED
    BY <1>1, Invariant, PTL
===============================================================================
