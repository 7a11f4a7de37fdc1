------------------------- MODULE ProviderHealthProofs -------------------------
(***************************************************************************)
(* Type correctness and the cool-down hold for any reports; the registry   *)
(* shows the breakers when the reports on a provider come one at a time.   *)
(***************************************************************************)
EXTENDS ProviderHealth, TLAPS

\* No two goroutines report on the same provider.
Serialised == \A t, u \in Threads : t # u => Reports[t] \cap Reports[u] = {}

\* The health a report is about to set agrees with the breaker; while none is about
\* to be set, the registry does.
Agreement ==
  \A p \in Providers :
    /\ \A t \in Threads :
         thread[t].op = "set" /\ thread[t].provider = p => Shows(p, thread[t].health)
    /\ (\A t \in Threads : ~(thread[t].op = "set" /\ thread[t].provider = p))
         => Shows(p, health[p])

\* A failure stays below the threshold unless it opens the circuit.
LEMMA FailuresBounded ==
  ASSUME NEW state \in [failures : 0 .. FailureThreshold, openUntil : Nat],
         IsOpen(state) <=> state.failures = FailureThreshold
  PROVE  Failures(state) \in 1 .. FailureThreshold
BY ConfigAssumption DEF Failures, IsOpen

-----------------------------------------------------------------------------
\* A step that replaces the call of one goroutine leaves the calls typed.
LEMMA ThreadTyped ==
  ASSUME TypeOK, NEW t \in Threads, NEW call \in Calls, CallOK(t, call),
         thread' = [thread EXCEPT ![t] = call], clock' = clock
  PROVE  thread' \in [Threads -> Calls] /\ (\A u \in Threads : CallOK(u, thread[u]))'
BY DEF TypeOK, CallOK

LEMMA NoCallTyped == TypeOK => NoCall \in Calls /\ \A t \in Threads : CallOK(t, NoCall)
BY DEF TypeOK, NoCall, NewCall, Calls, CallOK, Ops, ReportOps, HealthStates, Zero

LEMMA UpdateTyped ==
  ASSUME TypeOK, NEW t \in Threads, thread[t].op \in ReportOps,
         NEW state \in [failures : 0 .. FailureThreshold, openUntil : Nat],
         IsOpen(state) <=> state.failures = FailureThreshold,
         NEW to \in HealthStates, Update(t, state, to)
  PROVE  TypeOK'
<1> DEFINE call == [thread[t] EXCEPT !.op = "set", !.health = to]
<1>1. call \in Calls /\ CallOK(t, call)
  BY DEF TypeOK, Calls, CallOK, ReportOps, Ops
<1>2. thread' = [thread EXCEPT ![t] = call]
      /\ UNCHANGED <<health, rateLimit, counts, total, refused, clock>>
  BY DEF Update, TypeOK, registryVars, metricsVars
<1>3. thread' \in [Threads -> Calls] /\ (\A u \in Threads : CallOK(u, thread[u]))'
  BY <1>1, <1>2, ThreadTyped
<1>4. thread[t].provider \in Providers
  BY DEF TypeOK, CallOK, ReportOps
<1>5. states' \in [Providers -> [failures : 0 .. FailureThreshold, openUntil : Nat]]
      /\ \A q \in Providers : states'[q] = IF q = thread[t].provider THEN state ELSE states[q]
  BY <1>4 DEF Update, TypeOK
<1> QED
  BY <1>2, <1>3, <1>5 DEF TypeOK, IsOpen

\* TypeOK is inductive.
LEMMA TypeInductive ==
  ASSUME TypeOK, [Next]_vars PROVE TypeOK'
<1> USE DEF Zero, Ops
<1>1. ASSUME NEW t \in Threads,
             Call(t, "success") \/ Call(t, "failure") \/ Call(t, "refresh")
      PROVE  TypeOK'
  <2>1. PICK op \in {"success", "failure", "refresh"}, p \in Reports[t] :
          thread' = [thread EXCEPT ![t] = NewCall(op, p, clock)]
    BY <1>1 DEF Call
  <2> DEFINE call == NewCall(op, p, clock)
  <2>2. call \in Calls /\ CallOK(t, call)
    <3>1. p \in Providers /\ p \in Nat /\ clock \in Nat /\ op \in Ops /\ op \in ReportOps
      BY ReportsAssumption, ProvidersAssumption DEF TypeOK, ReportOps
    <3> QED
      BY <3>1 DEF Calls, CallOK, NewCall, HealthStates
  <2>3. UNCHANGED <<health, rateLimit, states, counts, total, refused, clock>>
    BY <1>1 DEF Call, registryVars, metricsVars
  <2>4. thread' \in [Threads -> Calls] /\ (\A u \in Threads : CallOK(u, thread[u]))'
    BY <2>1, <2>2, <2>3, ThreadTyped
  <2> QED
    BY <2>3, <2>4 DEF TypeOK
<1>2. ASSUME NEW t \in Threads, RecordSuccess(t) PROVE TypeOK'
  <2>1. Closed \in [failures : 0 .. FailureThreshold, openUntil : Nat]
        /\ (IsOpen(Closed) <=> Closed.failures = FailureThreshold)
    BY ConfigAssumption DEF Closed, IsOpen
  <2>2. thread[t].op \in ReportOps
    BY <1>2 DEF RecordSuccess, ReportOps
  <2> QED
    BY <1>2, <2>1, <2>2, UpdateTyped DEF RecordSuccess, HealthStates
<1>3. ASSUME NEW t \in Threads, RecordFailure(t) PROVE TypeOK'
  <2> DEFINE state == states[thread[t].provider]
             now == thread[t].now
             opened == [failures |-> Failures(state), openUntil |-> now + OpenDuration]
             counted == [failures |-> Failures(state), openUntil |-> Zero]
  <2>1. thread[t].op \in ReportOps
    BY <1>3 DEF RecordFailure, ReportOps
  <2>2. /\ state \in [failures : 0 .. FailureThreshold, openUntil : Nat]
        /\ IsOpen(state) <=> state.failures = FailureThreshold
        /\ now \in Nat
    BY <1>3 DEF TypeOK, RecordFailure, CallOK, Calls
  <2>3. Failures(state) \in 1 .. FailureThreshold
    BY <2>2, FailuresBounded
  <2>4. {"circuit_open", "degraded"} \subseteq HealthStates
    BY DEF HealthStates
  <2>5. CASE Update(t, state, "circuit_open")
    BY <2>1, <2>2, <2>4, <2>5, UpdateTyped
  <2>6. CASE Failures(state) >= FailureThreshold /\ Update(t, opened, "circuit_open")
    <3>1. opened \in [failures : 0 .. FailureThreshold, openUntil : Nat]
          /\ (IsOpen(opened) <=> opened.failures = FailureThreshold)
      BY <2>2, <2>3, <2>6, ConfigAssumption DEF IsOpen
    <3> QED
      BY <2>1, <2>4, <2>6, <3>1, UpdateTyped
  <2>7. CASE Failures(state) < FailureThreshold /\ Update(t, counted, "degraded")
    <3>1. counted \in [failures : 0 .. FailureThreshold, openUntil : Nat]
          /\ (IsOpen(counted) <=> counted.failures = FailureThreshold)
      BY <2>3, <2>7, ConfigAssumption DEF IsOpen
    <3> QED
      BY <2>1, <2>4, <2>7, <3>1, UpdateTyped
  <2> QED
    BY <1>3, <2>5, <2>6, <2>7 DEF RecordFailure
<1>4. ASSUME NEW t \in Threads, Refresh(t) PROVE TypeOK'
  <2>1. CASE Update(t, Closed, "degraded")
    <3>1. Closed \in [failures : 0 .. FailureThreshold, openUntil : Nat]
          /\ (IsOpen(Closed) <=> Closed.failures = FailureThreshold)
      BY ConfigAssumption DEF Closed, IsOpen
    <3>2. thread[t].op \in ReportOps
      BY <1>4 DEF Refresh, ReportOps
    <3> QED
      BY <2>1, <3>1, <3>2, UpdateTyped DEF HealthStates
  <2>2. CASE thread' = [thread EXCEPT ![t] = NoCall]
             /\ UNCHANGED <<registryVars, states, metricsVars, clock>>
    <3>1. thread' \in [Threads -> Calls] /\ (\A u \in Threads : CallOK(u, thread[u]))'
      BY <2>2, NoCallTyped, ThreadTyped
    <3> QED
      BY <2>2, <3>1 DEF TypeOK, registryVars, metricsVars
  <2> QED
    BY <1>4, <2>1, <2>2 DEF Refresh
<1>5. ASSUME NEW t \in Threads, SetHealth(t) PROVE TypeOK'
  <2>1. thread' \in [Threads -> Calls] /\ (\A u \in Threads : CallOK(u, thread[u]))'
    BY <1>5, NoCallTyped, ThreadTyped DEF SetHealth
  <2>2. health' \in [Providers -> HealthStates]
    BY <1>5 DEF TypeOK, SetHealth, Calls
  <2> QED
    BY <1>5, <2>1, <2>2 DEF TypeOK, SetHealth, metricsVars
<1>6. ASSUME NEW t \in Threads, Select(t) PROVE TypeOK'
  <2>1. PICK p \in Providers :
          thread' = [thread EXCEPT ![t] = NewCall("observe", p, Zero)]
    BY <1>6 DEF Select
  <2> DEFINE call == NewCall("observe", p, Zero)
  <2>2. call \in Calls /\ CallOK(t, call)
    BY ProvidersAssumption DEF TypeOK, Calls, CallOK, NewCall, ReportOps, HealthStates
  <2>3. UNCHANGED <<health, rateLimit, states, counts, total, refused, clock>>
    BY <1>6 DEF Select, registryVars, metricsVars
  <2>4. thread' \in [Threads -> Calls] /\ (\A u \in Threads : CallOK(u, thread[u]))'
    BY <2>1, <2>2, <2>3, ThreadTyped
  <2> QED
    BY <2>3, <2>4 DEF TypeOK
<1>7. ASSUME NEW t \in Threads, SelectNone(t) PROVE TypeOK'
  BY <1>7 DEF SelectNone, TypeOK, CallOK, registryVars
<1>8. ASSUME NEW t \in Threads, ObserveRouting(t) PROVE TypeOK'
  <2>1. thread' \in [Threads -> Calls] /\ (\A u \in Threads : CallOK(u, thread[u]))'
    BY <1>8, NoCallTyped, ThreadTyped DEF ObserveRouting
  <2>2. counts' \in [Providers -> Nat] /\ total' \in Nat
    BY <1>8 DEF TypeOK, ObserveRouting, CallOK
  <2> QED
    BY <1>8, <2>1, <2>2 DEF TypeOK, ObserveRouting, registryVars
<1>9. ASSUME SetRateLimit PROVE TypeOK'
  BY <1>9, RateLimitAssumption DEF SetRateLimit, TypeOK, CallOK, RateLimitStates, metricsVars
<1>10. ASSUME Tick PROVE TypeOK'
  BY <1>10 DEF Tick, TypeOK, CallOK, Calls, registryVars, metricsVars
<1>11. ASSUME UNCHANGED vars PROVE TypeOK'
  BY <1>11 DEF vars, TypeOK, CallOK, registryVars, metricsVars
<1> QED
  BY <1>1, <1>2, <1>3, <1>4, <1>5, <1>6, <1>7, <1>8, <1>9, <1>10, <1>11 DEF Next

LEMMA InitTyped == Init => TypeOK
BY ConfigAssumption DEF Init, TypeOK, NoCall, NewCall, Closed, Zero, Ops, IsOpen, Calls, CallOK, ReportOps, HealthStates, RateLimitStates

\* Every state the gateway reaches is well typed: a breaker counts at most
\* FailureThreshold failures and is open exactly when it has counted them all.
THEOREM TypeCorrect == Spec => []TypeOK
BY InitTyped, TypeInductive, PTL DEF Spec

-----------------------------------------------------------------------------
\* A step on one provider's breaker leaves the others as they are.
LEMMA UpdateAgrees ==
  ASSUME Serialised, TypeOK, Agreement, NEW t \in Threads, thread[t].op \in ReportOps \ {"set"},
         NEW state, NEW to, Update(t, state, to),
         IsOpen(state) <=> to = "circuit_open", state.failures > 0 => to # "healthy"
  PROVE  Agreement'
<1> DEFINE p == thread[t].provider
<1>1. /\ health' = health
      /\ \A u \in Threads : /\ thread'[u].provider = thread[u].provider
                            /\ u # t => thread'[u] = thread[u]
      /\ thread'[t].op = "set" /\ thread'[t].health = to
      /\ \A q \in Providers : states'[q] = IF q = p THEN state ELSE states[q]
  BY DEF Update, TypeOK, Calls, registryVars
<1>2. \A u \in Threads : u # t /\ thread[u].op = "set" => thread[u].provider # p
  BY DEF Serialised, TypeOK, CallOK, ReportOps
<1> SUFFICES ASSUME NEW q \in Providers
             PROVE  /\ \A u \in Threads : thread'[u].op = "set" /\ thread'[u].provider = q
                                            => Shows(q, thread[u].health)'
                    /\ (\A u \in Threads : ~(thread'[u].op = "set" /\ thread'[u].provider = q))
                         => Shows(q, health[q])'
  BY DEF Agreement
<1>3. CASE q = p
  BY <1>1, <1>2, <1>3 DEF Shows
<1>4. CASE q # p
  <2>1. (\A u \in Threads : ~(thread'[u].op = "set" /\ thread'[u].provider = q))
          => \A u \in Threads : ~(thread[u].op = "set" /\ thread[u].provider = q)
    BY <1>1, <1>4
  <2> QED
    BY <1>1, <1>4, <2>1 DEF Agreement, Shows
<1> QED
  BY <1>3, <1>4

\* A step that leaves breakers, registry and the reports about to be set alone.
LEMMA NoUpdateAgrees ==
  ASSUME Agreement, UNCHANGED <<states, health>>,
         \A u \in Threads : thread'[u] = thread[u] \/ (thread[u].op # "set" /\ thread'[u].op # "set")
  PROVE  Agreement'
BY DEF Agreement, Shows

LEMMA AgreementInductive ==
  ASSUME Serialised, TypeOK, Agreement, [Next]_vars
  PROVE  Agreement'
<1>1. ASSUME NEW t \in Threads, RecordSuccess(t) PROVE Agreement'
  <2>1. ~IsOpen(Closed) /\ ~(Closed.failures > 0)
    BY DEF Closed, IsOpen
  <2> QED
    BY <1>1, <2>1, UpdateAgrees DEF RecordSuccess, ReportOps
<1>2. ASSUME NEW t \in Threads, RecordFailure(t) PROVE Agreement'
  <2> DEFINE state == states[thread[t].provider]
             now == thread[t].now
             opened == [failures |-> Failures(state), openUntil |-> now + OpenDuration]
             counted == [failures |-> Failures(state), openUntil |-> Zero]
  <2>1. thread[t].op \in ReportOps \ {"set"} /\ now \in Nat
    BY <1>2 DEF RecordFailure, ReportOps, TypeOK, Calls
  <2>2. CASE InForce(state, now) /\ Update(t, state, "circuit_open")
    BY <2>1, <2>2, UpdateAgrees DEF InForce
  <2>3. CASE Update(t, opened, "circuit_open")
    <3>1. IsOpen(opened)
      BY <2>1, ConfigAssumption DEF IsOpen, Zero
    <3> QED
      BY <2>1, <2>3, <3>1, UpdateAgrees
  <2>4. CASE Update(t, counted, "degraded")
    <3>1. ~IsOpen(counted)
      BY DEF IsOpen
    <3> QED
      BY <2>1, <2>4, <3>1, UpdateAgrees
  <2> QED
    BY <1>2, <2>2, <2>3, <2>4 DEF RecordFailure
<1>3. ASSUME NEW t \in Threads, Refresh(t) PROVE Agreement'
  <2>1. CASE Update(t, Closed, "degraded")
    <3>1. ~IsOpen(Closed)
      BY DEF Closed, IsOpen
    <3> QED
      BY <1>3, <2>1, <3>1, UpdateAgrees DEF Refresh, ReportOps
  <2>2. CASE thread' = [thread EXCEPT ![t] = NoCall]
             /\ UNCHANGED <<registryVars, states, metricsVars, clock>>
    BY <1>3, <2>2, NoUpdateAgrees DEF Refresh, TypeOK, NoCall, NewCall, registryVars
  <2> QED
    BY <1>3, <2>1, <2>2 DEF Refresh
<1>4. ASSUME NEW t \in Threads, SetHealth(t) PROVE Agreement'
  <2> DEFINE p == thread[t].provider
  <2>1. /\ states' = states
        /\ \A q \in Providers : health'[q] = IF q = p THEN thread[t].health ELSE health[q]
        /\ \A u \in Threads : thread'[u] = IF u = t THEN NoCall ELSE thread[u]
    BY <1>4 DEF SetHealth, TypeOK
  <2>2. \A u \in Threads : u # t /\ thread[u].op = "set" => thread[u].provider # p
    BY <1>4 DEF Serialised, SetHealth, TypeOK, CallOK, ReportOps
  <2>3. NoCall.op # "set"
    BY DEF NoCall, NewCall
  <2> SUFFICES ASSUME NEW q \in Providers
               PROVE  /\ \A u \in Threads : thread'[u].op = "set" /\ thread'[u].provider = q
                                              => Shows(q, thread[u].health)'
                      /\ (\A u \in Threads : ~(thread'[u].op = "set" /\ thread'[u].provider = q))
                           => Shows(q, health[q])'
    BY DEF Agreement
  <2>4. CASE q = p
    BY <1>4, <2>1, <2>2, <2>3, <2>4 DEF Agreement, Shows, SetHealth
  <2>5. CASE q # p
    BY <2>1, <2>3, <2>5 DEF Agreement, Shows
  <2> QED
    BY <2>4, <2>5
<1>5. ASSUME NEW t \in Threads,
             \/ Call(t, "success") \/ Call(t, "failure") \/ Call(t, "refresh")
             \/ Select(t) \/ ObserveRouting(t)
      PROVE  Agreement'
  <2>1. PICK call : call.op # "set" /\ thread' = [thread EXCEPT ![t] = call]
    BY <1>5 DEF Call, Select, ObserveRouting, NoCall, NewCall
  <2>2. thread[t].op # "set" /\ UNCHANGED <<states, health>>
    BY <1>5 DEF Call, Select, ObserveRouting, registryVars
  <2> QED
    BY <2>1, <2>2, NoUpdateAgrees DEF TypeOK
<1>6. ASSUME \/ \E t \in Threads : SelectNone(t)
             \/ SetRateLimit \/ Tick \/ UNCHANGED vars
      PROVE  Agreement'
  <2>1. UNCHANGED <<states, health, thread>>
    BY <1>6 DEF SelectNone, SetRateLimit, Tick, vars, registryVars
  <2> QED
    BY <2>1, NoUpdateAgrees
<1> QED
  BY <1>1, <1>2, <1>3, <1>4, <1>5, <1>6 DEF Next

\* When the reports on a provider come one at a time, the registry shows its breaker
\* whenever no report on it is in progress: no interleaving with other providers'
\* reports, routing or quota updates takes a provider out of rotation or leaves it in.
THEOREM RegistryFollowsBreaker ==
  ASSUME Serialised
  PROVE  Spec => []RegistryShowsBreaker
<1>1. Init => Agreement
  BY DEF Init, Agreement, Shows, IsOpen, Closed, NoCall, NewCall
<1>2. Agreement => RegistryShowsBreaker
  BY DEF Agreement, RegistryShowsBreaker, Quiet, Reporting, ReportOps
<1>3. TypeOK /\ Agreement /\ [Next]_vars => Agreement'
  BY AgreementInductive
<1> QED
  BY <1>1, <1>2, <1>3, InitTyped, TypeInductive, PTL DEF Spec

-----------------------------------------------------------------------------
\* An open circuit changes only after its cool-down or by a success, however the
\* calls and their readings of the clock interleave.
THEOREM CoolDownKept == Spec => CoolDownIsRespected
<1> DEFINE Kept ==
      \A p \in Providers :
        IsOpen(states[p]) /\ states'[p] # states[p] =>
          \/ clock >= states[p].openUntil
          \/ \E t \in Threads : thread[t].op = "success" /\ thread[t].provider = p
<1>1. TypeOK /\ [Next]_vars => [Kept]_vars
  <2> SUFFICES ASSUME TypeOK, [Next]_vars, NEW p \in Providers, IsOpen(states[p]),
                      states'[p] # states[p]
               PROVE  \/ clock >= states[p].openUntil
                      \/ \E t \in Threads : thread[t].op = "success" /\ thread[t].provider = p
    OBVIOUS
  <2>1. PICK t \in Threads : RecordSuccess(t) \/ RecordFailure(t) \/ Refresh(t)
    BY DEF Next, vars, Call, SetHealth, Select, SelectNone, ObserveRouting, SetRateLimit, Tick
  <2>2. /\ thread[t].now \in Nat /\ clock \in Nat /\ thread[t].now <= clock
        /\ states[p].openUntil \in Nat
    BY DEF TypeOK, CallOK, Calls
  <2>3. CASE RecordSuccess(t)
    BY <2>3 DEF RecordSuccess, Update, TypeOK
  <2>4. CASE RecordFailure(t)
    <3>1. thread[t].provider = p
      BY <2>4 DEF RecordFailure, Update, TypeOK
    <3>2. ~InForce(states[p], thread[t].now)
      BY <2>4, <3>1 DEF RecordFailure, Update, TypeOK
    <3> QED
      BY <2>2, <3>2 DEF InForce
  <2>5. CASE Refresh(t)
    <3>1. thread[t].provider = p /\ ~InForce(states[p], thread[t].now)
      BY <2>5 DEF Refresh, Update, TypeOK
    <3> QED
      BY <2>2, <3>1 DEF InForce
  <2> QED
    BY <2>1, <2>3, <2>4, <2>5
<1> QED
  BY <1>1, InitTyped, TypeInductive, PTL DEF Spec, CoolDownIsRespected

===============================================================================
