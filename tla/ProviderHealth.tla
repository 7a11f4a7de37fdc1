--------------------------- MODULE ProviderHealth ---------------------------
(***************************************************************************)
(* The provider registry of the realtime gateway, the circuit breaker that *)
(* writes it, and the router that reads it, called by several goroutines.  *)
(* The breaker's table and the registry have a lock each: a report updates *)
(* the table in one critical section and the registry in a later one.      *)
(* Providers are numbered in the order of their IDs.                       *)
(***************************************************************************)
EXTENDS Integers, FiniteSetsExt

CONSTANTS Providers,         \* IDs of the providers
          Threads,           \* goroutines
          Reports,           \* Reports[t]: the providers goroutine t reports on
          Quality,           \* Quality[p]: the ranking of p but for its health and quota
          FailureThreshold,  \* BreakerConfig
          OpenDuration,
          RateLimitInputs,   \* bound on the rate-limit states that are set
          MaxTime,           \* bound on the clock
          MaxSelections      \* bound on the routing requests

ASSUME ProvidersAssumption == Providers \subseteq Nat /\ IsFiniteSet(Providers)
ASSUME ReportsAssumption == Reports \in [Threads -> SUBSET Providers]
ASSUME RateLimitAssumption ==
  RateLimitInputs \subseteq {"unknown", "available", "constrained", "exhausted"}
ASSUME ConfigAssumption == FailureThreshold \in Nat \ {0} /\ OpenDuration \in Nat \ {0}

VARIABLES
  health,     \* Registry: health of each provider
  rateLimit,  \* Registry: rate-limit state of each provider
  states,     \* HealthTracker.states; Closed stands for no entry
  counts,     \* ProviderRoutingMetricsObserver: SelectionCount per provider
  total,      \* TotalSelections
  refused,    \* NoEligibleCount
  clock,      \* time.Now()
  thread      \* the call of each goroutine: op, provider, now, health to set

registryVars == <<health, rateLimit>>
metricsVars == <<counts, total, refused>>
vars == <<registryVars, states, metricsVars, clock, thread>>

HealthStates == {"healthy", "degraded", "unhealthy", "circuit_open"}
RateLimitStates == {"unknown", "available", "constrained", "exhausted"}
Ops == {"none", "success", "failure", "refresh", "set", "observe"}
Zero == 0   \* the zero time.Time: openUntil of a breaker that is not open
Closed == [failures |-> 0, openUntil |-> Zero]
NewCall(op, p, now) == [op |-> op, provider |-> p, now |-> now, health |-> "healthy"]
NoCall == NewCall("none", 0, Zero)

Init ==
  /\ health = [p \in Providers |-> "healthy"]
  /\ rateLimit = [p \in Providers |-> "unknown"]
  /\ states = [p \in Providers |-> Closed]
  /\ counts = [p \in Providers |-> 0] /\ total = 0 /\ refused = 0
  /\ clock = 1
  /\ thread = [t \in Threads |-> NoCall]

-----------------------------------------------------------------------------
(***************************************************************************)
(* HealthTracker.  A caller takes the time and calls; the report waits for *)
(* the lock; having released it, it sets the health in the registry.       *)
(***************************************************************************)
Call(t, op) ==
  /\ thread[t].op = "none"
  /\ \E p \in Reports[t] :
       thread' = [thread EXCEPT ![t] = NewCall(op, p, clock)]
  /\ UNCHANGED <<registryVars, states, metricsVars, clock>>

\* The critical section of h.mu: the entry becomes `state`, and `to` is to be set.
Update(t, state, to) ==
  /\ states' = [states EXCEPT ![thread[t].provider] = state]
  /\ thread' = [thread EXCEPT ![t].op = "set", ![t].health = to]
  /\ UNCHANGED <<registryVars, metricsVars, clock>>

IsOpen(state) == state.openUntil # Zero
InForce(state, now) == IsOpen(state) /\ now < state.openUntil

RecordSuccess(t) ==
  /\ thread[t].op = "success"
  /\ Update(t, Closed, "healthy")

\* Mutant: the failures of the previous opening are not forgotten.
FailuresKept(state) == state.failures + 1

\* A failure after the cool-down counts as the first one.
Failures(state) == IF IsOpen(state) THEN 1 ELSE state.failures + 1

RecordFailure(t) ==
  LET state == states[thread[t].provider]
      now == thread[t].now
      failures == Failures(state)
  IN  /\ thread[t].op = "failure"
      /\ \/ InForce(state, now) /\ Update(t, state, "circuit_open")
         \/ /\ ~InForce(state, now)
            /\ failures >= FailureThreshold
            /\ Update(t, [failures |-> failures, openUntil |-> now + OpenDuration], "circuit_open")
         \/ /\ ~InForce(state, now)
            /\ failures < FailureThreshold
            /\ Update(t, [failures |-> failures, openUntil |-> Zero], "degraded")

\* Mutant: the circuit closes before its cool-down has passed.
RefreshEarly(t) ==
  LET state == states[thread[t].provider]
  IN  /\ thread[t].op = "refresh"
      /\ IF ~IsOpen(state)
         THEN thread' = [thread EXCEPT ![t] = NoCall]
              /\ UNCHANGED <<registryVars, states, metricsVars, clock>>
         ELSE Update(t, Closed, "degraded")

Refresh(t) ==
  LET state == states[thread[t].provider]
  IN  /\ thread[t].op = "refresh"
      /\ IF ~IsOpen(state) \/ InForce(state, thread[t].now)
         THEN thread' = [thread EXCEPT ![t] = NoCall]
              /\ UNCHANGED <<registryVars, states, metricsVars, clock>>
         ELSE Update(t, Closed, "degraded")

\* Mutant: a provider that was taken out of rotation is not put back.
SetHealthUnlessOpen(t) ==
  /\ thread[t].op = "set"
  /\ health' = [health EXCEPT ![thread[t].provider] =
                  IF @ = "circuit_open" THEN @ ELSE thread[t].health]
  /\ thread' = [thread EXCEPT ![t] = NoCall]
  /\ UNCHANGED <<rateLimit, states, metricsVars, clock>>

\* Registry.SetHealth
SetHealth(t) ==
  /\ thread[t].op = "set"
  /\ health' = [health EXCEPT ![thread[t].provider] = thread[t].health]
  /\ thread' = [thread EXCEPT ![t] = NoCall]
  /\ UNCHANGED <<rateLimit, states, metricsVars, clock>>

-----------------------------------------------------------------------------
(***************************************************************************)
(* Router.Select on one snapshot of the registry, then its observer, which *)
(* reads the registry again.                                               *)
(***************************************************************************)
\* `allowed` stands for what a request asks of the manifests themselves:
\* capability, access, region, latency, quality and its allow and deny lists.
Eligible(allowed) ==
  {p \in allowed : /\ health[p] \in {"healthy", "degraded"}
                   /\ rateLimit[p] # "exhausted"}

HealthRank(state) == IF state = "healthy" THEN 3 ELSE 2
RateLimitRank(state) ==
  CASE state = "available" -> 3 [] state = "unknown" -> 2 [] state = "constrained" -> 1

\* sortCandidates: whether p comes before q; ties fall to the order of IDs.
Before(p, q, mode) ==
  LET keys(x) == IF mode = "auto"
                 THEN <<HealthRank(health[x]), RateLimitRank(rateLimit[x]), Quality[x]>>
                 ELSE <<0, 0, Quality[x]>>
      differ == {i \in 1 .. 3 : keys(p)[i] # keys(q)[i]}
  IN  IF differ = {} THEN p < q ELSE keys(p)[Min(differ)] > keys(q)[Min(differ)]

First(p, allowed, mode) ==
  p \in Eligible(allowed) /\ \A q \in Eligible(allowed) \ {p} : Before(p, q, mode)

SelectNone(t) ==
  /\ thread[t].op = "none"
  /\ total + refused < MaxSelections
  /\ \E allowed \in SUBSET Providers : Eligible(allowed) = {}
  /\ refused' = refused + 1
  /\ UNCHANGED <<registryVars, states, counts, total, clock, thread>>

Select(t) ==
  /\ thread[t].op = "none"
  /\ total + refused < MaxSelections
  /\ \E allowed \in SUBSET Providers, mode \in {"auto", "best_quality"}, p \in Providers :
       /\ First(p, allowed, mode)
       /\ thread' = [thread EXCEPT ![t] = NewCall("observe", p, Zero)]
  /\ UNCHANGED <<registryVars, states, metricsVars, clock>>

ObserveRouting(t) ==
  /\ thread[t].op = "observe"
  /\ counts' = [counts EXCEPT ![thread[t].provider] = @ + 1]
  /\ total' = total + 1
  /\ thread' = [thread EXCEPT ![t] = NoCall]
  /\ UNCHANGED <<registryVars, states, refused, clock>>

-----------------------------------------------------------------------------
\* Registry.SetRateLimit
SetRateLimit ==
  /\ \E p \in Providers, state \in RateLimitInputs : rateLimit' = [rateLimit EXCEPT ![p] = state]
  /\ UNCHANGED <<health, states, metricsVars, clock, thread>>

Tick ==
  /\ clock < MaxTime
  /\ clock' = clock + 1
  /\ UNCHANGED <<registryVars, states, metricsVars, thread>>

Next ==
  \/ \E t \in Threads :
       \/ Call(t, "success") \/ Call(t, "failure") \/ Call(t, "refresh")
       \/ RecordSuccess(t) \/ RecordFailure(t) \/ Refresh(t) \/ SetHealth(t)
       \/ Select(t) \/ SelectNone(t) \/ ObserveRouting(t)
  \/ SetRateLimit
  \/ Tick

Spec == Init /\ [][Next]_vars
-----------------------------------------------------------------------------
ReportOps == {"success", "failure", "refresh", "set"}
Reporting(t, p) == thread[t].op \in ReportOps /\ thread[t].provider = p

Calls == [op : Ops, provider : Nat, now : Nat, health : HealthStates]
CallOK(t, call) ==
  /\ call.now <= clock
  /\ call.op # "none" => call.provider \in Providers
  /\ call.op \in ReportOps => call.provider \in Reports[t]

TypeOK ==
  /\ health \in [Providers -> HealthStates]
  /\ rateLimit \in [Providers -> RateLimitStates]
  /\ states \in [Providers -> [failures : 0 .. FailureThreshold, openUntil : Nat]]
  /\ \A p \in Providers : IsOpen(states[p]) <=> states[p].failures = FailureThreshold
  /\ counts \in [Providers -> Nat] /\ total \in Nat /\ refused \in Nat
  /\ clock \in Nat \ {Zero}
  /\ thread \in [Threads -> Calls]
  /\ \A t \in Threads : CallOK(t, thread[t])

Quiet(p) == \A t \in Threads : ~Reporting(t, p)

\* What the registry should say of a provider, by its breaker.
Shows(p, state) ==
  /\ IsOpen(states[p]) <=> state = "circuit_open"
  /\ states[p].failures > 0 => state # "healthy"

\* When no report on a provider is in progress, the registry shows what its breaker
\* says: the provider is out of rotation exactly while its circuit is open, and not
\* reported healthy while failures are being counted.
RegistryShowsBreaker == \A p \in Providers : Quiet(p) => Shows(p, health[p])

\* NFR-REL-001: a provider whose repeated failures opened the circuit is not routed
\* to before the cool-down has passed.
OpenCircuitIsNotRouted ==
  \A p \in Providers :
    Quiet(p) /\ InForce(states[p], clock) => p \notin Eligible(Providers)

\* An open circuit stays as it is until its cool-down has passed or the provider
\* succeeds: late failures do not prolong it and a refresh does not end it.
CoolDownIsRespected ==
  [][\A p \in Providers :
       IsOpen(states[p]) /\ states'[p] # states[p] =>
         \/ clock >= states[p].openUntil
         \/ \E t \in Threads : thread[t].op = "success" /\ thread[t].provider = p]_vars

=============================================================================
