------------------------- MODULE CaptureRuntimeProofs -------------------------
(***************************************************************************)
(* Type correctness of the capture runtime, the numbering of frames over   *)
(* reopenings, the bound on retries, the announcement of stale endpoints,  *)
(* and the audio client's event behind a retained packet, for any          *)
(* endpoints, policy, budget and channel.                                  *)
(***************************************************************************)
EXTENDS CaptureRuntime, TLAPS

\* What each event makes of the controller.
LEMMA Transitions ==
  /\ Transition("StartRequested") =
       IF controller.state = "Stopped" THEN To("Opening", 0, "OpenDevice") ELSE Ignored
  /\ Transition("OpenSucceeded") =
       IF controller.state = "Opening" THEN To("Running", 0, "None") ELSE Ignored
  /\ Transition("OpenFailed") = IF controller.state = "Opening" THEN OpenFailed ELSE Ignored
  /\ Transition("OpenRefused") =
       IF controller.state = "Opening"
       THEN To("Failed", controller.failures, "SurfaceFailure") ELSE Ignored
  /\ Transition("DeviceInvalidated") = IF InStream THEN Retry(0) ELSE Ignored
  /\ Transition("StreamFailed") = IF InStream THEN Retry(0) ELSE Ignored
  /\ Transition("StreamBroken") = IF InStream THEN To("Failed", 0, "SurfaceFailure") ELSE Ignored
  /\ Transition("RetryTimerElapsed") =
       IF controller.state = "Recovering"
       THEN To("Opening", controller.failures, "OpenDevice") ELSE Ignored
  /\ Transition("StopRequested") =
       IF controller.state = "Stopped" THEN Ignored ELSE To("Stopped", 0, "StopDevice")
BY DEF Transition

\* The elements of sequences as the bridge builds them.
LEMMA ElementsOf ==
  ASSUME NEW S, NEW s \in Seq(S), NEW x
  PROVE  x \in ToSet(s) <=> \E i \in 1 .. Len(s) : s[i] = x
BY DEF ToSet

LEMMA ConcatElements ==
  ASSUME NEW S, NEW s \in Seq(S), NEW t \in Seq(S)
  PROVE  s \o t \in Seq(S) /\ ToSet(s \o t) = ToSet(s) \union ToSet(t)
<1>1. s \o t \in Seq(S) /\ Len(s \o t) = Len(s) + Len(t) /\ Len(s) \in Nat /\ Len(t) \in Nat
  OBVIOUS
<1>2. \A i \in 1 .. Len(s) : (s \o t)[i] = s[i] /\ i \in 1 .. Len(s \o t)
  BY <1>1
<1>3. \A i \in 1 .. Len(t) : (s \o t)[Len(s) + i] = t[i] /\ Len(s) + i \in 1 .. Len(s \o t)
  BY <1>1
<1>4. ASSUME NEW i \in 1 .. Len(s \o t)
      PROVE  (s \o t)[i] \in ToSet(s) \union ToSet(t)
  <2>1. CASE i \in 1 .. Len(s)
    BY <1>2, <2>1, ElementsOf
  <2>2. CASE i \notin 1 .. Len(s)
    <3>1. i - Len(s) \in 1 .. Len(t) /\ Len(s) + (i - Len(s)) = i
      BY <1>1, <2>2
    <3>2. (s \o t)[i] = t[i - Len(s)]
      BY <1>3, <3>1
    <3> QED
      BY <3>1, <3>2, ElementsOf
  <2> QED
    BY <2>1, <2>2
<1>5. ToSet(s \o t) \subseteq ToSet(s) \union ToSet(t)
  BY <1>1, <1>4, ElementsOf
<1>6. ASSUME NEW x \in ToSet(s) PROVE x \in ToSet(s \o t)
  <2>1. PICK i \in 1 .. Len(s) : s[i] = x
    BY ElementsOf
  <2> QED
    BY <1>1, <1>2, <2>1, ElementsOf
<1>7. ASSUME NEW x \in ToSet(t) PROVE x \in ToSet(s \o t)
  <2>1. PICK i \in 1 .. Len(t) : t[i] = x
    BY ElementsOf
  <2> QED
    BY <1>1, <1>3, <2>1, ElementsOf
<1> QED
  BY <1>1, <1>5, <1>6, <1>7

LEMMA OneElement == ASSUME NEW S, NEW e \in S PROVE <<e>> \in Seq(S) /\ ToSet(<<e>>) = {e}
BY DEF ToSet

LEMMA AppendElements ==
  ASSUME NEW S, NEW s \in Seq(S), NEW e \in S
  PROVE  /\ Append(s, e) \in Seq(S) /\ Len(Append(s, e)) = Len(s) + 1
         /\ ToSet(Append(s, e)) = ToSet(s) \union {e}
<1>1. Append(s, e) = s \o <<e>> /\ <<e>> \in Seq(S)
  OBVIOUS
<1>2. Len(Append(s, e)) = Len(s) + 1
  OBVIOUS
<1>3. s \o <<e>> \in Seq(S) /\ ToSet(s \o <<e>>) = ToSet(s) \union ToSet(<<e>>)
  BY <1>1, ConcatElements
<1> QED
  BY <1>1, <1>2, <1>3, OneElement

LEMMA TailElements ==
  ASSUME NEW S, NEW s \in Seq(S), s # <<>>
  PROVE  /\ Tail(s) \in Seq(S) /\ Head(s) \in S
         /\ ToSet(s) = {Head(s)} \union ToSet(Tail(s))
<1>1. s = <<Head(s)>> \o Tail(s) /\ Tail(s) \in Seq(S) /\ Head(s) \in S /\ <<Head(s)>> \in Seq(S)
  OBVIOUS
<1>2. ToSet(<<Head(s)>> \o Tail(s)) = ToSet(<<Head(s)>>) \union ToSet(Tail(s))
  BY <1>1, ConcatElements
<1> QED
  BY <1>1, <1>2, OneElement

LEMMA SplitElements ==
  ASSUME NEW S, NEW s \in Seq(S), NEW n \in 1 .. Len(s)
  PROVE  /\ SubSeq(s, 1, n) \in Seq(S) /\ SubSeq(s, n + 1, Len(s)) \in Seq(S)
         /\ Len(SubSeq(s, 1, n)) = n /\ Len(SubSeq(s, n + 1, Len(s))) = Len(s) - n
         /\ ToSet(s) = ToSet(SubSeq(s, 1, n)) \union ToSet(SubSeq(s, n + 1, Len(s)))
<1> DEFINE a == SubSeq(s, 1, n)
           b == SubSeq(s, n + 1, Len(s))
<1>1. a \in Seq(S) /\ b \in Seq(S) /\ Len(a) = n /\ Len(b) = Len(s) - n
  OBVIOUS
<1>2. s = a \o b
  OBVIOUS
<1>3. ToSet(a \o b) = ToSet(a) \union ToSet(b)
  BY <1>1, ConcatElements
<1> QED
  BY <1>1, <1>2, <1>3

-----------------------------------------------------------------------------
Requiring(e) ==
  \E n \in ToSet(held) \union ToSet(queue) \union ToSet(callbacks) : RequiresReopen(n, e)
Announced(e) == e # default /\ dropped = 0 => Requiring(e)

\* The endpoint of the session and the one being opened are announced when they are stale.
StaleAnnounced ==
  /\ InStream => Announced(pump.endpoint)
  /\ call.at = "start" => Announced(call.endpoint)

\* The call in progress agrees with the session, and the failures with the opens.
CallOK ==
  /\ call.at = "idle" => call = Idle
  /\ call.at = "start" => call.endpoint \in Endpoints
  /\ call.at \in {"open", "start"} => call.frames = 0
  /\ call.at = "read" => packets > 0 /\ call.consumed < Budget
  /\ call.frames <= call.consumed
  /\ controller.state = "Opening" => attempts = controller.failures + 1
  /\ InStream => attempts = 0

Inv == TypeOK /\ CallOK /\ SequencesAreAccounted /\ RetriesAreBounded /\ StaleAnnounced

USE NoneAssumption, PolicyAssumption, BudgetAssumption, CapacityAssumption, BoundsAssumption

LEMMA CallTyped ==
  /\ \A at \in {"idle", "open", "start", "next", "read"} : Call(at) \in Calls
  /\ Idle \in Calls /\ Idle.at = "idle" /\ Idle.frames = 0 /\ Idle.consumed = 0
BY DEF Call, Calls, Idle

LEMMA NoPumpIsNone == \A p \in Pumps : p # NoPump
BY DEF Pumps, NoPump

LEMMA InitInv == Init => Inv
<1> SUFFICES ASSUME Init PROVE Inv
  OBVIOUS
<1>1. SystemTyped /\ BridgeTyped
  BY DEF Init, SystemTyped, BridgeTyped
<1>2. RuntimeTyped
  <2>1. controller \in Controllers
    BY DEF Init, Controllers, States
  <2>2. call \in Calls
    BY CallTyped DEF Init
  <2>3. pump \in Pumps \union {NoPump} /\ packets \in 0 .. MaxPackets
    BY DEF Init
  <2>4. delivered \in Nat /\ lost \in Nat /\ attempts \in 0 .. MaxReopenFailures
    BY DEF Init
  <2>6. event = FALSE /\ backlog = FALSE
    BY DEF Init
  <2>5. nextSequence \in 0 .. SequenceLimit /\ timers \in 0 .. MaxTimers
    BY DEF Init
  <2> QED
    BY <2>1, <2>2, <2>3, <2>4, <2>5, <2>6 DEF RuntimeTyped
<1>3. PumpMatchesState /\ CallOK /\ StaleAnnounced
  BY CallTyped DEF Init, PumpMatchesState, InStream, Draining, CallOK, StaleAnnounced
<1>4. SequencesAreAccounted /\ RetriesAreBounded
  BY DEF Init, SequencesAreAccounted, RetriesAreBounded
<1> QED
  BY <1>1, <1>2, <1>3, <1>4 DEF Inv, TypeOK

\* A step that leaves the default endpoint and the notifications alone changes no
\* announcement.
LEMMA SameAnnouncements ==
  ASSUME UNCHANGED <<default, held, queue, callbacks, dropped>>
  PROVE  \A e : Announced(e)' <=> Announced(e)
BY DEF Announced, Requiring

\* A step of the runtime that leaves system and bridge alone.
LEMMA RuntimeStep ==
  ASSUME Inv, UNCHANGED <<system, bridge>>, RuntimeTyped', PumpMatchesState', CallOK',
         SequencesAreAccounted', RetriesAreBounded',
         InStream' => \/ InStream /\ pump'.endpoint = pump.endpoint
                      \/ call.at = "start" /\ pump'.endpoint = call.endpoint,
         call'.at = "start" => call'.endpoint = default \/ (call.at = "start" /\ call' = call)
  PROVE  Inv'
<1>1. SystemTyped' /\ BridgeTyped'
  BY DEF Inv, TypeOK, SystemTyped, BridgeTyped, system, bridge
<1>2. StaleAnnounced'
  BY SameAnnouncements DEF Inv, StaleAnnounced, Announced, system, bridge
<1> QED
  BY <1>1, <1>2 DEF Inv, TypeOK

LEMMA StepStart == Inv /\ Start => Inv'
<1> SUFFICES ASSUME Inv, Start PROVE Inv'
  OBVIOUS
<1>1. UNCHANGED <<system, bridge, pump, nextSequence, session, delivered, lost, backlog>>
  BY DEF Start
<1>2. CASE controller.state = "Stopped"
  <2>1. /\ controller' = [state |-> "Opening", failures |-> 0] /\ timers' = timers
        /\ call' = Call("open") /\ attempts' = 1
    BY <1>2, Transitions DEF Start, Apply, To
  <2>2. controller' \in Controllers /\ call' \in Calls /\ call'.at = "open" /\ call'.frames = 0
        /\ call'.consumed = 0
    BY <2>1, CallTyped DEF Controllers, States, Call
  <2>3. RuntimeTyped'
    BY <1>1, <2>1, <2>2 DEF Inv, TypeOK, RuntimeTyped, session
  <2>4. PumpMatchesState'
    BY <1>1, <1>2, <2>1, <2>2 DEF Inv, TypeOK, PumpMatchesState, InStream, Draining
  <2>5. CallOK' /\ RetriesAreBounded'
    BY <1>1, <1>2, <2>1, <2>2 DEF CallOK, RetriesAreBounded, InStream
  <2>6. SequencesAreAccounted'
    BY <1>1, <1>2, <2>1, <2>2 DEF Inv, TypeOK, PumpMatchesState, SequencesAreAccounted, InStream
  <2> QED
    BY <1>1, <2>1, <2>2, <2>3, <2>4, <2>5, <2>6, RuntimeStep DEF InStream
<1>3. CASE controller.state # "Stopped"
  <2>1. UNCHANGED <<controller, timers, call, attempts>>
    BY <1>3, Transitions DEF Start, Apply, Ignored, To, Inv, TypeOK, RuntimeTyped, Controllers
  <2>2. UNCHANGED vars
    BY <1>1, <2>1 DEF vars, ghosts
  <2> QED
    BY <2>2 DEF Inv, vars, TypeOK, SystemTyped, BridgeTyped, RuntimeTyped, PumpMatchesState, CallOK,
       SequencesAreAccounted, RetriesAreBounded,
       StaleAnnounced, InStream, Draining, Announced, Requiring, system, bridge, session, ghosts
<1> QED
  BY <1>2, <1>3

LEMMA Stutter == Inv /\ UNCHANGED vars => Inv'
BY DEF Inv, vars, TypeOK, SystemTyped, BridgeTyped, RuntimeTyped, PumpMatchesState, CallOK,
   SequencesAreAccounted, RetriesAreBounded, StaleAnnounced, InStream, Draining, Announced, Requiring,
   system, bridge, session, ghosts

LEMMA StepRetryTimer == Inv /\ RetryTimerElapsed => Inv'
<1> SUFFICES ASSUME Inv, RetryTimerElapsed PROVE Inv'
  OBVIOUS
<1>1. /\ UNCHANGED <<system, bridge, pump, nextSequence, session, delivered, lost, backlog>>
      /\ call = Idle /\ timers' \in 0 .. MaxTimers
  BY DEF RetryTimerElapsed, Inv, TypeOK, RuntimeTyped
<1>2. CASE controller.state = "Recovering"
  <2>1. /\ controller' = [state |-> "Opening", failures |-> controller.failures]
        /\ call' = Call("open") /\ attempts' = attempts + 1
    BY <1>2, Transitions DEF RetryTimerElapsed, BeginOpen, To
  <2>2. controller' \in Controllers /\ call' \in Calls /\ call'.at = "open" /\ call'.frames = 0
        /\ call'.consumed = 0 /\ attempts' \in 1 .. MaxReopenFailures
        /\ attempts' = controller'.failures + 1
    BY <1>2, <2>1, CallTyped
       DEF Controllers, States, Call, Inv, TypeOK, RuntimeTyped, RetriesAreBounded
  <2>3. RuntimeTyped'
    BY <1>1, <2>1, <2>2 DEF Inv, TypeOK, RuntimeTyped, session
  <2>4. PumpMatchesState'
    BY <1>1, <1>2, <2>1, <2>2 DEF Inv, TypeOK, PumpMatchesState, InStream, Draining
  <2>5. CallOK' /\ RetriesAreBounded'
    BY <1>1, <1>2, <2>1, <2>2 DEF CallOK, RetriesAreBounded, InStream
  <2>6. SequencesAreAccounted'
    BY <1>1, <1>2, <2>1, <2>2 DEF Inv, TypeOK, PumpMatchesState, SequencesAreAccounted, InStream
  <2> QED
    BY <1>1, <2>1, <2>2, <2>3, <2>4, <2>5, <2>6, RuntimeStep DEF InStream
<1>3. CASE controller.state # "Recovering"
  <2>1. UNCHANGED <<controller, call, attempts>>
    BY <1>3, Transitions DEF RetryTimerElapsed, Ignored, To, Inv, TypeOK, RuntimeTyped, Controllers
  <2>2. RuntimeTyped' /\ PumpMatchesState'
    BY <1>1, <2>1 DEF Inv, TypeOK, RuntimeTyped, session, PumpMatchesState, InStream, Draining
  <2>3. CallOK' /\ RetriesAreBounded' /\ SequencesAreAccounted'
    BY <1>1, <2>1 DEF Inv, CallOK, RetriesAreBounded, SequencesAreAccounted, InStream, session
  <2> QED
    BY <1>1, <2>1, <2>2, <2>3, RuntimeStep DEF InStream
<1> QED
  BY <1>2, <1>3

LEMMA StepPickEndpoint == Inv /\ PickEndpoint => Inv'
<1> SUFFICES ASSUME Inv, PickEndpoint PROVE Inv'
  OBVIOUS
<1>1. /\ UNCHANGED <<system, bridge, controller, pump, nextSequence, session, timers, ghosts>>
      /\ call.at = "open" /\ default \in Endpoints
      /\ call' = [call EXCEPT !.at = "start", !.endpoint = default]
  BY DEF PickEndpoint, Inv, TypeOK, SystemTyped
<1>2. /\ call' \in Calls /\ call'.at = "start" /\ call'.endpoint = default
      /\ call'.frames = call.frames /\ call'.consumed = call.consumed
  BY <1>1 DEF Inv, TypeOK, RuntimeTyped, Calls
<1>3. RuntimeTyped' /\ PumpMatchesState'
  BY <1>1, <1>2 DEF Inv, TypeOK, RuntimeTyped, session, ghosts, PumpMatchesState, InStream, Draining
<1>4. CallOK' /\ RetriesAreBounded' /\ SequencesAreAccounted'
  BY <1>1, <1>2 DEF Inv, CallOK, RetriesAreBounded, SequencesAreAccounted, InStream, session, ghosts
<1>5. InStream' => \/ InStream /\ pump'.endpoint = pump.endpoint
                   \/ call.at = "start" /\ pump'.endpoint = call.endpoint
  BY DEF PickEndpoint, InStream
<1>6. call'.at = "start" => call'.endpoint = default \/ (call.at = "start" /\ call' = call)
  BY <1>2
<1>7. UNCHANGED <<system, bridge>>
  BY <1>1
<1> QED
  BY ONLY Inv, <1>3, <1>4, <1>5, <1>6, <1>7, RuntimeStep

\* The controller of a stream that is opened or runs, and the timers, stay typed.
LEMMA ApplyTyped ==
  ASSUME Inv, NEW what, Apply(what), Transition(what).to \in Controllers
  PROVE  controller' = Transition(what).to /\ timers' \in 0 .. MaxTimers
BY DEF Apply, Inv, TypeOK, RuntimeTyped

LEMMA StepFailOpen == Inv /\ FailOpen => Inv'
<1> SUFFICES ASSUME Inv, FailOpen PROVE Inv'
  OBVIOUS
<1>1. /\ UNCHANGED <<system, bridge, pump, nextSequence, session, ghosts>>
      /\ call.at \in {"open", "start"} /\ call' = Idle
  BY DEF FailOpen, Return
<1>2. /\ controller.state = "Opening" /\ ~InStream /\ pump = NoPump
      /\ controller.failures \in Nat /\ controller.failures < MaxReopenFailures
      /\ attempts = controller.failures + 1
  BY <1>1
     DEF Inv, TypeOK, RuntimeTyped, PumpMatchesState, CallOK, InStream, RetriesAreBounded,
         Controllers
<1>3. /\ controller' \in Controllers /\ timers' \in 0 .. MaxTimers
      /\ controller'.state \in {"Failed", "Recovering"}
      /\ controller'.state = "Recovering" =>
           controller'.failures = attempts /\ attempts < MaxReopenFailures
  <2>1. CASE Apply("OpenFailed")
    <3>1. CASE controller.failures + 1 >= MaxReopenFailures
      <4>1. Transition("OpenFailed").to = [state |-> "Failed", failures |-> controller.failures + 1]
        BY <1>2, <3>1, Transitions DEF OpenFailed, To
      <4>2. Transition("OpenFailed").to \in Controllers
        BY <1>2, <4>1 DEF Controllers, States
      <4> QED
        BY <2>1, <4>1, <4>2, ApplyTyped
    <3>2. CASE ~(controller.failures + 1 >= MaxReopenFailures)
      <4>1. Transition("OpenFailed").to = [state |-> "Recovering", failures |-> controller.failures + 1]
        BY <1>2, <3>2, Transitions DEF OpenFailed, Retry, To
      <4>2. Transition("OpenFailed").to \in Controllers
        BY <1>2, <4>1 DEF Controllers, States
      <4> QED
        BY <1>2, <2>1, <3>2, <4>1, <4>2, ApplyTyped
    <3> QED
      BY <3>1, <3>2
  <2>2. CASE Apply("OpenRefused")
    <3>1. Transition("OpenRefused").to = [state |-> "Failed", failures |-> controller.failures]
      BY <1>2, Transitions DEF To
    <3>2. Transition("OpenRefused").to \in Controllers
      BY <1>2, <3>1 DEF Controllers, States
    <3> QED
      BY <2>2, <3>1, <3>2, ApplyTyped
  <2> QED
    BY <2>1, <2>2 DEF FailOpen
<1>4. RuntimeTyped' /\ PumpMatchesState'
  BY <1>1, <1>2, <1>3, CallTyped DEF Inv, TypeOK, RuntimeTyped, session, ghosts, PumpMatchesState,
     InStream, Draining
<1>5. CallOK' /\ RetriesAreBounded' /\ SequencesAreAccounted'
  BY <1>1, <1>2, <1>3, CallTyped
     DEF Inv, CallOK, RetriesAreBounded, SequencesAreAccounted, InStream,
     session, ghosts
<1> QED
  BY <1>1, <1>3, <1>4, <1>5, CallTyped, RuntimeStep DEF InStream

LEMMA StepStartPump == Inv /\ StartPump => Inv'
<1> SUFFICES ASSUME Inv, StartPump PROVE Inv'
  OBVIOUS
<1>1. /\ UNCHANGED <<system, bridge, nextSequence, session, delivered, lost, backlog>>
      /\ call.at = "start" /\ call' = Idle /\ attempts' = 0
      /\ pump' = [endpoint |-> call.endpoint, sequence |-> nextSequence, pending |-> 0]
  BY DEF StartPump, Return
<1>2. controller.state = "Opening" /\ call.endpoint \in Endpoints /\ pump = NoPump
  BY <1>1 DEF Inv, TypeOK, PumpMatchesState, CallOK, InStream
<1>3. pump' \in Pumps /\ pump' # NoPump /\ pump'.endpoint = call.endpoint
      /\ pump'.sequence = nextSequence
  BY <1>1, <1>2, NoPumpIsNone DEF Pumps, Inv, TypeOK, RuntimeTyped
<1>4. controller' = [state |-> "Running", failures |-> 0] /\ timers' \in 0 .. MaxTimers
  BY <1>2, Transitions, ApplyTyped DEF StartPump, To, Controllers, States
<1>5. controller' \in Controllers /\ controller'.state = "Running"
  BY <1>4 DEF Controllers, States
<1>6. RuntimeTyped' /\ PumpMatchesState'
  BY <1>1, <1>3, <1>4, <1>5, CallTyped DEF Inv, TypeOK, RuntimeTyped, session, PumpMatchesState,
     InStream, Draining
<1>7. CallOK' /\ RetriesAreBounded'
  BY <1>1, <1>5, CallTyped DEF CallOK, RetriesAreBounded, InStream
<1>8. SequencesAreAccounted'
  BY <1>1, <1>2, <1>3, CallTyped DEF Inv, TypeOK, RuntimeTyped, SequencesAreAccounted
<1> QED
  BY <1>1, <1>3, <1>6, <1>7, <1>8, CallTyped, RuntimeStep DEF InStream

\* What is left of a session that is dropped: the frames it numbered are accounted for.
LEMMA Discarded ==
  ASSUME Inv, DiscardPump
  PROVE  /\ pump' = NoPump /\ packets' = 0 /\ event' = FALSE /\ backlog' = FALSE
         /\ nextSequence' \in 0 .. SequenceLimit
         /\ nextSequence' = delivered + lost + call.frames
<1>1. pump' = NoPump /\ packets' = 0 /\ event' = FALSE /\ backlog' = FALSE
  BY DEF DiscardPump
<1>2. CASE pump = NoPump
  <2>1. call.frames = 0 /\ nextSequence' = nextSequence
    BY <1>2, CallTyped
       DEF DiscardPump, Inv, TypeOK, RuntimeTyped, PumpMatchesState, Draining, CallOK, Calls
  <2> QED
    BY <1>1, <1>2, <2>1 DEF Inv, TypeOK, RuntimeTyped, SequencesAreAccounted
<1>3. CASE pump # NoPump
  <2>1. nextSequence' = pump.sequence /\ pump \in Pumps
    BY <1>3 DEF DiscardPump, Inv, TypeOK, RuntimeTyped
  <2> QED
    BY <1>1, <1>3, <2>1 DEF Inv, SequencesAreAccounted, Pumps
<1> QED
  BY <1>2, <1>3

LEMMA DiscardedTyped ==
  ASSUME Inv, DiscardPump, controller' \in Controllers, call' \in Calls, timers' \in 0 .. MaxTimers,
         delivered' \in Nat, lost' \in Nat, attempts' \in 0 .. MaxReopenFailures
  PROVE  RuntimeTyped'
<1>1. pump' \in Pumps \union {NoPump} /\ packets' \in 0 .. MaxPackets
      /\ nextSequence' \in 0 .. SequenceLimit
  BY Discarded
<1>2. event' \in BOOLEAN
  BY Discarded
<1>3. backlog' \in BOOLEAN
  BY Discarded
<1> QED
  BY <1>1, <1>2, <1>3 DEF RuntimeTyped

LEMMA StepStop == Inv /\ Stop => Inv'
<1> SUFFICES ASSUME Inv, Stop PROVE Inv'
  OBVIOUS
<1>1. /\ UNCHANGED <<system, bridge, call, delivered, lost, attempts>>
      /\ call = Idle /\ DiscardPump
  BY DEF Stop
<1>2. /\ controller' \in Controllers /\ timers' \in 0 .. MaxTimers
      /\ controller'.state = "Stopped"
  <2>1. CASE controller.state = "Stopped"
    <3>1. Transition("StopRequested").to = controller
      BY <2>1, Transitions DEF Ignored, To, Inv, TypeOK, RuntimeTyped, Controllers
    <3>2. controller \in Controllers
      BY DEF Inv, TypeOK, RuntimeTyped
    <3> QED
      BY <2>1, <3>1, <3>2, ApplyTyped DEF Stop
  <2>2. CASE controller.state # "Stopped"
    <3>1. Transition("StopRequested").to = [state |-> "Stopped", failures |-> 0]
      BY <2>2, Transitions DEF To
    <3>2. Transition("StopRequested").to \in Controllers
      BY <3>1 DEF Controllers, States
    <3> QED
      BY <3>1, <3>2, ApplyTyped DEF Stop
  <2> QED
    BY <2>1, <2>2
<1>3. /\ pump' = NoPump /\ packets' = 0 /\ event' = FALSE /\ backlog' = FALSE
      /\ nextSequence' \in 0 .. SequenceLimit
      /\ nextSequence' = delivered + lost + call.frames
  BY <1>1, Discarded
<1>4. RuntimeTyped'
  BY <1>1, <1>2, DiscardedTyped DEF Inv, TypeOK, RuntimeTyped
<1>5. PumpMatchesState' /\ CallOK'
  BY <1>1, <1>2, <1>3, CallTyped DEF PumpMatchesState, CallOK, InStream, Draining
<1>6. SequencesAreAccounted'
  BY <1>1, <1>3, CallTyped DEF Inv, TypeOK, RuntimeTyped, SequencesAreAccounted
<1>7. RetriesAreBounded'
  BY <1>1, <1>2 DEF Inv, RetriesAreBounded
<1> QED
  BY <1>1, <1>2, <1>4, <1>5, <1>6, <1>7, CallTyped, RuntimeStep DEF InStream

LEMMA StepPoll == Inv /\ Poll => Inv'
<1> SUFFICES ASSUME Inv, Poll PROVE Inv'
  OBVIOUS
<1>1. /\ UNCHANGED <<system, bridge, controller, pump, nextSequence, packets, timers, ghosts>>
      /\ call = Idle /\ InStream
  BY DEF Poll
<1>2. /\ call' \in Calls /\ call'.at \in {"idle", "next"} /\ call'.frames = 0 /\ call'.consumed = 0
      /\ call'.at = "idle" => call' = Idle
  BY <1>1, CallTyped DEF Poll, Call
<1>3. event' \in BOOLEAN
  BY DEF Poll, Inv, TypeOK, RuntimeTyped
<1>4. RuntimeTyped' /\ PumpMatchesState'
  BY <1>1, <1>2, <1>3, CallTyped
     DEF Inv, TypeOK, RuntimeTyped, ghosts, PumpMatchesState, InStream, Draining
<1>5. CallOK' /\ RetriesAreBounded' /\ SequencesAreAccounted'
  BY <1>1, <1>2, CallTyped
     DEF Inv, CallOK, RetriesAreBounded, SequencesAreAccounted, InStream, ghosts
<1> QED
  BY <1>1, <1>2, <1>4, <1>5, RuntimeStep DEF InStream

LEMMA StepNextPacket == Inv /\ NextPacket => Inv'
<1> SUFFICES ASSUME Inv, NextPacket PROVE Inv'
  OBVIOUS
<1>1. /\ UNCHANGED <<system, bridge, controller, pump, session, timers, lost, attempts>>
      /\ call.at = "next" /\ InStream /\ pump \in Pumps /\ pump # NoPump
  BY DEF NextPacket, FinishPoll, ghosts, Inv, TypeOK, RuntimeTyped, PumpMatchesState, Draining
<1>2. CASE packets > 0 /\ call.consumed < Budget /\ call' = [call EXCEPT !.at = "read"]
           /\ UNCHANGED <<nextSequence, ghosts>>
  <2>1. /\ call' \in Calls /\ call'.at = "read" /\ call'.consumed = call.consumed
        /\ call'.frames = call.frames
    BY <1>2 DEF Inv, TypeOK, RuntimeTyped, Calls
  <2>2. RuntimeTyped' /\ PumpMatchesState'
    BY <1>1, <1>2, <2>1
       DEF Inv, TypeOK, RuntimeTyped, ghosts, session, PumpMatchesState, InStream, Draining
  <2>3. CallOK' /\ RetriesAreBounded' /\ SequencesAreAccounted'
    BY <1>1, <1>2, <2>1
       DEF Inv, CallOK, RetriesAreBounded, SequencesAreAccounted, InStream, ghosts, session
  <2> QED
    BY <1>1, <2>1, <2>2, <2>3, RuntimeStep DEF InStream
<1>3. ASSUME NEW left \in BOOLEAN, FinishPoll(left) PROVE Inv'
  <2>1. /\ nextSequence' = pump.sequence /\ delivered' = delivered + call.frames
        /\ backlog' \in BOOLEAN /\ call' = Idle
    BY <1>3 DEF FinishPoll, Return
  <2>2. RuntimeTyped' /\ PumpMatchesState'
    BY <1>1, <2>1, CallTyped
       DEF Inv, TypeOK, RuntimeTyped, session, PumpMatchesState, InStream, Draining,
       Pumps, Calls
  <2>3. SequencesAreAccounted'
    BY <1>1, <2>1, CallTyped DEF Inv, TypeOK, RuntimeTyped, SequencesAreAccounted, Calls
  <2>4. CallOK' /\ RetriesAreBounded'
    BY <1>1, <2>1, CallTyped DEF Inv, CallOK, RetriesAreBounded, InStream
  <2> QED
    BY <1>1, <2>1, <2>2, <2>3, <2>4, CallTyped, RuntimeStep DEF InStream
<1> QED
  BY <1>2, <1>3 DEF NextPacket

LEMMA StepReadPacket == Inv /\ ReadPacket => Inv'
<1> SUFFICES ASSUME Inv, ReadPacket PROVE Inv'
  OBVIOUS
<1>1. /\ UNCHANGED <<system, bridge, controller, nextSequence, event, timers, ghosts>>
      /\ call.at = "read" /\ InStream /\ pump \in Pumps /\ packets' = packets - 1
      /\ packets > 0 /\ call.consumed < Budget /\ call.frames <= call.consumed /\ call \in Calls
  BY DEF ReadPacket, Inv, TypeOK, RuntimeTyped, PumpMatchesState, Draining, CallOK
<1>2. \E done \in {0, 1} :
        /\ call' \in Calls /\ call'.at = "next" /\ call'.consumed = call.consumed + 1
        /\ call'.frames = call.frames + done
        /\ pump' \in Pumps /\ pump'.endpoint = pump.endpoint
        /\ pump'.sequence = pump.sequence + done
  <2>1. CASE CompletesFrame
    <3>1. call' = [at |-> "next", endpoint |-> call.endpoint, consumed |-> call.consumed + 1,
                   frames |-> call.frames + 1]
      BY <1>1, <2>1 DEF ReadPacket, Calls
    <3>2. pump' = [endpoint |-> pump.endpoint, sequence |-> pump.sequence + 1, pending |-> 0]
          /\ pump.sequence # SequenceLimit
      BY <1>1, <2>1 DEF ReadPacket, Pumps
    <3> QED
      BY <1>1, <3>1, <3>2 DEF Calls, Pumps
  <2>2. CASE ~CompletesFrame
    <3>1. call' = [at |-> "next", endpoint |-> call.endpoint, consumed |-> call.consumed + 1,
                   frames |-> call.frames]
      BY <1>1, <2>2 DEF ReadPacket, Calls
    <3>2. pump' = [endpoint |-> pump.endpoint, sequence |-> pump.sequence, pending |-> pump.pending + 1]
          /\ pump.pending + 1 < PacketsPerFrame
      BY <1>1, <2>2 DEF ReadPacket, Pumps, CompletesFrame
    <3> QED
      BY <1>1, <3>1, <3>2 DEF Calls, Pumps
  <2> QED
    BY <2>1, <2>2
<1>3. PICK done \in {0, 1} :
        /\ call' \in Calls /\ call'.at = "next" /\ call'.consumed = call.consumed + 1
        /\ call'.frames = call.frames + done
        /\ pump' \in Pumps /\ pump'.endpoint = pump.endpoint
        /\ pump'.sequence = pump.sequence + done
  BY <1>2
<1>4. RuntimeTyped' /\ PumpMatchesState'
  BY <1>1, <1>3, NoPumpIsNone
     DEF Inv, TypeOK, RuntimeTyped, ghosts, PumpMatchesState, InStream, Draining
<1>5. CallOK' /\ RetriesAreBounded'
  BY <1>1, <1>3 DEF Inv, CallOK, RetriesAreBounded, InStream, ghosts, Calls
<1>6. SequencesAreAccounted'
  BY <1>1, <1>3, NoPumpIsNone
     DEF Inv, TypeOK, RuntimeTyped, SequencesAreAccounted, ghosts, Calls, Pumps
<1> QED
  BY <1>1, <1>3, <1>4, <1>5, <1>6, RuntimeStep DEF InStream

LEMMA StepReadNothing == Inv /\ ReadNothing => Inv'
<1> SUFFICES ASSUME Inv, ReadNothing PROVE Inv'
  OBVIOUS
<1>1. /\ UNCHANGED <<system, bridge, controller, pump, nextSequence, session, timers, ghosts>>
      /\ call.at = "read" /\ call.consumed < Budget /\ call.frames <= call.consumed /\ call \in Calls
  BY DEF ReadNothing, Inv, TypeOK, RuntimeTyped, CallOK
<1>2. call' = [at |-> "next", endpoint |-> call.endpoint, consumed |-> call.consumed + 1,
               frames |-> call.frames]
  BY <1>1 DEF ReadNothing, Calls
<1>3. /\ call' \in Calls /\ call'.at = "next" /\ call'.consumed = call.consumed + 1
      /\ call'.frames = call.frames
  BY <1>1, <1>2 DEF Calls
<1>4. RuntimeTyped' /\ PumpMatchesState'
  BY <1>1, <1>3 DEF Inv, TypeOK, RuntimeTyped, session, ghosts, PumpMatchesState, InStream, Draining
<1>5. CallOK' /\ RetriesAreBounded'
  BY <1>1, <1>3 DEF Inv, CallOK, RetriesAreBounded, InStream, ghosts, Calls
<1>6. SequencesAreAccounted'
  BY <1>1, <1>3 DEF Inv, SequencesAreAccounted, ghosts
<1> QED
  BY <1>1, <1>3, <1>4, <1>5, <1>6, RuntimeStep DEF InStream

LEMMA StepFailPoll == Inv /\ FailPoll => Inv'
<1> SUFFICES ASSUME Inv, FailPoll PROVE Inv'
  OBVIOUS
<1>1. /\ UNCHANGED <<system, bridge, delivered, attempts>>
      /\ InStream /\ call \in Calls /\ call' = Idle /\ DiscardPump /\ lost' = lost + call.frames
      /\ attempts = 0
  BY DEF FailPoll, Return, Inv, TypeOK, RuntimeTyped, PumpMatchesState, CallOK
<1>2. /\ controller' \in Controllers /\ timers' \in 0 .. MaxTimers
      /\ controller'.state \in {"Failed", "Recovering"} /\ controller'.failures = 0
  <2>1. CASE Apply("StreamFailed")
    <3>1. Transition("StreamFailed").to = [state |-> "Recovering", failures |-> 0]
      BY <1>1, Transitions DEF Retry, To
    <3>2. Transition("StreamFailed").to \in Controllers
      BY <3>1 DEF Controllers, States
    <3> QED
      BY <2>1, <3>1, <3>2, ApplyTyped
  <2>2. CASE Apply("StreamBroken")
    <3>1. Transition("StreamBroken").to = [state |-> "Failed", failures |-> 0]
      BY <1>1, Transitions DEF To
    <3>2. Transition("StreamBroken").to \in Controllers
      BY <3>1 DEF Controllers, States
    <3> QED
      BY <2>2, <3>1, <3>2, ApplyTyped
  <2> QED
    BY <2>1, <2>2 DEF FailPoll
<1>3. /\ pump' = NoPump /\ packets' = 0
      /\ nextSequence' = delivered + lost + call.frames
  BY <1>1, Discarded
<1>4. lost' \in Nat
  BY <1>1 DEF Inv, TypeOK, RuntimeTyped, Calls
<1>5. RuntimeTyped'
  BY <1>1, <1>2, <1>4, CallTyped, DiscardedTyped DEF Inv, TypeOK, RuntimeTyped
<1>6. PumpMatchesState' /\ CallOK'
  BY <1>1, <1>2, <1>3, CallTyped DEF PumpMatchesState, CallOK, InStream, Draining
<1>7. SequencesAreAccounted'
  BY <1>1, <1>3 DEF Inv, TypeOK, RuntimeTyped, SequencesAreAccounted, Calls
<1>8. RetriesAreBounded'
  BY <1>1, <1>2 DEF RetriesAreBounded
<1> QED
  BY <1>1, <1>2, <1>5, <1>6, <1>7, <1>8, CallTyped, RuntimeStep DEF InStream

LEMMA StepCapturePacket == Inv /\ CapturePacket => Inv'
<1> SUFFICES ASSUME Inv, CapturePacket PROVE Inv'
  OBVIOUS
<1>1. /\ UNCHANGED <<system, bridge, controller, pump, nextSequence, call, timers, ghosts>>
      /\ packets' = packets + 1 /\ packets' \in 0 .. MaxPackets
  BY DEF CapturePacket, Inv, TypeOK, RuntimeTyped
<1>2. event' \in BOOLEAN
  BY DEF CapturePacket
<1>3. RuntimeTyped' /\ PumpMatchesState'
  BY <1>1, <1>2 DEF Inv, TypeOK, RuntimeTyped, ghosts, PumpMatchesState, InStream, Draining
<1>4. CallOK' /\ RetriesAreBounded' /\ SequencesAreAccounted'
  BY <1>1
     DEF Inv, TypeOK, RuntimeTyped, CallOK, RetriesAreBounded, SequencesAreAccounted, InStream,
         ghosts
<1> QED
  BY <1>1, <1>3, <1>4, RuntimeStep DEF InStream

-----------------------------------------------------------------------------
\* A step of the system or the bridge, which takes no announcement back.
LEMMA SystemStep ==
  ASSUME Inv, UNCHANGED <<controller, pump, nextSequence, session, call, timers, ghosts>>,
         SystemTyped', BridgeTyped', \A e : Announced(e) => Announced(e)'
  PROVE  Inv'
<1>1. RuntimeTyped' /\ PumpMatchesState'
  BY DEF Inv, TypeOK, RuntimeTyped, session, ghosts, PumpMatchesState, InStream, Draining
<1>2. CallOK' /\ RetriesAreBounded' /\ SequencesAreAccounted'
  BY DEF Inv, CallOK, RetriesAreBounded, SequencesAreAccounted, InStream, ghosts, session
<1>3. UNCHANGED <<InStream, pump, call>>
  BY DEF InStream
<1>4. InStream' => Announced(pump.endpoint)'
  <2>1. InStream => Announced(pump.endpoint)'
    BY DEF Inv, StaleAnnounced
  <2> QED
    BY <1>3, <2>1
<1>5. call'.at = "start" => Announced(call.endpoint)'
  BY <1>3 DEF Inv, StaleAnnounced
<1> QED
  BY <1>1, <1>2, <1>4, <1>5 DEF Inv, TypeOK, StaleAnnounced

LEMMA StepChange ==
  ASSUME Inv, NEW endpoints \in SUBSET Endpoints, NEW to \in endpoints \union {None},
         NEW notifications \in Seq(Notifications), Change(endpoints, to, notifications)
  PROVE  Inv'
<1> DEFINE news == IF to = default THEN <<>> ELSE <<Default(to)>>
<1>1. /\ UNCHANGED <<bridge, controller, pump, nextSequence, session, call, timers, ghosts>>
      /\ active' = endpoints /\ default' = to /\ callbacks' = callbacks \o notifications \o news
      /\ changes' = changes + 1 /\ changes < MaxChanges
  BY DEF Change
<1>2. Default(to) \in Notifications
  BY DEF Default, Notifications
<1>3. news \in Seq(Notifications)
  <2>1. CASE to = default
    BY <2>1
  <2>2. CASE to # default
    BY <1>2, <2>2, OneElement
  <2> QED
    BY <2>1, <2>2
<1>4. to # default => Default(to) \in ToSet(news)
  BY <1>2, OneElement
<1> HIDE DEF news
<1>5. callbacks' \in Seq(Notifications)
      /\ ToSet(callbacks') = ToSet(callbacks) \union ToSet(notifications) \union ToSet(news)
  <2>1. callbacks \o notifications \in Seq(Notifications)
        /\ ToSet(callbacks \o notifications) = ToSet(callbacks) \union ToSet(notifications)
    BY ConcatElements DEF Inv, TypeOK, SystemTyped
  <2>2. PICK both \in Seq(Notifications) :
          both = callbacks \o notifications
    BY <2>1
  <2>3. both \o news \in Seq(Notifications) /\ ToSet(both \o news) = ToSet(both) \union ToSet(news)
    BY <1>3, ConcatElements
  <2> QED
    BY <1>1, <2>1, <2>2, <2>3
<1>6. SystemTyped' /\ BridgeTyped'
  BY <1>1, <1>5 DEF Inv, TypeOK, SystemTyped, BridgeTyped, bridge
<1>7. ASSUME NEW e, Announced(e) PROVE Announced(e)'
  <2>1. CASE to = default
    BY <1>1, <1>5, <1>7, <2>1 DEF Announced, Requiring, bridge
  <2>2. CASE to # default
    <3>1. RequiresReopen(Default(to), e) \/ e = to
      BY DEF RequiresReopen, Default
    <3> QED
      BY <1>1, <1>4, <1>5, <2>2, <3>1 DEF Announced, Requiring
  <2> QED
    BY <2>1, <2>2
<1> QED
  BY <1>1, <1>6, <1>7, SystemStep

LEMMA StepSystem == Inv /\ (Unplug \/ Plug \/ SetDefault) => Inv'
<1> SUFFICES ASSUME Inv, Unplug \/ Plug \/ SetDefault PROVE Inv'
  OBVIOUS
<1>1. active \subseteq Endpoints /\ default \in active \union {None}
  BY DEF Inv, TypeOK, SystemTyped
<1>2. \A e \in Endpoints : Gone(e) \in Notifications /\ Appeared(e) \in Notifications
  BY DEF Gone, Appeared, Notifications
<1>3. CASE Unplug
  <2>1. PICK e \in active : \E to \in (active \ {e}) \union {None} :
          Change(active \ {e}, to, <<Gone(e)>>)
    BY <1>1, <1>3 DEF Unplug
  <2>3. PICK to \in (active \ {e}) \union {None} : Change(active \ {e}, to, <<Gone(e)>>)
    BY <2>1
  <2>2. active \ {e} \in SUBSET Endpoints /\ to \in (active \ {e}) \union {None}
        /\ <<Gone(e)>> \in Seq(Notifications)
    BY <1>1, <1>2, OneElement
  <2> QED
    BY <2>3, <2>2, StepChange
<1>4. CASE Plug
  <2>1. PICK e \in Endpoints \ active : \E to \in active \union {e, None} :
          Change(active \union {e}, to, <<Appeared(e)>>)
    BY <1>1, <1>4 DEF Plug
  <2>3. PICK to \in active \union {e, None} : Change(active \union {e}, to, <<Appeared(e)>>)
    BY <2>1
  <2>2. active \union {e} \in SUBSET Endpoints /\ to \in (active \union {e}) \union {None}
        /\ <<Appeared(e)>> \in Seq(Notifications)
    BY <1>1, <1>2, OneElement
  <2> QED
    BY <2>3, <2>2, StepChange
<1>5. CASE SetDefault
  <2>1. PICK e \in active \ {default} : Change(active, e, <<>>)
    BY <1>5 DEF SetDefault
  <2>2. active \in SUBSET Endpoints /\ e \in active \union {None} /\ <<>> \in Seq(Notifications)
    BY <1>1
  <2> QED
    BY <2>1, <2>2, StepChange
<1> QED
  BY <1>3, <1>4, <1>5

LEMMA StepPublish == Inv /\ Publish => Inv'
<1> SUFFICES ASSUME Inv, Publish PROVE Inv'
  OBVIOUS
<1>1. /\ UNCHANGED <<active, default, changes, held, controller, pump, nextSequence, session, call,
                     timers, ghosts>>
      /\ callbacks # <<>> /\ callbacks' = Tail(callbacks)
  BY DEF Publish
<1>2. /\ callbacks' \in Seq(Notifications) /\ Head(callbacks) \in Notifications
      /\ ToSet(callbacks) = {Head(callbacks)} \union ToSet(callbacks')
  BY <1>1, TailElements DEF Inv, TypeOK, SystemTyped
<1>3. CASE Len(queue) < QueueCapacity
  <2>1. queue' = Append(queue, Head(callbacks)) /\ dropped' = dropped
    BY <1>3 DEF Publish
  <2>2. /\ queue' \in Seq(Notifications) /\ Len(queue') = Len(queue) + 1
        /\ ToSet(queue') = ToSet(queue) \union {Head(callbacks)}
    BY <1>2, <2>1, AppendElements DEF Inv, TypeOK, BridgeTyped
  <2>3. SystemTyped' /\ BridgeTyped'
    BY <1>1, <1>2, <1>3, <2>1, <2>2 DEF Inv, TypeOK, SystemTyped, BridgeTyped
  <2>4. \A e : Announced(e) => Announced(e)'
    BY <1>1, <1>2, <2>1, <2>2 DEF Announced, Requiring
  <2> QED
    BY <1>1, <2>3, <2>4, SystemStep
<1>4. CASE ~(Len(queue) < QueueCapacity)
  <2>1. queue' = queue /\ dropped' = dropped + 1
    BY <1>4 DEF Publish
  <2>2. SystemTyped' /\ BridgeTyped' /\ dropped' # 0
    BY <1>1, <1>2, <2>1 DEF Inv, TypeOK, SystemTyped, BridgeTyped
  <2>3. \A e : Announced(e)'
    BY <2>2 DEF Announced
  <2> QED
    BY <1>1, <2>2, <2>3, SystemStep
<1> QED
  BY <1>3, <1>4

LEMMA StepDrain == Inv /\ Drain => Inv'
<1> SUFFICES ASSUME Inv, Drain PROVE Inv'
  OBVIOUS
<1>1. /\ UNCHANGED <<system, dropped, controller, pump, nextSequence, session, call, timers, ghosts>>
      /\ held = <<>>
  BY DEF Drain
<1>2. PICK n \in 1 .. Len(queue) :
        held' = SubSeq(queue, 1, n) /\ queue' = SubSeq(queue, n + 1, Len(queue))
  BY DEF Drain
<1>3. queue \in Seq(Notifications) /\ Len(queue) <= QueueCapacity /\ Len(queue) \in Nat
  BY DEF Inv, TypeOK, BridgeTyped
<1>4. /\ held' \in Seq(Notifications) /\ queue' \in Seq(Notifications)
      /\ Len(held') = n /\ Len(queue') = Len(queue) - n
      /\ ToSet(queue) = ToSet(held') \union ToSet(queue')
  BY <1>2, <1>3, SplitElements
<1>5. SystemTyped' /\ BridgeTyped'
  BY <1>1, <1>3, <1>4 DEF Inv, TypeOK, SystemTyped, BridgeTyped, system
<1>6. ToSet(held) = {}
  BY <1>1 DEF ToSet
<1>7. \A e : Announced(e) => Announced(e)'
  BY <1>1, <1>4, <1>6 DEF Announced, Requiring, system
<1> QED
  BY <1>1, <1>5, <1>7, SystemStep

LEMMA StepApplyNotifications == Inv /\ ApplyNotifications => Inv'
<1> SUFFICES ASSUME Inv, ApplyNotifications PROVE Inv'
  OBVIOUS
<1>1. /\ UNCHANGED <<system, queue, dropped, call, delivered, lost, attempts>>
      /\ call = Idle /\ held' = <<>>
  BY DEF ApplyNotifications
<1>2. SystemTyped' /\ BridgeTyped'
  <2>1. held' \in Seq(Notifications) /\ Len(held') = 0
    BY <1>1
  <2> QED
    BY <1>1, <2>1 DEF Inv, TypeOK, SystemTyped, BridgeTyped, system
<1>3. CASE InStream /\ \E n \in ToSet(held) : RequiresReopen(n, pump.endpoint)
  <2>1. DiscardPump /\ Apply("DeviceInvalidated") /\ attempts = 0
    BY <1>3 DEF ApplyNotifications, Inv, CallOK
  <2>2. Transition("DeviceInvalidated").to = [state |-> "Recovering", failures |-> 0]
    BY <1>3, Transitions DEF Retry, To
  <2>3. /\ controller' = [state |-> "Recovering", failures |-> 0] /\ controller' \in Controllers
        /\ timers' \in 0 .. MaxTimers
    BY <2>1, <2>2, ApplyTyped DEF Controllers, States
  <2>4. /\ pump' = NoPump /\ nextSequence' = delivered + lost + call.frames
    BY <2>1, Discarded
  <2>5. RuntimeTyped'
    BY <1>1, <2>1, <2>3, DiscardedTyped DEF Inv, TypeOK, RuntimeTyped
  <2>6. PumpMatchesState' /\ CallOK' /\ StaleAnnounced'
    BY <1>1, <2>3, <2>4, CallTyped DEF PumpMatchesState, CallOK, InStream, Draining, StaleAnnounced
  <2>7. SequencesAreAccounted'
    BY <1>1, <2>4, CallTyped DEF Inv, TypeOK, RuntimeTyped, SequencesAreAccounted
  <2>8. RetriesAreBounded'
    BY <1>1, <2>1, <2>3 DEF RetriesAreBounded
  <2> QED
    BY <1>2, <2>5, <2>6, <2>7, <2>8 DEF Inv, TypeOK
<1>4. CASE ~(InStream /\ \E n \in ToSet(held) : RequiresReopen(n, pump.endpoint))
  <2>1. UNCHANGED <<controller, pump, nextSequence, session, call, timers, ghosts>>
    BY <1>4 DEF ApplyNotifications, ghosts
  <2>2. RuntimeTyped' /\ PumpMatchesState'
    BY <2>1 DEF Inv, TypeOK, RuntimeTyped, session, ghosts, PumpMatchesState, InStream, Draining
  <2>3. CallOK' /\ RetriesAreBounded' /\ SequencesAreAccounted'
    BY <2>1 DEF Inv, CallOK, RetriesAreBounded, SequencesAreAccounted, InStream, ghosts, session
  <2>4. InStream /\ Announced(pump.endpoint) => Announced(pump.endpoint)'
    BY <1>1, <1>4, <2>1 DEF Announced, Requiring, system
  <2>5. StaleAnnounced'
    <3>1. InStream' <=> InStream
      BY <2>1 DEF InStream
    <3>2. call'.at # "start"
      BY <1>1, CallTyped
    <3>3. InStream => Announced(pump.endpoint)'
      BY <2>4 DEF Inv, StaleAnnounced
    <3> QED
      BY <2>1, <3>1, <3>2, <3>3 DEF StaleAnnounced
  <2> QED
    BY <1>2, <2>2, <2>3, <2>5 DEF Inv, TypeOK
<1> QED
  BY <1>3, <1>4

-----------------------------------------------------------------------------
THEOREM Invariant == Spec => []Inv
<1>1. Inv /\ [Next]_vars => Inv'
  <2> SUFFICES ASSUME Inv, [Next]_vars PROVE Inv'
    OBVIOUS
  <2>1. CASE UNCHANGED vars
    BY <2>1, Stutter
  <2>2. CASE Start \/ RetryTimerElapsed \/ Stop
    BY <2>2, StepStart, StepRetryTimer, StepStop
  <2>3. CASE PickEndpoint \/ FailOpen \/ StartPump
    BY <2>3, StepPickEndpoint, StepFailOpen, StepStartPump
  <2>4. CASE Poll \/ NextPacket \/ ReadPacket \/ ReadNothing \/ FailPoll
    BY <2>4, StepPoll, StepNextPacket, StepReadPacket, StepReadNothing, StepFailPoll
  <2>5. CASE Unplug \/ Plug \/ SetDefault
    BY <2>5, StepSystem
  <2>6. CASE Publish \/ Drain \/ ApplyNotifications \/ CapturePacket
    BY <2>6, StepPublish, StepDrain, StepApplyNotifications, StepCapturePacket
  <2> QED
    BY <2>1, <2>2, <2>3, <2>4, <2>5, <2>6 DEF Next
<1> QED
  BY <1>1, InitInv, PTL DEF Spec

\* The state of the runtime is well typed; a pump exists exactly while the controller says
\* that the stream runs, and a device is opened or drained only in the states for it.
THEOREM TypeCorrect == Spec => []TypeOK
<1>1. Inv => TypeOK
  BY DEF Inv
<1> QED
  BY <1>1, Invariant, PTL

\* Over every reopening, restart and failed poll, each frame number is used once.
THEOREM SequencesContinue == Spec => []SequencesAreAccounted
<1>1. Inv => SequencesAreAccounted
  BY DEF Inv
<1> QED
  BY <1>1, Invariant, PTL

\* An unattended stream opens its device at most MaxReopenFailures times in a row.
THEOREM RetriesEnd == Spec => []RetriesAreBounded
<1>1. Inv => RetriesAreBounded
  BY DEF Inv
<1> QED
  BY <1>1, Invariant, PTL

\* Whatever the system changes while a device is being opened, a stream that runs on an
\* endpoint that is no longer the default finds a notification that makes it reopen, as
\* long as the channel dropped none.
THEOREM StaleStreamsHearOfIt == Spec => []StaleEndpointIsAnnounced
<1>1. Inv => StaleEndpointIsAnnounced
  BY DEF Inv, StaleAnnounced, Announced, Requiring, StaleEndpointIsAnnounced
<1> QED
  BY <1>1, Invariant, PTL

\* The buffer, the event and what a drain left behind belong to the session: nothing of
\* one session is found by the next.
SessionOfPump == pump = NoPump => packets = 0 /\ event = FALSE /\ backlog = FALSE

LEMMA SessionKept ==
  ASSUME Inv, SessionOfPump, NoLostPacketEvent, Next
  PROVE  SessionOfPump' /\ NoLostPacketEvent'
<1> USE DEF SessionOfPump, NoLostPacketEvent
<1>1. (pump = NoPump <=> ~InStream) /\ (Draining => InStream)
  BY DEF Inv, TypeOK, PumpMatchesState
<1>2. Idle.at = "idle" /\ Call("open").at = "open" /\ Call("next").at = "next"
  BY DEF Idle, Call
<1>3. CASE Start \/ RetryTimerElapsed
  <2>1. UNCHANGED <<pump, packets, event, backlog>> /\ ~Draining
    BY <1>2, <1>3 DEF Start, RetryTimerElapsed, session, Draining
  <2> QED
    BY <2>1
<1>4. CASE Stop \/ FailPoll
  BY <1>4 DEF Stop, FailPoll, DiscardPump
<1>5. CASE PickEndpoint \/ FailOpen
  <2>1. UNCHANGED <<pump, packets, event, backlog>> /\ ~Draining
    BY <1>5 DEF PickEndpoint, FailOpen, session, ghosts, Draining
  <2> QED
    BY <2>1
<1>6. CASE StartPump
  <2>1. UNCHANGED <<packets, event, backlog>> /\ ~Draining /\ controller.state = "Opening"
    BY <1>6 DEF StartPump, session, Draining, Inv, TypeOK, PumpMatchesState
  <2>2. pump = NoPump
    BY <1>1, <2>1 DEF InStream
  <2> QED
    BY <2>1, <2>2
<1>7. CASE Poll
  <2>1. UNCHANGED <<pump, packets, backlog>> /\ ~Draining /\ InStream
    BY <1>2, <1>7 DEF Poll, ghosts, Draining
  <2>2. CASE event
    <3>1. call' = Call("next")
      BY <1>7, <2>2 DEF Poll
    <3>2. Draining'
      BY <1>2, <3>1 DEF Draining
    <3> QED
      BY <1>1, <2>1, <3>2
  <2>3. CASE ~event
    BY <1>7, <2>1, <2>3 DEF Poll
  <2> QED
    BY <2>2, <2>3
<1>8. CASE NextPacket
  <2>1. UNCHANGED <<pump, packets, event>> /\ Draining
    BY <1>8 DEF NextPacket, FinishPoll, session, Draining
  <2>2. CASE FinishPoll(FALSE) /\ packets = 0
    BY <1>1, <2>1, <2>2
  <2>3. CASE FinishPoll(TRUE)
    BY <1>1, <2>1, <2>3 DEF FinishPoll
  <2>4. CASE call' = [call EXCEPT !.at = "read"] /\ UNCHANGED ghosts
    <3>1. Draining'
      BY <2>4 DEF Draining, Inv, TypeOK, RuntimeTyped, Calls
    <3> QED
      BY <1>1, <2>1, <3>1
  <2> QED
    BY <1>8, <2>2, <2>3, <2>4 DEF NextPacket
<1>9. CASE ReadPacket \/ ReadNothing
  <2>1. call'.at = "next" /\ Draining
    BY <1>9 DEF ReadPacket, ReadNothing, Draining, Inv, TypeOK, RuntimeTyped, Calls
  <2>2. Draining'
    BY <2>1 DEF Draining
  <2>3. pump \in Pumps
    BY <1>1, <2>1 DEF Inv, TypeOK, RuntimeTyped
  <2>4. pump'.endpoint = pump.endpoint /\ pump.endpoint # None
    BY <1>9, <2>3 DEF ReadPacket, ReadNothing, Pumps
  <2>5. pump' # NoPump
    BY <2>4 DEF NoPump
  <2> QED
    BY <2>2, <2>5
<1>10. CASE Unplug \/ Plug \/ SetDefault \/ Publish \/ Drain
  <2>1. UNCHANGED <<pump, packets, event, backlog, call>>
    BY <1>10 DEF Unplug, Plug, SetDefault, Change, Publish, Drain, session, ghosts
  <2> QED
    BY <2>1 DEF Draining
<1>11. CASE ApplyNotifications
  <2>1. ~Draining /\ call' = call
    BY <1>2, <1>11 DEF ApplyNotifications, Draining
  <2>2. CASE DiscardPump
    BY <2>2 DEF DiscardPump
  <2>3. CASE UNCHANGED <<pump, session, backlog>>
    BY <2>1, <2>3 DEF session
  <2> QED
    BY <1>11, <2>2, <2>3 DEF ApplyNotifications
<1>12. CASE CapturePacket
  BY <1>12 DEF CapturePacket
<1> QED
  BY <1>3, <1>4, <1>5, <1>6, <1>7, <1>8, <1>9, <1>10, <1>11, <1>12 DEF Next

\* Whenever no drain is in progress, packets in the buffer are signalled or were reported
\* as left behind; and a new session starts with an empty buffer and no stale signal.
THEOREM PacketsAreSignalled == Spec => [](NoLostPacketEvent /\ SessionOfPump)
<1>1. Init => NoLostPacketEvent /\ SessionOfPump
  BY DEF Init, NoLostPacketEvent, SessionOfPump
<1>2. Inv /\ NoLostPacketEvent /\ SessionOfPump /\ [Next]_vars => NoLostPacketEvent' /\ SessionOfPump'
  <2>1. UNCHANGED vars /\ NoLostPacketEvent /\ SessionOfPump => NoLostPacketEvent' /\ SessionOfPump'
    BY DEF vars, NoLostPacketEvent, SessionOfPump, Draining, session, ghosts
  <2> QED
    BY <2>1, SessionKept
<1> QED
  BY <1>1, <1>2, Invariant, PTL DEF Spec

===============================================================================
