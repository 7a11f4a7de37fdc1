---------------------------- MODULE CaptureRuntime ----------------------------
(***************************************************************************)
(* The capture runtime: the stream controller with its bounded recovery,   *)
(* the pump that drains a WASAPI session, and the bridge that carries the  *)
(* endpoint notifications of the system to the thread that owns the        *)
(* runtime.  The system changes its endpoints, delivers its callbacks and  *)
(* captures packets while a call of the runtime is in progress.            *)
(***************************************************************************)
EXTENDS Integers, SequencesExt

CONSTANTS Endpoints,          \* capture endpoints of the machine
          None,               \* no endpoint
          MaxReopenFailures,  \* RecoveryPolicy.max_reopen_failures
          Budget,             \* max_packets_per_drain
          PacketsPerFrame,    \* packets that make up a pipeline frame
          QueueCapacity,      \* capacity of the notification channel
          SequenceLimit,      \* u64::MAX
          MaxPackets,         \* bound on the packets in the endpoint buffer
          MaxTimers,          \* bound on the retry timers outstanding
          MaxChanges          \* bound on the changes of the endpoints

ASSUME NoneAssumption == None \notin Endpoints
ASSUME PolicyAssumption == MaxReopenFailures \in Nat \ {0}
ASSUME BudgetAssumption == Budget \in Nat \ {0} /\ PacketsPerFrame \in Nat \ {0}
ASSUME CapacityAssumption == QueueCapacity \in Nat \ {0}
ASSUME BoundsAssumption ==
  SequenceLimit \in Nat /\ MaxPackets \in Nat /\ MaxTimers \in Nat \ {0} /\ MaxChanges \in Nat

VARIABLES
  active,        \* endpoints that are plugged in and enabled
  default,       \* the default capture endpoint for communications
  callbacks,     \* notifications the system has still to deliver
  changes,       \* changes so far
  queue,         \* NotificationPublisher.sender
  dropped,       \* dropped notifications
  held,          \* notifications drained and not yet applied
  controller,    \* StreamController
  pump,          \* CaptureRuntime.pump: endpoint, next sequence, pending packets
  nextSequence,  \* CaptureRuntime.next_sequence
  packets,       \* packets in the endpoint buffer
  event,         \* the auto-reset event of the session
  call,          \* the call in progress
  timers,        \* retry timers the client has set
  delivered,     \* ghost: sequence after the last frame returned by a poll
  lost,          \* ghost: frames assembled by polls that failed
  attempts,      \* ghost: opens since the last request or running stream
  backlog        \* ghost: a poll reported packets it left behind

system == <<active, default, callbacks, changes>>
bridge == <<queue, dropped, held>>
session == <<packets, event>>
ghosts == <<delivered, lost, attempts, backlog>>
vars == <<system, bridge, controller, pump, nextSequence, session, call, timers, ghosts>>

States == {"Stopped", "Opening", "Running", "Recovering", "Bypassed", "Failed"}
NoPump == [endpoint |-> None, sequence |-> 0, pending |-> 0]
Call(at) == [at |-> at, endpoint |-> None, consumed |-> 0, frames |-> 0]
Idle == Call("idle")

Init ==
  /\ active = Endpoints /\ default \in Endpoints
  /\ callbacks = <<>> /\ changes = 0
  /\ queue = <<>> /\ dropped = 0 /\ held = <<>>
  /\ controller = [state |-> "Stopped", failures |-> 0]
  /\ pump = NoPump /\ nextSequence = 0
  /\ packets = 0 /\ event = FALSE
  /\ call = Idle /\ timers = 0
  /\ delivered = 0 /\ lost = 0 /\ attempts = 0 /\ backlog = FALSE

-----------------------------------------------------------------------------
(***************************************************************************)
(* StreamController                                                        *)
(***************************************************************************)
InStream == controller.state \in {"Running", "Bypassed"}

To(state, failures, action) ==
  [to |-> [state |-> state, failures |-> failures], action |-> action]

\* Mutant: the client is not told to retry.
RetryUntold(failures) == To("Recovering", failures, "None")

Retry(failures) == To("Recovering", failures, "ScheduleRetry")

\* Mutant: each failure counts as the first one.
OpenFailedForgets ==
  IF MaxReopenFailures = 1 THEN To("Failed", 1, "SurfaceFailure") ELSE Retry(1)

OpenFailed ==
  IF controller.failures + 1 >= MaxReopenFailures
  THEN To("Failed", controller.failures + 1, "SurfaceFailure")
  ELSE Retry(controller.failures + 1)

Ignored == To(controller.state, controller.failures, "None")

Transition(what) ==
  LET in(states) == controller.state \in states
  IN  CASE what = "StartRequested" /\ in({"Stopped"}) -> To("Opening", 0, "OpenDevice")
        [] what = "OpenSucceeded" /\ in({"Opening"}) -> To("Running", 0, "None")
        [] what = "OpenFailed" /\ in({"Opening"}) -> OpenFailed
        [] what = "OpenRefused" /\ in({"Opening"}) -> To("Failed", controller.failures, "SurfaceFailure")
        [] what \in {"DeviceInvalidated", "StreamFailed"} /\ InStream -> Retry(0)
        [] what = "StreamBroken" /\ InStream -> To("Failed", 0, "SurfaceFailure")
        [] what = "RetryTimerElapsed" /\ in({"Recovering"}) ->
             To("Opening", controller.failures, "OpenDevice")
        [] what = "StopRequested" /\ ~in({"Stopped"}) -> To("Stopped", 0, "StopDevice")
        [] OTHER -> Ignored

\* The controller takes the event, and the client sets the timer it is told to set.
Apply(what) ==
  /\ controller' = Transition(what).to
  /\ timers' = IF Transition(what).action # "ScheduleRetry" THEN timers
               ELSE IF timers < MaxTimers THEN timers + 1 ELSE timers

-----------------------------------------------------------------------------
(***************************************************************************)
(* CaptureRuntime: opening                                                 *)
(***************************************************************************)
\* The session is dropped with its buffer, its event and its pending packets.
DiscardPump ==
  /\ nextSequence' = IF pump = NoPump THEN nextSequence ELSE pump.sequence
  /\ pump' = NoPump
  /\ packets' = 0 /\ event' = FALSE /\ backlog' = FALSE

Return == call' = Idle

BeginOpen ==
  /\ call' = Call("open")
  /\ attempts' = attempts + 1

Start ==
  /\ call = Idle
  /\ Apply("StartRequested")
  /\ IF Transition("StartRequested").action = "OpenDevice"
     THEN call' = Call("open") /\ attempts' = 1
     ELSE UNCHANGED <<call, attempts>>
  /\ UNCHANGED <<system, bridge, pump, nextSequence, session, delivered, lost, backlog>>

RetryTimerElapsed ==
  /\ call = Idle /\ timers > 0
  /\ controller' = Transition("RetryTimerElapsed").to
  /\ timers' = timers - 1
  /\ IF Transition("RetryTimerElapsed").action = "OpenDevice"
     THEN BeginOpen ELSE UNCHANGED <<call, attempts>>
  /\ UNCHANGED <<system, bridge, pump, nextSequence, session, delivered, lost, backlog>>

\* EventCaptureSession::open_default picks the default endpoint of this moment.
PickEndpoint ==
  /\ call.at = "open" /\ default # None
  /\ call' = [call EXCEPT !.at = "start", !.endpoint = default]
  /\ UNCHANGED <<system, bridge, controller, pump, nextSequence, session, timers, ghosts>>

FailOpen ==
  /\ \/ call.at = "open" /\ Apply("OpenFailed")
     \/ call.at = "start" /\ Apply("OpenFailed")
     \/ call.at \in {"open", "start"} /\ default # None /\ Apply("OpenRefused")
  /\ Return
  /\ UNCHANGED <<system, bridge, pump, nextSequence, session, ghosts>>

\* Mutant: the new pump numbers its frames from the beginning.
StartPumpAtZero ==
  /\ call.at = "start" /\ call.endpoint \in active
  /\ pump' = [endpoint |-> call.endpoint, sequence |-> 0, pending |-> 0]
  /\ Apply("OpenSucceeded") /\ Return /\ attempts' = 0
  /\ UNCHANGED <<system, bridge, nextSequence, session, delivered, lost, backlog>>

StartPump ==
  /\ call.at = "start" /\ call.endpoint \in active
  /\ pump' = [endpoint |-> call.endpoint, sequence |-> nextSequence, pending |-> 0]
  /\ Apply("OpenSucceeded") /\ Return /\ attempts' = 0
  /\ UNCHANGED <<system, bridge, nextSequence, session, delivered, lost, backlog>>

Stop ==
  /\ call = Idle
  /\ DiscardPump
  /\ Apply("StopRequested")
  /\ UNCHANGED <<system, bridge, call, delivered, lost, attempts>>

-----------------------------------------------------------------------------
(***************************************************************************)
(* CaptureRuntime::poll and CapturePump::wait_and_drain                    *)
(***************************************************************************)
\* The wait takes the signal away; a timeout returns without looking at the buffer.
Poll ==
  /\ call = Idle /\ InStream
  /\ IF event THEN call' = Call("next") /\ event' = FALSE
              ELSE UNCHANGED <<call, event>>
  /\ UNCHANGED <<system, bridge, controller, pump, nextSequence, packets, timers, ghosts>>

Draining == call.at \in {"next", "read"}

\* Every call on the audio client of an endpoint that is gone fails.
Alive == pump.endpoint \in active

\* Mutant: a drain that spends its budget reports an empty queue.
FinishPollDrained(left) ==
  /\ nextSequence' = pump.sequence
  /\ delivered' = delivered + call.frames
  /\ backlog' = FALSE
  /\ Return
  /\ UNCHANGED <<system, bridge, controller, pump, session, timers, lost, attempts>>

FinishPoll(left) ==
  /\ nextSequence' = pump.sequence
  /\ delivered' = delivered + call.frames
  /\ backlog' = left
  /\ Return
  /\ UNCHANGED <<system, bridge, controller, pump, session, timers, lost, attempts>>

\* next_packet_frames: more to read, nothing left, or the budget is spent.
NextPacket ==
  /\ call.at = "next" /\ Alive
  /\ \/ /\ packets > 0 /\ call.consumed < Budget
        /\ call' = [call EXCEPT !.at = "read"]
        /\ UNCHANGED <<system, bridge, controller, pump, nextSequence, session, timers, ghosts>>
     \/ packets = 0 /\ FinishPoll(FALSE)
     \/ packets > 0 /\ call.consumed = Budget /\ FinishPoll(TRUE)

CompletesFrame == pump.pending + 1 = PacketsPerFrame

\* read_packet, PacketReframer::push and CaptureFrameAssembler::assemble
ReadPacket ==
  /\ call.at = "read" /\ Alive
  /\ ~(CompletesFrame /\ pump.sequence = SequenceLimit)
  /\ packets' = packets - 1
  /\ IF CompletesFrame
     THEN /\ pump' = [pump EXCEPT !.pending = 0, !.sequence = @ + 1]
          /\ call' = [call EXCEPT !.at = "next", !.consumed = @ + 1, !.frames = @ + 1]
     ELSE /\ pump' = [pump EXCEPT !.pending = @ + 1]
          /\ call' = [call EXCEPT !.at = "next", !.consumed = @ + 1]
  /\ UNCHANGED <<system, bridge, controller, nextSequence, event, timers, ghosts>>

\* read_packet finds the buffer empty: the budget is charged all the same.
ReadNothing ==
  /\ call.at = "read" /\ Alive
  /\ call' = [call EXCEPT !.at = "next", !.consumed = @ + 1]
  /\ UNCHANGED <<system, bridge, controller, pump, nextSequence, session, timers, ghosts>>

\* A poll that fails loses the frames it had assembled, not their numbers.  A sequence
\* overflow and every error that is not an invalidation or a stopped service are final.
FailPoll ==
  /\ \/ call = Idle /\ InStream /\ Apply("StreamBroken")
     \/ Draining /\ Apply("StreamFailed")
     \/ Draining /\ Alive /\ Apply("StreamBroken")
  /\ DiscardPump
  /\ lost' = lost + call.frames
  /\ Return
  /\ UNCHANGED <<system, bridge, delivered, attempts>>

-----------------------------------------------------------------------------
(***************************************************************************)
(* Endpoint notifications                                                  *)
(***************************************************************************)
Gone(e) == [kind |-> "gone", endpoint |-> e]         \* DeviceStateChanged, DeviceRemoved
Appeared(e) == [kind |-> "other", endpoint |-> e]    \* DeviceStateChanged to Active
Default(e) == [kind |-> "default", endpoint |-> e]   \* DefaultDeviceChanged

Change(endpoints, to, notifications) ==
  /\ changes < MaxChanges /\ changes' = changes + 1
  /\ active' = endpoints /\ default' = to
  /\ callbacks' = callbacks \o notifications
                    \o (IF to = default THEN <<>> ELSE <<Default(to)>>)
  /\ UNCHANGED <<bridge, controller, pump, nextSequence, session, call, timers, ghosts>>

Unplug ==
  \E e \in active : \E to \in IF e # default THEN {default}
                              ELSE IF active = {e} THEN {None} ELSE active \ {e} :
    Change(active \ {e}, to, <<Gone(e)>>)

Plug ==
  \E e \in Endpoints \ active : \E to \in IF default = None THEN {e} ELSE {default, e} :
    Change(active \union {e}, to, <<Appeared(e)>>)

SetDefault == \E e \in active \ {default} : Change(active, e, <<>>)

\* Mutant: a notification that does not fit is dropped without being counted.
PublishUncounted ==
  /\ callbacks # <<>>
  /\ callbacks' = Tail(callbacks)
  /\ queue' = IF Len(queue) < QueueCapacity THEN Append(queue, Head(callbacks)) ELSE queue
  /\ UNCHANGED <<active, default, changes, dropped, held, controller, pump, nextSequence, session,
                 call, timers, ghosts>>

Publish ==
  /\ callbacks # <<>>
  /\ callbacks' = Tail(callbacks)
  /\ IF Len(queue) < QueueCapacity
     THEN queue' = Append(queue, Head(callbacks)) /\ UNCHANGED dropped
     ELSE dropped' = dropped + 1 /\ UNCHANGED queue
  /\ UNCHANGED <<active, default, changes, held, controller, pump, nextSequence, session, call,
                 timers, ghosts>>

\* EndpointNotificationSubscription::drain takes at most max_events.
Drain ==
  /\ call = Idle /\ held = <<>> /\ queue # <<>>
  /\ \E n \in 1 .. Len(queue) :
       held' = SubSeq(queue, 1, n) /\ queue' = SubSeq(queue, n + 1, Len(queue))
  /\ UNCHANGED <<system, dropped, controller, pump, nextSequence, session, call, timers, ghosts>>

RequiresReopen(notification, endpoint) ==
  \/ notification.kind = "gone" /\ notification.endpoint = endpoint
  \/ notification.kind = "default" /\ notification.endpoint # endpoint

\* Mutant: the stream is declared invalid and its session kept.
ApplyNotificationsKeepPump ==
  /\ call = Idle /\ held # <<>>
  /\ held' = <<>>
  /\ IF InStream /\ \E n \in ToSet(held) : RequiresReopen(n, pump.endpoint)
     THEN Apply("DeviceInvalidated")
     ELSE UNCHANGED <<controller, timers>>
  /\ UNCHANGED <<system, queue, dropped, call, delivered, lost, attempts, pump, nextSequence,
                 session, backlog>>

\* apply_capture_notifications, notify_device_invalidated
ApplyNotifications ==
  /\ call = Idle /\ held # <<>>
  /\ held' = <<>>
  /\ IF InStream /\ \E n \in ToSet(held) : RequiresReopen(n, pump.endpoint)
     THEN DiscardPump /\ Apply("DeviceInvalidated")
     ELSE UNCHANGED <<controller, pump, nextSequence, session, timers, backlog>>
  /\ UNCHANGED <<system, queue, dropped, call, delivered, lost, attempts>>

\* The audio engine fills the buffer and signals the event.
CapturePacket ==
  /\ pump # NoPump /\ Alive /\ packets < MaxPackets
  /\ packets' = packets + 1 /\ event' = TRUE
  /\ UNCHANGED <<system, bridge, controller, pump, nextSequence, call, timers, ghosts>>

-----------------------------------------------------------------------------
OpenStep == PickEndpoint \/ FailOpen \/ StartPump
Next ==
  \/ Start \/ RetryTimerElapsed \/ Stop
  \/ PickEndpoint \/ FailOpen \/ StartPump
  \/ Poll \/ NextPacket \/ ReadPacket \/ ReadNothing \/ FailPoll
  \/ Unplug \/ Plug \/ SetDefault \/ Publish \/ Drain \/ ApplyNotifications
  \/ CapturePacket

Spec == Init /\ [][Next]_vars

\* The calls of the audio client return, and timers elapse.
Fairness == WF_vars(OpenStep) /\ WF_vars(RetryTimerElapsed)

FairSpec == Spec /\ Fairness
-----------------------------------------------------------------------------
Notifications == [kind : {"gone", "other", "default"}, endpoint : Endpoints \union {None}]
Pumps == [endpoint : Endpoints, sequence : 0 .. SequenceLimit, pending : 0 .. PacketsPerFrame - 1]

\* A pump exists exactly while the stream runs, so that a poll never finds it missing,
\* and a device is being opened or drained only while the controller says so.
PumpMatchesState ==
  /\ pump # NoPump <=> InStream
  /\ call.at \in {"open", "start"} <=> controller.state = "Opening"
  /\ Draining => InStream

Controllers == [state : States \ {"Bypassed"}, failures : 0 .. MaxReopenFailures]
Calls == [at : {"idle", "open", "start", "next", "read"}, endpoint : Endpoints \union {None},
          consumed : 0 .. Budget, frames : 0 .. Budget]

SystemTyped ==
  /\ active \subseteq Endpoints /\ default \in active \union {None}
  /\ callbacks \in Seq(Notifications) /\ changes \in 0 .. MaxChanges
BridgeTyped ==
  /\ queue \in Seq(Notifications) /\ Len(queue) <= QueueCapacity /\ dropped \in Nat
  /\ held \in Seq(Notifications) /\ Len(held) <= QueueCapacity
RuntimeTyped ==
  /\ controller \in Controllers /\ call \in Calls /\ timers \in 0 .. MaxTimers
  /\ pump \in Pumps \union {NoPump} /\ nextSequence \in 0 .. SequenceLimit
  /\ packets \in 0 .. MaxPackets /\ event \in BOOLEAN
  /\ delivered \in Nat /\ lost \in Nat /\ attempts \in 0 .. MaxReopenFailures /\ backlog \in BOOLEAN

TypeOK == SystemTyped /\ BridgeTyped /\ RuntimeTyped /\ PumpMatchesState

\* Frame sequence numbers continue over every reopening, restart and failure: the
\* frames the client received and those that failed polls lost use each number once.
SequencesAreAccounted ==
  IF pump = NoPump THEN nextSequence = delivered + lost
                   ELSE pump.sequence = delivered + lost + call.frames

\* An unattended stream gives up after MaxReopenFailures opens, and not before an
\* open or a stream failed for good.
RetriesAreBounded ==
  /\ attempts <= MaxReopenFailures
  /\ controller.state = "Recovering" =>
       attempts < MaxReopenFailures /\ controller.failures = attempts

\* A stream on an endpoint that is gone or no longer the default is told so by a
\* notification on its way, unless notifications were dropped and counted.
StaleEndpointIsAnnounced ==
  InStream /\ pump.endpoint # default /\ dropped = 0 =>
    \E n \in ToSet(held) \union ToSet(queue) \union ToSet(callbacks) : RequiresReopen(n, pump.endpoint)

\* Packets in the buffer are signalled, or the last drain reported that it left some.
NoLostPacketEvent ==
  packets > 0 /\ ~Draining => event \/ backlog

\* A recovery ends: the stream runs, has failed or was stopped.
RecoveryEnds ==
  controller.state = "Recovering" ~> controller.state \in {"Running", "Failed", "Stopped"}
=============================================================================
