---------------------------- MODULE WaveRtStream ----------------------------
(***************************************************************************)
(* The capture stream of the virtual microphone: the calls PortCls makes   *)
(* on it, one at a time (it serialises the requests of a pin), against the *)
(* timer DPC that copies one frame per tick into the cyclic buffer under   *)
(* the stream's spin lock.  Sizes and positions count blocks of            *)
(* kWaveRtBlockAlign bytes.  Where the frame of a tick comes from is       *)
(* VsnWdmControlConsumeFrame's matter (VirtualMicControl, VirtualMicRing); *)
(* here a block is known by its place in the capture.                      *)
(***************************************************************************)
EXTENDS Integers

CONSTANTS Frame,         \* kWaveRtSchedulerFrameBytes
          BufferSizes,   \* sizes PortCls may request
          MaxPosition,   \* UINT64_MAX in the code
          None

ASSUME FrameAssumption == Frame \in Nat \ {0}
ASSUME BufferSizesAssumption == BufferSizes \subseteq {n \in Nat : n >= Frame}
ASSUME MaxPositionAssumption == MaxPosition \in Nat
ASSUME NoneAssumption ==
  \A size \in BufferSizes : None \notin [0 .. size - 1 -> Nat \cup {None}]

VARIABLES
  \* The stream object
  alive,     \* between its creation and the end of its destructor
  timer,     \* scheduler_timer_: "none", "idle", "armed"
  frame,     \* scheduler_frame_ is allocated
  started,   \* scheduler_started_
  buffer,    \* contents of buffer_ as the pointers reach it, or None
  perBuffer, \* notifications_per_buffer_
  event,     \* an event is registered
  runtime,   \* WaveRtStreamRuntime
  \* Kernel memory and objects
  pages,     \* the pages of the buffer are mapped
  signalled, \* state of the registered event
  \* Threads
  call,      \* the call in progress: op, step, next_state, current_state, count
  lock,      \* holder of lock_ across steps: "free" or "tick"
  tick       \* the DPC: "idle", "queued", or a step of OnSchedulerTick

objectVars == <<alive, timer, frame, started, buffer, perBuffer, event, runtime>>
vars == <<objectVars, pages, signalled, call, lock, tick>>

States == <<"stop", "acquire", "pause", "run">>   \* in the order of KSSTATE
Rank(state) == CHOOSE i \in DOMAIN States : States[i] = state
StateNames == {States[i] : i \in DOMAIN States}

NoCall == [op |-> "none", step |-> "idle", to |-> "stop", from |-> "stop", count |-> 0]

\* InitializeWaveRtStreamRuntime
Runtime(size, notification) ==
  [state |-> "stop", size |-> size, notification |-> notification, cyclic |-> 0, linear |-> 0,
   accumulator |-> 0, due |-> 0]

NoRuntime == Runtime(0, 0)   \* zeroed

IsAllowedTransition(from, to) == Rank(from) - Rank(to) \in {-1, 0, 1}

\* SetWaveRtStreamState
InState(r, state) ==
  IF state = "stop" THEN Runtime(r.size, r.notification) ELSE [r EXCEPT !.state = state]

Blank(size) == [b \in 0 .. size - 1 |-> None]
Size == runtime.size   \* buffer_size_ while there is a buffer

Init ==
  /\ alive = TRUE /\ timer = "idle" /\ frame = TRUE /\ started = FALSE
  /\ buffer = None /\ perBuffer = 0 /\ event = FALSE /\ runtime = NoRuntime
  /\ pages = FALSE /\ signalled = FALSE
  /\ call = NoCall /\ lock = "free" /\ tick = "idle"

-----------------------------------------------------------------------------
(***************************************************************************)
(* Calls of PortCls.  A critical section of lock_ is one step, taken when  *)
(* the DPC does not hold the lock.                                         *)
(***************************************************************************)
Idle == alive /\ call.step = "idle"
Locked(step) == call.step = step /\ lock = "free"
Step(step) == call' = [call EXCEPT !.step = step]
Done == call' = NoCall

\* VsnCreateVirtualMicWaveRtStream, for the next stream of the pin.
CreateStream ==
  /\ ~alive
  /\ alive' = TRUE /\ timer' = "idle" /\ frame' = TRUE /\ started' = FALSE
  /\ buffer' = None /\ perBuffer' = 0 /\ event' = FALSE /\ runtime' = NoRuntime
  /\ UNCHANGED <<pages, signalled, call, lock, tick>>

\* Both ways to allocate; with notifications, the geometry is set in a second
\* critical section.  Failed allocations leave everything as it was.
AllocateAudioBuffer(size, count) ==
  /\ Idle /\ lock = "free"
  /\ buffer = None
  /\ count # 0 => size % count = 0
  /\ pages' = TRUE
  /\ buffer' = Blank(size)
  /\ runtime' = Runtime(size, size) /\ perBuffer' = 0
  /\ call' = IF count = 0 THEN NoCall
             ELSE [NoCall EXCEPT !.op = "allocate", !.step = "notifications", !.count = count]
  /\ UNCHANGED <<alive, timer, frame, started, event, signalled, lock, tick>>

SetNotifications ==
  /\ Locked("notifications")
  /\ runtime' = Runtime(Size, Size \div call.count) /\ perBuffer' = call.count
  /\ Done
  /\ UNCHANGED <<alive, timer, frame, started, buffer, event, pages, signalled, lock, tick>>

RegisterNotificationEvent ==
  /\ Idle /\ lock = "free" /\ perBuffer # 0 /\ ~event
  /\ event' = TRUE /\ signalled' = FALSE
  /\ UNCHANGED <<alive, timer, frame, started, buffer, perBuffer, runtime, pages, call, lock, tick>>

UnregisterNotificationEvent ==
  /\ Idle /\ lock = "free" /\ event
  /\ event' = FALSE /\ signalled' = FALSE
  /\ UNCHANGED <<alive, timer, frame, started, buffer, perBuffer, runtime, pages, call, lock, tick>>

\* The client waits on the event, which resets it.
WaitForEvent ==
  /\ signalled
  /\ signalled' = FALSE
  /\ UNCHANGED <<objectVars, pages, call, lock, tick>>

\* SetState up to the end of its first critical section.
BeginSetState(state) ==
  /\ Idle /\ lock = "free"
  /\ state # "stop" => buffer # None
  /\ IsAllowedTransition(runtime.state, state)
  /\ call' = [NoCall EXCEPT !.op = "state", !.to = state, !.from = runtime.state,
                !.step = IF runtime.state = "run" /\ state # "run" THEN "cancel" ELSE "apply"]
  /\ UNCHANGED <<objectVars, pages, signalled, lock, tick>>

(***************************************************************************)
(* CancelSchedulerAndFlush, and where its callers go on.                   *)
(***************************************************************************)
AfterFlush == IF call.op = "state" THEN "apply" ELSE "detach"

CancelScheduler ==
  /\ Locked("cancel")
  /\ started' = FALSE
  /\ Step(IF started THEN "stopTimer" ELSE AfterFlush)
  /\ UNCHANGED <<alive, timer, frame, buffer, perBuffer, event, runtime, pages, signalled, lock, tick>>

\* ExCancelTimer, or the cancellation that ExDeleteTimer begins with.
CancelTimer ==
  /\ call.step = "stopTimer"
  /\ timer' = "idle"
  /\ Step(IF call.op = "destroy" THEN "deleteTimer" ELSE "flush")
  /\ UNCHANGED <<alive, frame, started, buffer, perBuffer, event, runtime, pages, signalled, lock, tick>>

\* KeFlushQueuedDpcs returns when the DPCs queued before it have run.
FlushQueuedDpcs ==
  /\ call.step = "flush" /\ tick = "idle"
  /\ Step(AfterFlush)
  /\ UNCHANGED <<objectVars, pages, signalled, lock, tick>>

\* Mutant: the state is set, but the scheduler is not marked as started.
ApplyStateOnly ==
  /\ Locked("apply")
  /\ runtime' = InState(runtime, call.to)
  /\ IF call.from # "run" /\ call.to = "run" THEN Step("arm") ELSE Done
  /\ UNCHANGED <<alive, timer, frame, started, buffer, perBuffer, event, pages, signalled, lock, tick>>

\* The second critical section of SetState.
ApplyState ==
  /\ Locked("apply")
  /\ runtime' = InState(runtime, call.to)
  /\ IF call.from # "run" /\ call.to = "run"
     THEN started' = TRUE /\ Step("arm")
     ELSE Done /\ UNCHANGED started
  /\ UNCHANGED <<alive, timer, frame, buffer, perBuffer, event, pages, signalled, lock, tick>>

\* Mutant: the timer is not set again after a pause.
ArmTimerFirst ==
  /\ call.step = "arm"
  /\ timer' = IF runtime.linear = 0 THEN "armed" ELSE timer
  /\ Done
  /\ UNCHANGED <<alive, frame, started, buffer, perBuffer, event, runtime, pages, signalled, lock, tick>>

ArmTimer ==
  /\ call.step = "arm"
  /\ timer' = "armed"
  /\ Done
  /\ UNCHANGED <<alive, frame, started, buffer, perBuffer, event, runtime, pages, signalled, lock, tick>>

\* FreeAudioBuffer, with the MDL that was allocated.
BeginFreeAudioBuffer ==
  /\ Idle /\ buffer # None
  /\ call' = [NoCall EXCEPT !.op = "free", !.step = "cancel"]
  /\ UNCHANGED <<objectVars, pages, signalled, lock, tick>>

DetachBuffer ==
  /\ Locked("detach")
  /\ buffer' = None /\ perBuffer' = 0 /\ event' = FALSE /\ signalled' = FALSE
  /\ runtime' = NoRuntime
  /\ Step("unmap")
  /\ UNCHANGED <<alive, timer, frame, started, pages, lock, tick>>

UnmapBuffer ==
  /\ call.step = "unmap"
  /\ pages' = FALSE
  /\ Done
  /\ UNCHANGED <<objectVars, signalled, lock, tick>>

\* The destructor: ShutdownScheduler, then the buffer and the object.
BeginDestroy ==
  /\ Idle /\ lock = "free"
  /\ started' = FALSE
  /\ call' = [NoCall EXCEPT !.op = "destroy", !.step = "stopTimer"]
  /\ UNCHANGED <<alive, timer, frame, buffer, perBuffer, event, runtime, pages, signalled, lock, tick>>

\* Mutant: the timer is deleted without waiting for its callback.
DeleteTimerNoWait ==
  /\ call.step = "deleteTimer"
  /\ timer' = "none" /\ frame' = FALSE
  /\ Step("destroy")
  /\ UNCHANGED <<alive, started, buffer, perBuffer, event, runtime, pages, signalled, lock, tick>>

\* ExDeleteTimer waits for a callback in progress and deletes.
DeleteTimer ==
  /\ call.step = "deleteTimer" /\ tick = "idle"
  /\ timer' = "none" /\ frame' = FALSE
  /\ Step("destroy")
  /\ UNCHANGED <<alive, started, buffer, perBuffer, event, runtime, pages, signalled, lock, tick>>

DestroyStream ==
  /\ call.step = "destroy"
  /\ alive' = FALSE /\ buffer' = None /\ pages' = FALSE /\ event' = FALSE /\ signalled' = FALSE
  /\ Done
  /\ UNCHANGED <<timer, frame, started, perBuffer, runtime, lock, tick>>

-----------------------------------------------------------------------------
(***************************************************************************)
(* The timer and OnSchedulerTick.                                          *)
(***************************************************************************)
TimerFires ==
  /\ timer = "armed" /\ tick = "idle"
  /\ tick' = "queued"
  /\ UNCHANGED <<objectVars, pages, signalled, call, lock>>

CanCapture == started /\ runtime.state = "run" /\ buffer # None /\ Size >= Frame /\ frame

\* Mutant: a tick that has nothing to do returns without releasing the lock.
BeginTickKeepsLock ==
  /\ tick = "queued" /\ lock = "free"
  /\ lock' = "tick"
  /\ tick' = IF CanCapture THEN "first" ELSE "idle"
  /\ UNCHANGED <<objectVars, pages, signalled, call>>

BeginTick ==
  /\ tick = "queued" /\ lock = "free"
  /\ IF CanCapture THEN lock' = "tick" /\ tick' = "first" ELSE tick' = "idle" /\ UNCHANGED lock
  /\ UNCHANGED <<objectVars, pages, signalled, call>>

\* PlanWaveRtCyclicWrite: up to the end of the buffer, the rest at its beginning.
FirstBlocks == IF Frame < Size - runtime.cyclic THEN Frame ELSE Size - runtime.cyclic

\* The block of the frame that is written at b: its place in the capture.
CapturedAt(b) == runtime.linear + ((b - runtime.cyclic + Size) % Size)

\* Mutant: what does not fit before the end of the buffer is dropped.
WriteFirstOnly ==
  /\ tick = "first"
  /\ buffer' = [b \in DOMAIN buffer |->
                  IF b \in runtime.cyclic .. runtime.cyclic + FirstBlocks - 1
                  THEN CapturedAt(b) ELSE buffer[b]]
  /\ tick' = "advance"
  /\ UNCHANGED <<alive, timer, frame, started, perBuffer, event, runtime, pages, signalled, call, lock>>

WriteFirst ==
  /\ tick = "first"
  /\ buffer' = [b \in DOMAIN buffer |->
                  IF b \in runtime.cyclic .. runtime.cyclic + FirstBlocks - 1
                  THEN CapturedAt(b) ELSE buffer[b]]
  /\ tick' = IF FirstBlocks < Frame THEN "second" ELSE "advance"
  /\ UNCHANGED <<alive, timer, frame, started, perBuffer, event, runtime, pages, signalled, call, lock>>

WriteSecond ==
  /\ tick = "second"
  /\ buffer' = [b \in DOMAIN buffer |->
                  IF b < Frame - FirstBlocks THEN CapturedAt(b) ELSE buffer[b]]
  /\ tick' = "advance"
  /\ UNCHANGED <<alive, timer, frame, started, perBuffer, event, runtime, pages, signalled, call, lock>>

(***************************************************************************)
(* AdvanceWaveRtCapturePosition: all of it or, at the end of the counters, *)
(* nothing.                                                                *)
(***************************************************************************)
DueNow(r) == (r.accumulator + Frame) \div r.notification
CanAdvance(r) ==
  /\ MaxPosition - r.linear >= Frame
  /\ MaxPosition - r.accumulator >= Frame
  /\ MaxPosition - r.due >= DueNow(r)

Moved(r) == [r EXCEPT !.cyclic = (r.cyclic + Frame) % r.size,
                      !.accumulator = (r.accumulator + Frame) % r.notification]

\* Mutant: the position moves before the counters are checked.
AdvancedPartially(r) ==
  IF CanAdvance(r)
  THEN [Moved(r) EXCEPT !.linear = r.linear + Frame, !.due = r.due + DueNow(r)]
  ELSE Moved(r)

Advanced(r) ==
  IF CanAdvance(r)
  THEN [Moved(r) EXCEPT !.linear = r.linear + Frame, !.due = r.due + DueNow(r)]
  ELSE r

AdvanceTick ==
  /\ tick = "advance"
  /\ runtime' = Advanced(runtime)
  /\ signalled' = (signalled \/ (event /\ CanAdvance(runtime) /\ DueNow(runtime) # 0))
  /\ tick' = "idle" /\ lock' = "free"
  /\ UNCHANGED <<alive, timer, frame, started, buffer, perBuffer, event, pages, call>>

-----------------------------------------------------------------------------
\* The calls PortCls chooses to make.
NewCall ==
  \/ \E size \in BufferSizes : \E count \in 0 .. size : AllocateAudioBuffer(size, count)
  \/ RegisterNotificationEvent
  \/ UnregisterNotificationEvent
  \/ \E state \in StateNames : BeginSetState(state)
  \/ BeginFreeAudioBuffer
  \/ BeginDestroy

\* The rest of the call in progress.
CallNext ==
  \/ SetNotifications
  \/ CancelScheduler
  \/ CancelTimer
  \/ FlushQueuedDpcs
  \/ ApplyState
  \/ ArmTimer
  \/ DetachBuffer
  \/ UnmapBuffer
  \/ DeleteTimer
  \/ DestroyStream

TickNext ==
  \/ BeginTick
  \/ WriteFirst
  \/ WriteSecond
  \/ AdvanceTick

Next ==
  \/ CreateStream
  \/ NewCall
  \/ CallNext
  \/ WaitForEvent
  \/ TimerFires
  \/ TickNext

(***************************************************************************)
(* A call in progress goes on, also when the DPC takes the lock again and  *)
(* again (spin lock waiters get their turn); the armed timer fires and its *)
(* DPC runs.  Nothing obliges PortCls to make a call.                      *)
(***************************************************************************)
Spec == Init /\ [][Next]_vars
FairSpec == Spec /\ SF_vars(CallNext) /\ WF_vars(TimerFires) /\ WF_vars(TickNext)

-----------------------------------------------------------------------------
Positions == 0 .. MaxPosition

TypeOK ==
  /\ alive \in BOOLEAN /\ frame \in BOOLEAN /\ started \in BOOLEAN /\ event \in BOOLEAN
  /\ pages \in BOOLEAN /\ signalled \in BOOLEAN
  /\ timer \in {"none", "idle", "armed"}
  /\ runtime \in [state : StateNames, size : BufferSizes \cup {0}, notification : Nat,
                  cyclic : Nat, linear : Positions, accumulator : Nat, due : Positions]
  /\ buffer # None => buffer \in [0 .. Size - 1 -> Nat \cup {None}]
  /\ perBuffer \in Nat
  /\ lock \in {"free", "tick"}
  /\ tick \in {"idle", "queued", "first", "second", "advance"}
  /\ lock = "tick" <=> tick \in {"first", "second", "advance"}

\* A tick finds what it touches alive: the stream while it is queued, and the
\* mapped pages and the scratch frame while it captures, whatever call stops the
\* stream, frees the buffer or releases the stream.
NoUseAfterFree ==
  /\ tick # "idle" => alive
  /\ lock = "tick" => pages /\ frame /\ buffer # None

\* A client that stays a frame behind the position reads an unbroken capture:
\* wraps, pauses and ticks in progress included.
MinOf(a, b) == IF a < b THEN a ELSE b
CaptureIsContiguous ==
  buffer # None =>
    \A j \in 1 .. MinOf(runtime.linear, Size - Frame) :
      buffer[(runtime.cyclic - j + Size) % Size] = runtime.linear - j

\* The cyclic position, the linear one and the notification counters tell the same
\* story, also at the limit of the counters, where an advance is refused whole.
PositionsAgree ==
  buffer # None =>
    /\ runtime.cyclic = runtime.linear % Size
    /\ runtime.accumulator = runtime.linear % runtime.notification
    /\ runtime.due = runtime.linear \div runtime.notification

\* Between calls the scheduler is on, timer included, exactly when the stream runs.
ScheduledIffRunning ==
  Idle => /\ started <=> runtime.state = "run"
          /\ timer = "armed" <=> runtime.state = "run"

\* Every call returns: a flush or a deletion of the timer never waits forever for
\* the DPC, nor a critical section for its lock.
CallsReturn == call.step # "idle" ~> call.step = "idle"

\* While the stream runs, a registered event is signalled, unless the counters have
\* reached their limit.
NotificationsArrive ==
  (runtime.state = "run" /\ event) ~>
    (signalled \/ ~event \/ runtime.state # "run" \/ ~CanAdvance(runtime) \/ ~alive)
=============================================================================
