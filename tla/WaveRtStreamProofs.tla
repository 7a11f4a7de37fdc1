------------------------- MODULE WaveRtStreamProofs -------------------------
(***************************************************************************)
(* The safety of WaveRtStream, for every frame size, set of buffer sizes   *)
(* and limit of the counters.                                              *)
(***************************************************************************)
EXTENDS WaveRtStream, TLAPS

\* The call in progress and its arguments.
CallType ==
  [op : {"none", "allocate", "state", "free", "destroy"},
   step : {"idle", "notifications", "cancel", "stopTimer", "flush", "apply", "arm", "detach",
           "unmap", "deleteTimer", "destroy"},
   to : StateNames, from : StateNames, count : Nat]
CallOK ==
  /\ call \in CallType
  /\ \/ call.op = "none" /\ call.step = "idle"
     \/ call.op = "allocate" /\ call.step = "notifications"
     \/ call.op = "state" /\ call.step \in {"cancel", "stopTimer", "flush", "apply", "arm"}
     \/ call.op = "free" /\ call.step \in {"cancel", "stopTimer", "flush", "detach", "unmap"}
     \/ call.op = "destroy" /\ call.step \in {"stopTimer", "deleteTimer", "destroy"}
  /\ call.op = "state" /\ call.step # "arm" => call.from = runtime.state
  /\ call.op = "state" /\ call.step \in {"cancel", "stopTimer", "flush"} => call.to # "run"
  /\ call.op = "state" => buffer # None \/ call.to = "stop"
  /\ call.op = "allocate" => call.count \in 1 .. Size /\ buffer # None
  /\ call.op = "free" => (buffer # None <=> call.step # "unmap")

\* Which of timer, flag and state agree at each step of a call.
Running == started /\ timer = "armed" /\ runtime.state = "run"
NotRunning == ~started /\ timer = "idle" /\ runtime.state # "run"
Scheduler ==
  /\ call.step = "idle" \/ call.step = "cancel" => Running \/ NotRunning \/ ~alive
  /\ call.step = "notifications" => NotRunning
  /\ call.step \in {"stopTimer", "flush", "detach", "unmap", "deleteTimer", "destroy"} => ~started
  /\ call.step \in {"flush", "detach", "unmap", "deleteTimer"} => timer = "idle"
  /\ call.step = "apply" =>
       \/ NotRunning
       \/ Running /\ call.to = "run"
       \/ ~started /\ timer = "idle" /\ call.to # "run"
  /\ call.step = "arm" => started /\ timer = "idle" /\ runtime.state = "run"

\* The stream exists, with its timer and scratch frame, up to the last steps of its
\* destructor; after it nothing is left.
Lifetime ==
  /\ alive => (frame <=> timer # "none") /\ (timer = "none" <=> call.step = "destroy")
  /\ timer = "none" => tick = "idle"
  /\ ~alive => /\ call = NoCall /\ timer = "none" /\ ~started /\ ~frame
               /\ buffer = None /\ ~pages

\* The buffer is reachable only while its pages are mapped, and a tick that captures
\* finds the stream running.
Mapped ==
  /\ buffer # None => pages /\ alive
  /\ alive /\ buffer = None => runtime = NoRuntime
  /\ lock = "tick" => alive /\ started /\ frame /\ buffer # None /\ runtime.state = "run"

\* A buffer has a geometry, and the positions lie in it.
Geometry ==
  buffer # None =>
    /\ runtime.size \in BufferSizes
    /\ runtime.notification \in 1 .. runtime.size
    /\ runtime.cyclic \in 0 .. runtime.size - 1
    /\ runtime.accumulator \in 0 .. runtime.notification - 1

\* TypeOK in two parts: the flags, and the rest.
Flags ==
  /\ alive \in BOOLEAN /\ frame \in BOOLEAN /\ started \in BOOLEAN /\ event \in BOOLEAN
  /\ pages \in BOOLEAN /\ signalled \in BOOLEAN
RuntimeType ==
  [state : StateNames, size : BufferSizes \cup {0}, notification : Nat,
   cyclic : Nat, linear : Positions, accumulator : Nat, due : Positions]
Values ==
  /\ timer \in {"none", "idle", "armed"}
  /\ runtime \in RuntimeType
  /\ buffer # None => buffer \in [0 .. Size - 1 -> Nat \cup {None}]
  /\ perBuffer \in Nat
  /\ lock \in {"free", "tick"}
  /\ tick \in {"idle", "queued", "first", "second", "advance"}
  /\ lock = "tick" <=> tick \in {"first", "second", "advance"}

\* What the tick in progress has written.
Index(b) == IF b < Size THEN b ELSE b - Size
Written ==
  /\ tick = "second" =>
       /\ FirstBlocks < Frame
       /\ \A i \in 0 .. FirstBlocks - 1 : buffer[runtime.cyclic + i] = runtime.linear + i
  /\ tick = "advance" =>
       \A i \in 0 .. Frame - 1 : buffer[Index(runtime.cyclic + i)] = runtime.linear + i
Contiguous ==
  buffer # None =>
    \A j \in 1 .. Size - Frame :
      j <= runtime.linear => buffer[Index(runtime.cyclic - j + Size)] = runtime.linear - j

Inv == Flags /\ Values /\ CallOK /\ Scheduler /\ Lifetime /\ Mapped /\ Geometry

-----------------------------------------------------------------------------
(***************************************************************************)
(* Inv is inductive.                                                       *)
(***************************************************************************)
LEMMA States4 == StateNames = {"stop", "acquire", "pause", "run"}
  BY DEF StateNames, States

LEMMA TypeParts == TypeOK <=> Flags /\ Values
  BY DEF TypeOK, Flags, Values, RuntimeType

LEMMA RuntimeTyped ==
  ASSUME NEW size \in BufferSizes \cup {0}, NEW notification \in Nat
  PROVE  Runtime(size, notification) \in RuntimeType
  <1>1. 0 \in Positions /\ "stop" \in StateNames
    BY States4, MaxPositionAssumption DEF Positions
  <1> QED
    BY <1>1 DEF Runtime, RuntimeType

LEMMA NoRuntimeType == NoRuntime \in RuntimeType
  BY RuntimeTyped DEF NoRuntime

LEMMA InStateType ==
  ASSUME NEW r \in RuntimeType, NEW state \in StateNames
  PROVE  /\ InState(r, state) \in RuntimeType
         /\ InState(r, state).state = state /\ InState(r, state).size = r.size
         /\ InState(r, state).notification = r.notification
         /\ InState(r, state).cyclic \in {0, r.cyclic}
         /\ InState(r, state).accumulator \in {0, r.accumulator}
  <1>0. r.size \in BufferSizes \cup {0} /\ r.notification \in Nat
    BY DEF RuntimeType
  <1>1. CASE state = "stop"
    BY <1>0, <1>1, RuntimeTyped DEF InState, Runtime
  <1>2. CASE state # "stop"
    BY <1>2 DEF InState, RuntimeType
  <1> QED
    BY <1>1, <1>2

LEMMA DivBounds ==
  ASSUME NEW m \in Nat, NEW n \in 1 .. m PROVE m \div n \in 1 .. m
  OBVIOUS

LEMMA ModBounds ==
  ASSUME NEW m \in Nat \ {0}, NEW x \in Nat PROVE x % m \in 0 .. m - 1 /\ x \div m \in Nat
  OBVIOUS

LEMMA AdvancedType ==
  ASSUME NEW r \in RuntimeType, r.size \in Nat \ {0}, r.notification \in Nat \ {0},
         r.cyclic \in 0 .. r.size - 1, r.accumulator \in 0 .. r.notification - 1
  PROVE  /\ Advanced(r) \in RuntimeType
         /\ Advanced(r).state = r.state /\ Advanced(r).size = r.size
         /\ Advanced(r).notification = r.notification
         /\ Advanced(r).cyclic \in 0 .. r.size - 1
         /\ Advanced(r).accumulator \in 0 .. r.notification - 1
  <1>0. /\ r.accumulator + Frame \in Nat /\ r.cyclic + Frame \in Nat
        /\ r.linear \in 0 .. MaxPosition /\ r.due \in 0 .. MaxPosition
    BY FrameAssumption DEF RuntimeType, Positions
  <1>1. DueNow(r) \in Nat
    BY <1>0, ModBounds DEF DueNow
  <1>2. (r.cyclic + Frame) % r.size \in 0 .. r.size - 1
    BY <1>0, ModBounds
  <1>3. (r.accumulator + Frame) % r.notification \in 0 .. r.notification - 1
    BY <1>0, ModBounds
  <1>4. CanAdvance(r) => r.linear + Frame \in Positions /\ r.due + DueNow(r) \in Positions
    BY <1>0, <1>1, FrameAssumption, MaxPositionAssumption DEF CanAdvance, Positions
  <1>5. (r.cyclic + Frame) % r.size \in Nat /\ (r.accumulator + Frame) % r.notification \in Nat
    BY <1>2, <1>3
  <1>6. CASE CanAdvance(r)
    <2>1. PICK c : c = (r.cyclic + Frame) % r.size
      OBVIOUS
    <2>2. PICK a : a = (r.accumulator + Frame) % r.notification
      OBVIOUS
    <2>3. PICK d : d = r.due + DueNow(r)
      OBVIOUS
    <2>4. Advanced(r) = [[r EXCEPT !.cyclic = c, !.accumulator = a]
                           EXCEPT !.linear = r.linear + Frame, !.due = d]
      BY <1>6, <2>1, <2>2, <2>3 DEF Advanced, Moved
    <2>5. c \in 0 .. r.size - 1 /\ a \in 0 .. r.notification - 1 /\ c \in Nat /\ a \in Nat
          /\ r.linear + Frame \in Positions /\ d \in Positions
      BY <1>2, <1>3, <1>4, <1>5, <1>6, <2>1, <2>2, <2>3
    <2> QED
      BY <2>4, <2>5 DEF RuntimeType
  <1>7. CASE ~CanAdvance(r)
    BY <1>7 DEF Advanced
  <1> QED
    BY <1>6, <1>7

LEMMA NoCallType == NoCall \in CallType
  BY States4 DEF NoCall, CallType

LEMMA BufferFacts ==
  ASSUME Inv, buffer # None
  PROVE  /\ Size \in BufferSizes /\ Size \in Nat \ {0} /\ Size >= Frame
         /\ runtime \in RuntimeType /\ runtime.linear \in Nat /\ runtime.due \in Nat
         /\ runtime.cyclic \in 0 .. Size - 1
         /\ runtime.notification \in 1 .. Size
         /\ runtime.accumulator \in 0 .. runtime.notification - 1
         /\ buffer \in [0 .. Size - 1 -> Nat \cup {None}]
  <1>1. runtime \in RuntimeType /\ buffer \in [0 .. Size - 1 -> Nat \cup {None}]
    BY DEF Inv, Values
  <1>2. runtime.linear \in Nat /\ runtime.due \in Nat
    BY <1>1, MaxPositionAssumption DEF RuntimeType, Positions
  <1>3. Size \in BufferSizes /\ Size \in Nat \ {0} /\ Size >= Frame
    <2>1. Size \in BufferSizes
      BY DEF Inv, Geometry, Size
    <2> QED
      BY <2>1, FrameAssumption, BufferSizesAssumption
  <1> QED
    BY <1>1, <1>2, <1>3 DEF Inv, Geometry, Size

LEMMA CapturedAtType ==
  ASSUME Inv, buffer # None, NEW b \in 0 .. Size - 1 PROVE CapturedAt(b) \in Nat
  <1>1. b - runtime.cyclic + Size \in Nat
    BY BufferFacts
  <1>2. (b - runtime.cyclic + Size) % Size \in 0 .. Size - 1
    BY <1>1, BufferFacts, ModBounds
  <1> QED
    BY <1>2, BufferFacts DEF CapturedAt

THEOREM InitInv == Init => Inv
  <1> SUFFICES ASSUME Init PROVE Inv
    OBVIOUS
  <1> USE DEF Init
  <1>1. Flags
    BY DEF Flags
  <1>2. Values
    BY NoRuntimeType DEF Values
  <1>3. CallOK
    BY States4 DEF CallOK, CallType, NoCall
  <1>4. Scheduler
    BY DEF Scheduler, NotRunning, NoRuntime, Runtime, NoCall
  <1>5. Lifetime /\ Mapped /\ Geometry
    BY DEF Lifetime, Mapped, Geometry, NoCall
  <1> QED
    BY <1>1, <1>2, <1>3, <1>4, <1>5 DEF Inv

LEMMA CreateStreamInv ==
  ASSUME Inv, CreateStream PROVE Inv'
  <1> USE DEF Inv, CreateStream, objectVars, Idle, Locked, Step, Done
  <1>a. call = NoCall /\ tick = "idle"
    BY DEF Lifetime, Values
  <1>1. Flags'
    BY DEF Flags
  <1>2. Values'
    BY <1>a, NoRuntimeType DEF Values
  <1>3. CallOK'
    BY <1>a, States4 DEF CallOK, NoCall
  <1>4. Scheduler'
    BY <1>a DEF Scheduler, NotRunning, NoRuntime, Runtime, NoCall
  <1>5. Lifetime'
    BY <1>a DEF Lifetime, NoCall
  <1>6. Mapped'
    BY <1>a DEF Mapped, Values
  <1>7. Geometry'
    BY FrameAssumption, BufferSizesAssumption DEF Geometry
  <1> QED
    BY <1>1, <1>2, <1>3, <1>4, <1>5, <1>6, <1>7

LEMMA RegisterNotificationEventInv ==
  ASSUME Inv, RegisterNotificationEvent PROVE Inv'
  <1> USE DEF Inv, RegisterNotificationEvent, objectVars, Idle, Locked, Step, Done
  <1>1. Flags'
    BY DEF Flags
  <1>2. Values'
    BY FrameAssumption, BufferSizesAssumption DEF Values, Size
  <1>3. CallOK'
    BY States4, NoneAssumption DEF CallOK
  <1>4. Scheduler'
    BY DEF Scheduler, Running, NotRunning
  <1>5. Lifetime'
    BY DEF Lifetime
  <1>6. Mapped'
    BY DEF Mapped
  <1>7. Geometry'
    BY FrameAssumption, BufferSizesAssumption DEF Geometry
  <1> QED
    BY <1>1, <1>2, <1>3, <1>4, <1>5, <1>6, <1>7

LEMMA UnregisterNotificationEventInv ==
  ASSUME Inv, UnregisterNotificationEvent PROVE Inv'
  <1> USE DEF Inv, UnregisterNotificationEvent, objectVars, Idle, Locked, Step, Done
  <1>1. Flags'
    BY DEF Flags
  <1>2. Values'
    BY FrameAssumption, BufferSizesAssumption DEF Values, Size
  <1>3. CallOK'
    BY States4, NoneAssumption DEF CallOK
  <1>4. Scheduler'
    BY DEF Scheduler, Running, NotRunning
  <1>5. Lifetime'
    BY DEF Lifetime
  <1>6. Mapped'
    BY DEF Mapped
  <1>7. Geometry'
    BY FrameAssumption, BufferSizesAssumption DEF Geometry
  <1> QED
    BY <1>1, <1>2, <1>3, <1>4, <1>5, <1>6, <1>7

LEMMA WaitForEventInv ==
  ASSUME Inv, WaitForEvent PROVE Inv'
  <1> USE DEF Inv, WaitForEvent, objectVars, Idle, Locked, Step, Done
  <1>1. Flags'
    BY DEF Flags
  <1>2. Values'
    BY FrameAssumption, BufferSizesAssumption DEF Values, Size
  <1>3. CallOK'
    BY States4, NoneAssumption DEF CallOK, Size
  <1>4. Scheduler'
    BY DEF Scheduler, Running, NotRunning
  <1>5. Lifetime'
    BY DEF Lifetime
  <1>6. Mapped'
    BY DEF Mapped
  <1>7. Geometry'
    BY FrameAssumption, BufferSizesAssumption DEF Geometry
  <1> QED
    BY <1>1, <1>2, <1>3, <1>4, <1>5, <1>6, <1>7

LEMMA BeginFreeAudioBufferInv ==
  ASSUME Inv, BeginFreeAudioBuffer PROVE Inv'
  <1> USE DEF Inv, BeginFreeAudioBuffer, objectVars, Idle, Locked, Step, Done
  <1>1. Flags'
    BY DEF Flags
  <1>2. Values'
    BY FrameAssumption, BufferSizesAssumption DEF Values, Size
  <1>3. CallOK'
    BY States4, NoneAssumption DEF CallOK, CallType, NoCall
  <1>4. Scheduler'
    BY DEF Scheduler, Running, NotRunning
  <1>5. Lifetime'
    BY DEF Lifetime
  <1>6. Mapped'
    BY DEF Mapped
  <1>7. Geometry'
    BY FrameAssumption, BufferSizesAssumption DEF Geometry
  <1> QED
    BY <1>1, <1>2, <1>3, <1>4, <1>5, <1>6, <1>7

LEMMA BeginDestroyInv ==
  ASSUME Inv, BeginDestroy PROVE Inv'
  <1> USE DEF Inv, BeginDestroy, objectVars, Idle, Locked, Step, Done
  <1>1. Flags'
    BY DEF Flags
  <1>2. Values'
    BY FrameAssumption, BufferSizesAssumption DEF Values, Size
  <1>3. CallOK'
    BY States4, NoneAssumption DEF CallOK, CallType, NoCall
  <1>4. Scheduler'
    BY DEF Scheduler
  <1>5. Lifetime'
    BY DEF Lifetime
  <1>6. Mapped'
    BY DEF Mapped
  <1>7. Geometry'
    BY FrameAssumption, BufferSizesAssumption DEF Geometry
  <1> QED
    BY <1>1, <1>2, <1>3, <1>4, <1>5, <1>6, <1>7

LEMMA SetNotificationsInv ==
  ASSUME Inv, SetNotifications PROVE Inv'
  <1> USE DEF Inv, SetNotifications, objectVars, Idle, Locked, Step, Done
  <1>a. Size \in BufferSizes /\ Size \in Nat /\ call.count \in 1 .. Size
    BY BufferSizesAssumption DEF CallOK, Geometry, Size
  <1>b. Size \div call.count \in 1 .. Size
    BY <1>a, DivBounds
  <1>c. /\ runtime' = Runtime(Size, Size \div call.count) /\ runtime' \in RuntimeType
        /\ runtime'.state = "stop" /\ Size' = Size
    BY <1>a, <1>b, RuntimeTyped DEF Runtime, Size
  <1>1. Flags'
    BY DEF Flags
  <1>2. Values'
    BY <1>a, <1>c DEF Values
  <1>3. CallOK'
    BY States4, NoneAssumption DEF CallOK, CallType, NoCall
  <1>4. Scheduler'
    BY <1>c DEF Scheduler, NotRunning, NoCall
  <1>5. Lifetime'
    BY DEF Lifetime, NoCall
  <1>6. Mapped'
    BY <1>c DEF Mapped, CallOK
  <1>7. Geometry'
    BY <1>a, <1>b, <1>c DEF Geometry, Runtime
  <1> QED
    BY <1>1, <1>2, <1>3, <1>4, <1>5, <1>6, <1>7

LEMMA CancelSchedulerInv ==
  ASSUME Inv, CancelScheduler PROVE Inv'
  <1> USE DEF Inv, CancelScheduler, objectVars, Idle, Locked, Step, Done
  <1>1. Flags'
    BY DEF Flags
  <1>2. Values'
    BY FrameAssumption, BufferSizesAssumption DEF Values, Size
  <1>3. CallOK'
    BY States4, NoneAssumption DEF CallOK, CallType, AfterFlush
  <1>4. Scheduler'
    <2>a. CASE started
      <3>1. call'.step = "stopTimer" /\ ~started'
        BY <2>a DEF CallOK, CallType
      <3> QED
        BY <3>1 DEF Scheduler
    <2>b. CASE ~started
      <3>1. call'.step = AfterFlush /\ call'.to = call.to /\ ~started'
        BY <2>b DEF CallOK, CallType
      <3>2. call.op = "state" => call.to # "run"
        BY DEF CallOK
      <3>3. alive
        BY DEF Lifetime, NoCall
      <3>4. timer = "idle" /\ runtime.state # "run"
        BY <2>b, <3>3 DEF Scheduler, NotRunning, Running
      <3> QED
        BY <3>1, <3>2, <3>4 DEF Scheduler, AfterFlush
    <2> QED
      BY <2>a, <2>b
  <1>c. call'.step \in {"stopTimer", "apply", "detach"} /\ alive
    BY DEF AfterFlush, Lifetime, NoCall
  <1>5. Lifetime'
    BY <1>c DEF Lifetime
  <1>6. Mapped'
    BY DEF Mapped
  <1>7. Geometry'
    BY FrameAssumption, BufferSizesAssumption DEF Geometry
  <1> QED
    BY <1>1, <1>2, <1>3, <1>4, <1>5, <1>6, <1>7

LEMMA CancelTimerInv ==
  ASSUME Inv, CancelTimer PROVE Inv'
  <1> USE DEF Inv, CancelTimer, objectVars, Idle, Locked, Step, Done
  <1>1. Flags'
    BY DEF Flags
  <1>2. Values'
    BY FrameAssumption, BufferSizesAssumption DEF Values, Size
  <1>3. CallOK'
    BY States4, NoneAssumption DEF CallOK, CallType
  <1>a. call'.step \in {"deleteTimer", "flush"} /\ call'.op = call.op /\ call'.to = call.to
    BY DEF CallOK, CallType
  <1>b. alive /\ timer # "none" /\ ~started
    BY DEF Lifetime, Scheduler, NoCall
  <1>4. Scheduler'
    BY <1>a, <1>b DEF Scheduler
  <1>5. Lifetime'
    BY <1>a, <1>b DEF Lifetime
  <1>6. Mapped'
    BY DEF Mapped
  <1>7. Geometry'
    BY FrameAssumption, BufferSizesAssumption DEF Geometry
  <1> QED
    BY <1>1, <1>2, <1>3, <1>4, <1>5, <1>6, <1>7

LEMMA FlushQueuedDpcsInv ==
  ASSUME Inv, FlushQueuedDpcs PROVE Inv'
  <1> USE DEF Inv, FlushQueuedDpcs, objectVars, Idle, Locked, Step, Done
  <1>1. Flags'
    BY DEF Flags
  <1>2. Values'
    BY FrameAssumption, BufferSizesAssumption DEF Values, Size
  <1>3. CallOK'
    BY States4, NoneAssumption DEF CallOK, CallType, AfterFlush
  <1>4. Scheduler'
    BY DEF CallOK, Scheduler, AfterFlush
  <1>5. Lifetime'
    BY DEF Lifetime, NoCall, AfterFlush
  <1>6. Mapped'
    BY DEF Mapped
  <1>7. Geometry'
    BY FrameAssumption, BufferSizesAssumption DEF Geometry
  <1> QED
    BY <1>1, <1>2, <1>3, <1>4, <1>5, <1>6, <1>7

LEMMA ApplyStateInv ==
  ASSUME Inv, ApplyState PROVE Inv'
  <1> USE DEF Inv, ApplyState, objectVars, Idle, Locked, Step, Done
  <1>a. /\ runtime' \in RuntimeType /\ runtime'.state = call.to /\ runtime'.size = runtime.size
        /\ runtime'.notification = runtime.notification
        /\ runtime'.cyclic \in {0, runtime.cyclic}
        /\ runtime'.accumulator \in {0, runtime.accumulator}
    BY InStateType DEF Values, CallOK, CallType
  <1>b. call.op = "state" /\ call.from = runtime.state /\ alive /\ timer # "none"
    BY DEF CallOK, Lifetime, NoCall
  <1>1. Flags'
    BY DEF Flags
  <1>2. Values'
    BY <1>a DEF Values, Size
  <1>3. CallOK' /\ Scheduler' /\ Lifetime'
    <2>c. CASE call.from # "run" /\ call.to = "run"
      <3>1. /\ call' = [call EXCEPT !.step = "arm"] /\ call'.step = "arm" /\ call'.op = "state"
            /\ started' /\ NotRunning
        BY <1>b, <2>c DEF Scheduler, Running, CallOK, CallType
      <3>2. CallOK'
        BY <1>b, <3>1 DEF CallOK, CallType
      <3>3. Scheduler'
        BY <1>a, <1>b, <2>c, <3>1 DEF Scheduler, NotRunning
      <3>4. Lifetime'
        BY <1>b, <3>1 DEF Lifetime
      <3> QED
        BY <3>2, <3>3, <3>4
    <2>d. CASE ~(call.from # "run" /\ call.to = "run")
      <3>1. call' = NoCall /\ started' = started
        BY <2>d
      <3>2. CallOK'
        BY <3>1, NoCallType DEF CallOK, NoCall
      <3>3. Scheduler'
        BY <1>a, <1>b, <2>d, <3>1 DEF Scheduler, Running, NotRunning, NoCall
      <3>4. Lifetime'
        BY <1>b, <3>1 DEF Lifetime, NoCall
      <3> QED
        BY <3>2, <3>3, <3>4
    <2> QED
      BY <2>c, <2>d
  <1>6. Mapped'
    <2>1. buffer = None => runtime' = NoRuntime
      BY <1>b DEF CallOK, Mapped, InState, NoRuntime, Runtime
    <2> QED
      BY <1>a, <2>1 DEF Mapped, Values
  <1>7. Geometry'
    BY <1>a, FrameAssumption, BufferSizesAssumption DEF Geometry
  <1> QED
    BY <1>1, <1>2, <1>3, <1>6, <1>7

LEMMA ArmTimerInv ==
  ASSUME Inv, ArmTimer PROVE Inv'
  <1> USE DEF Inv, ArmTimer, objectVars, Idle, Locked, Step, Done
  <1>1. Flags'
    BY DEF Flags
  <1>2. Values'
    BY FrameAssumption, BufferSizesAssumption DEF Values, Size
  <1>3. CallOK'
    BY States4, NoneAssumption DEF CallOK, CallType, NoCall
  <1>4. Scheduler'
    BY DEF Scheduler, Running, NoCall
  <1>5. Lifetime'
    BY DEF Lifetime, NoCall
  <1>6. Mapped'
    BY DEF Mapped
  <1>7. Geometry'
    BY FrameAssumption, BufferSizesAssumption DEF Geometry
  <1> QED
    BY <1>1, <1>2, <1>3, <1>4, <1>5, <1>6, <1>7

LEMMA DetachBufferInv ==
  ASSUME Inv, DetachBuffer PROVE Inv'
  <1> USE DEF Inv, DetachBuffer, objectVars, Idle, Locked, Step, Done
  <1>1. Flags'
    BY DEF Flags
  <1>2. Values'
    BY NoRuntimeType DEF Values
  <1>3. CallOK'
    BY States4, NoneAssumption DEF CallOK, CallType
  <1>4. Scheduler'
    BY DEF Scheduler
  <1>5. Lifetime'
    BY DEF Lifetime, NoCall
  <1>6. Mapped'
    BY DEF Mapped
  <1>7. Geometry'
    BY FrameAssumption, BufferSizesAssumption DEF Geometry
  <1> QED
    BY <1>1, <1>2, <1>3, <1>4, <1>5, <1>6, <1>7

LEMMA UnmapBufferInv ==
  ASSUME Inv, UnmapBuffer PROVE Inv'
  <1> USE DEF Inv, UnmapBuffer, objectVars, Idle, Locked, Step, Done
  <1>1. Flags'
    BY DEF Flags
  <1>2. Values'
    BY FrameAssumption, BufferSizesAssumption DEF Values, Size
  <1>3. CallOK'
    BY States4, NoneAssumption DEF CallOK, CallType, NoCall
  <1>a. alive /\ buffer = None
    BY DEF CallOK, Lifetime, NoCall
  <1>4. Scheduler'
    BY <1>a DEF Scheduler, Mapped, NotRunning, NoRuntime, Runtime, NoCall
  <1>5. Lifetime'
    BY DEF Lifetime, NoCall
  <1>6. Mapped'
    BY DEF CallOK, Mapped
  <1>7. Geometry'
    BY FrameAssumption, BufferSizesAssumption DEF Geometry
  <1> QED
    BY <1>1, <1>2, <1>3, <1>4, <1>5, <1>6, <1>7

LEMMA DeleteTimerInv ==
  ASSUME Inv, DeleteTimer PROVE Inv'
  <1> USE DEF Inv, DeleteTimer, objectVars, Idle, Locked, Step, Done
  <1>1. Flags'
    BY DEF Flags
  <1>2. Values'
    BY FrameAssumption, BufferSizesAssumption DEF Values, Size
  <1>3. CallOK'
    BY States4, NoneAssumption DEF CallOK, CallType
  <1>4. Scheduler'
    BY DEF Scheduler
  <1>5. Lifetime'
    BY DEF Lifetime, NoCall
  <1>6. Mapped'
    BY DEF Scheduler, Mapped
  <1>7. Geometry'
    BY FrameAssumption, BufferSizesAssumption DEF Geometry
  <1> QED
    BY <1>1, <1>2, <1>3, <1>4, <1>5, <1>6, <1>7

LEMMA DestroyStreamInv ==
  ASSUME Inv, DestroyStream PROVE Inv'
  <1> USE DEF Inv, DestroyStream, objectVars, Idle, Locked, Step, Done
  <1>1. Flags'
    BY DEF Flags
  <1>2. Values'
    BY FrameAssumption, BufferSizesAssumption DEF Values
  <1>3. CallOK'
    BY States4, NoneAssumption DEF CallOK, CallType, NoCall
  <1>4. Scheduler'
    BY DEF Scheduler, NoCall
  <1>5. Lifetime'
    BY DEF Scheduler, Lifetime
  <1>6. Mapped'
    BY DEF Lifetime, Mapped
  <1>7. Geometry'
    BY FrameAssumption, BufferSizesAssumption DEF Geometry
  <1> QED
    BY <1>1, <1>2, <1>3, <1>4, <1>5, <1>6, <1>7

LEMMA TimerFiresInv ==
  ASSUME Inv, TimerFires PROVE Inv'
  <1> USE DEF Inv, TimerFires, objectVars, Idle, Locked, Step, Done
  <1>1. Flags'
    BY DEF Flags
  <1>2. Values'
    BY FrameAssumption, BufferSizesAssumption DEF Values, Size
  <1>3. CallOK'
    BY States4, NoneAssumption DEF CallOK, Size
  <1>4. Scheduler'
    BY DEF Scheduler, Running, NotRunning
  <1>5. Lifetime'
    BY DEF Lifetime
  <1>6. Mapped'
    BY DEF Mapped
  <1>7. Geometry'
    BY FrameAssumption, BufferSizesAssumption DEF Geometry
  <1> QED
    BY <1>1, <1>2, <1>3, <1>4, <1>5, <1>6, <1>7

LEMMA BeginTickInv ==
  ASSUME Inv, BeginTick PROVE Inv'
  <1> USE DEF Inv, BeginTick, objectVars, Idle, Locked, Step, Done
  <1>1. Flags'
    BY DEF Flags
  <1>2. Values'
    BY FrameAssumption, BufferSizesAssumption DEF Values, Size
  <1>3. CallOK'
    BY States4, NoneAssumption DEF CallOK, Size
  <1>4. Scheduler'
    BY DEF Scheduler, Running, NotRunning
  <1>5. Lifetime'
    BY DEF Lifetime
  <1>6. Mapped'
    BY DEF Mapped, CanCapture
  <1>7. Geometry'
    BY FrameAssumption, BufferSizesAssumption DEF Geometry
  <1> QED
    BY <1>1, <1>2, <1>3, <1>4, <1>5, <1>6, <1>7

LEMMA WriteFirstInv ==
  ASSUME Inv, WriteFirst PROVE Inv'
  <1> USE DEF Inv, WriteFirst, objectVars, Idle, Locked, Step, Done
  <1>a. buffer # None
    BY DEF Values, Mapped
  <1>b. \A b \in 0 .. Size - 1 : CapturedAt(b) \in Nat
    BY <1>a, CapturedAtType
  <1>c. /\ buffer \in [0 .. Size - 1 -> Nat \cup {None}] /\ Size \in BufferSizes
    BY <1>a, BufferFacts
  <1>d. buffer' \in [0 .. Size - 1 -> Nat \cup {None}] /\ runtime' = runtime /\ Size' = Size
    BY <1>b, <1>c DEF Size
  <1>e. buffer' # None
    BY <1>c, <1>d, NoneAssumption
  <1>1. Flags'
    BY DEF Flags
  <1>2. Values'
    BY <1>d DEF Values
  <1>3. CallOK'
    BY <1>a, <1>d, <1>e DEF CallOK
  <1>4. Scheduler'
    BY DEF Scheduler, Running, NotRunning
  <1>5. Lifetime'
    BY DEF Lifetime
  <1>6. Mapped'
    BY <1>a, <1>d, <1>e DEF Mapped, Values
  <1>7. Geometry'
    BY <1>a, <1>d, <1>e DEF Geometry
  <1> QED
    BY <1>1, <1>2, <1>3, <1>4, <1>5, <1>6, <1>7

LEMMA WriteSecondInv ==
  ASSUME Inv, WriteSecond PROVE Inv'
  <1> USE DEF Inv, WriteSecond, objectVars, Idle, Locked, Step, Done
  <1>a. buffer # None
    BY DEF Values, Mapped
  <1>b. \A b \in 0 .. Size - 1 : CapturedAt(b) \in Nat
    BY <1>a, CapturedAtType
  <1>c. /\ buffer \in [0 .. Size - 1 -> Nat \cup {None}] /\ Size \in BufferSizes
    BY <1>a, BufferFacts
  <1>d. buffer' \in [0 .. Size - 1 -> Nat \cup {None}] /\ runtime' = runtime /\ Size' = Size
    BY <1>b, <1>c DEF Size
  <1>e. buffer' # None
    BY <1>c, <1>d, NoneAssumption
  <1>1. Flags'
    BY DEF Flags
  <1>2. Values'
    BY <1>d DEF Values
  <1>3. CallOK'
    BY <1>a, <1>d, <1>e DEF CallOK
  <1>4. Scheduler'
    BY DEF Scheduler, Running, NotRunning
  <1>5. Lifetime'
    BY DEF Lifetime
  <1>6. Mapped'
    BY <1>a, <1>d, <1>e DEF Mapped, Values
  <1>7. Geometry'
    BY <1>a, <1>d, <1>e DEF Geometry
  <1> QED
    BY <1>1, <1>2, <1>3, <1>4, <1>5, <1>6, <1>7

LEMMA AdvanceTickInv ==
  ASSUME Inv, AdvanceTick PROVE Inv'
  <1> USE DEF Inv, AdvanceTick, objectVars, Idle, Locked, Step, Done
  <1>a. /\ runtime \in RuntimeType /\ runtime.size \in Nat \ {0} /\ runtime.notification \in Nat \ {0}
        /\ runtime.cyclic \in 0 .. runtime.size - 1
        /\ runtime.accumulator \in 0 .. runtime.notification - 1
    <2>1. buffer # None
      BY DEF Values, Mapped
    <2> QED
      BY <2>1, BufferFacts DEF Size
  <1>b. /\ runtime' \in RuntimeType /\ runtime'.state = runtime.state /\ runtime'.size = runtime.size
        /\ runtime'.notification = runtime.notification
        /\ runtime'.cyclic \in 0 .. runtime.size - 1
        /\ runtime'.accumulator \in 0 .. runtime.notification - 1
    BY <1>a, AdvancedType
  <1>1. Flags'
    BY DEF Flags
  <1>2. Values'
    BY <1>b DEF Values, Size
  <1>3. CallOK'
    BY <1>b DEF CallOK, Size
  <1>4. Scheduler'
    BY <1>b DEF Scheduler, Running, NotRunning
  <1>5. Lifetime'
    BY DEF Lifetime
  <1>6. Mapped'
    BY <1>b DEF Mapped, Values
  <1>7. Geometry'
    BY <1>b DEF Geometry
  <1> QED
    BY <1>1, <1>2, <1>3, <1>4, <1>5, <1>6, <1>7

LEMMA AllocateAudioBufferInv ==
  ASSUME Inv, NEW size \in BufferSizes, NEW count \in 0 .. size, AllocateAudioBuffer(size, count) PROVE Inv'
  <1> USE DEF Inv, AllocateAudioBuffer, objectVars, Idle, Locked, Step, Done
  <1>a. size \in Nat /\ size \in BufferSizes /\ runtime' = Runtime(size, size)
    BY BufferSizesAssumption
  <1>b. runtime' \in RuntimeType /\ runtime'.state = "stop" /\ runtime'.size = size
    BY <1>a, RuntimeTyped DEF Runtime
  <1>c. buffer' \in [0 .. size - 1 -> Nat \cup {None}] /\ buffer' # None
    BY NoneAssumption DEF Blank
  <1>1. Flags'
    BY DEF Flags
  <1>2. Values'
    BY <1>b, <1>c DEF Values, Size
  <1>d. /\ call' \in CallType /\ call'.count = count
        /\ \/ call'.op = "none" /\ call'.step = "idle"
           \/ call'.op = "allocate" /\ call'.step = "notifications" /\ count # 0
    <2>1. CASE count = 0
      BY <2>1, NoCallType DEF NoCall
    <2>2. CASE count # 0
      <3>1. count \in Nat
        BY <1>a
      <3>2. call' = [[[NoCall EXCEPT !.op = "allocate"] EXCEPT !.step = "notifications"] EXCEPT !.count = count]
        BY <2>2
      <3> QED
        BY <2>2, <3>1, <3>2, NoCallType DEF CallType
    <2> QED
      BY <2>1, <2>2
  <1>3. CallOK'
    BY <1>a, <1>b, <1>c, <1>d DEF CallOK, Size
  <1>4. Scheduler'
    BY <1>b DEF Scheduler, Running, NotRunning, NoCall, Mapped, NoRuntime, Runtime
  <1>5. Lifetime'
    BY DEF Lifetime, NoCall
  <1>6. Mapped'
    BY <1>b, <1>c DEF Mapped, Values
  <1>7. Geometry'
    BY <1>a, FrameAssumption, BufferSizesAssumption DEF Geometry, Runtime
  <1> QED
    BY <1>1, <1>2, <1>3, <1>4, <1>5, <1>6, <1>7

LEMMA BeginSetStateInv ==
  ASSUME Inv, NEW state \in StateNames, BeginSetState(state) PROVE Inv'
  <1> USE DEF Inv, BeginSetState, objectVars, Idle, Locked, Step, Done
  <1>1. Flags'
    BY DEF Flags
  <1>2. Values'
    BY FrameAssumption, BufferSizesAssumption DEF Values, Size
  <1>a. /\ call' \in CallType /\ call'.op = "state" /\ call'.to = state /\ call'.from = runtime.state
        /\ call'.step = IF runtime.state = "run" /\ state # "run" THEN "cancel" ELSE "apply"
    BY NoCallType DEF Values, RuntimeType, CallType
  <1>3. CallOK'
    BY <1>a DEF CallOK, Size
  <1>4. Scheduler'
    BY DEF Scheduler, Running, NotRunning
  <1>5. Lifetime'
    BY DEF Lifetime
  <1>6. Mapped'
    BY DEF Mapped
  <1>7. Geometry'
    BY FrameAssumption, BufferSizesAssumption DEF Geometry
  <1> QED
    BY <1>1, <1>2, <1>3, <1>4, <1>5, <1>6, <1>7

LEMMA StutterInv ==
  ASSUME Inv, UNCHANGED vars PROVE Inv'
  <1> USE DEF Inv, vars, objectVars
  <1>1. Flags' /\ Values'
    BY DEF Flags, Values, Size
  <1>2. CallOK'
    BY DEF CallOK, Size
  <1>3. Scheduler' /\ Lifetime'
    BY DEF Scheduler, Running, NotRunning, Lifetime
  <1>4. Mapped' /\ Geometry'
    BY DEF Mapped, Geometry
  <1> QED
    BY <1>1, <1>2, <1>3, <1>4

LEMMA StepInv == Inv /\ [Next]_vars => Inv'
  <1> SUFFICES ASSUME Inv, [Next]_vars PROVE Inv'
    OBVIOUS
  <1>1. CASE NewCall
    BY <1>1, AllocateAudioBufferInv, RegisterNotificationEventInv, UnregisterNotificationEventInv,
       BeginSetStateInv, BeginFreeAudioBufferInv, BeginDestroyInv DEF NewCall
  <1>2. CASE CallNext
    BY <1>2, SetNotificationsInv, CancelSchedulerInv, CancelTimerInv, FlushQueuedDpcsInv,
       ApplyStateInv, ArmTimerInv, DetachBufferInv, UnmapBufferInv, DeleteTimerInv, DestroyStreamInv
    DEF CallNext
  <1>3. CASE TickNext
    BY <1>3, BeginTickInv, WriteFirstInv, WriteSecondInv, AdvanceTickInv DEF TickNext
  <1>4. CASE CreateStream \/ WaitForEvent \/ TimerFires
    BY <1>4, CreateStreamInv, WaitForEventInv, TimerFiresInv
  <1>5. CASE UNCHANGED vars
    BY <1>5, StutterInv
  <1> QED
    BY <1>1, <1>2, <1>3, <1>4, <1>5 DEF Next

\* The inductive invariant: which of timer, flag and state agree at each step of a
\* call, and what exists while a tick runs.
THEOREM Invariant == Spec => []Inv
  BY InitInv, StepInv, PTL DEF Spec

\* Every reachable state is well typed, and the DPC holds the lock exactly while
\* it captures.
THEOREM TypeCorrect == Spec => []TypeOK
  <1>1. Inv => TypeOK
    BY TypeParts DEF Inv
  <1> QED
    BY <1>1, Invariant, PTL

\* A tick of OnSchedulerTick finds the stream, its pages and its scratch frame
\* alive, whichever call stops the stream, frees the buffer or destroys it.
THEOREM TickIsSafe == Spec => []NoUseAfterFree
  <1>1. Inv => NoUseAfterFree
    BY DEF Inv, Lifetime, Mapped, NoUseAfterFree
  <1> QED
    BY <1>1, Invariant, PTL

\* Between calls the scheduler runs exactly when the stream is in the run state.
THEOREM SchedulerFollowsState == Spec => []ScheduledIffRunning
  <1>1. Inv => ScheduledIffRunning
    BY DEF Inv, Scheduler, Running, NotRunning, ScheduledIffRunning, Idle
  <1> QED
    BY <1>1, Invariant, PTL

-----------------------------------------------------------------------------
(***************************************************************************)
(* Division: the quotient and remainder are unique, and the position of    *)
(* the next frame can be found from the remainder alone.                   *)
(***************************************************************************)
LEMMA Division ==
  ASSUME NEW m \in Nat \ {0}, NEW x \in Nat
  PROVE  x = m * (x \div m) + (x % m) /\ x \div m \in Nat /\ x % m \in 0 .. m - 1
  OBVIOUS

LEMMA Monotonic ==
  ASSUME NEW m \in Nat \ {0}, NEW p \in Nat, NEW q \in Nat, p < q
  PROVE  m * p + m <= m * q
  <1>1. PICK d \in Nat : q = p + 1 + d
    <2>1. q - p - 1 \in Nat /\ q = p + 1 + (q - p - 1)
      OBVIOUS
    <2> QED
      BY <2>1
  <1>2. m * q = m * p + m + m * d
    BY <1>1
  <1>3. m * d \in Nat /\ m * p \in Nat
    BY <1>1
  <1> QED
    BY <1>2, <1>3

LEMMA Quotient ==
  ASSUME NEW m \in Nat \ {0}, NEW x \in Nat, NEW q \in Nat, NEW r \in 0 .. m - 1, x = m * q + r
  PROVE  x \div m = q /\ x % m = r
  <1>1. PICK p \in Nat : p = x \div m
    BY Division
  <1>2. PICK s \in 0 .. m - 1 : s = x % m
    BY Division
  <1>3. x = m * p + s
    BY <1>1, <1>2, Division
  <1>4. m * p \in Nat /\ m * q \in Nat
    BY <1>1
  <1>5. ~(p < q)
    <2> SUFFICES ASSUME p < q PROVE FALSE
      OBVIOUS
    <2>1. m * p + m <= m * q
      BY Monotonic, <1>1
    <2> QED
      BY <2>1, <1>3, <1>4
  <1>6. ~(q < p)
    <2> SUFFICES ASSUME q < p PROVE FALSE
      OBVIOUS
    <2>1. m * q + m <= m * p
      BY Monotonic, <1>1
    <2> QED
      BY <2>1, <1>3, <1>4
  <1>7. p = q
    BY <1>5, <1>6, <1>1
  <1>8. s = r
    BY <1>7, <1>3, <1>4
  <1> QED
    BY <1>1, <1>2, <1>7, <1>8

LEMMA ModAdd ==
  ASSUME NEW m \in Nat \ {0}, NEW x \in Nat, NEW y \in Nat
  PROVE  /\ (x + y) % m = ((x % m) + y) % m
         /\ (x + y) \div m = (x \div m) + (((x % m) + y) \div m)
  <1>1. PICK q \in Nat, r \in 0 .. m - 1 : q = x \div m /\ r = x % m /\ x = m * q + r
    BY Division
  <1>2. r + y \in Nat
    BY <1>1
  <1>3. PICK p \in Nat, s \in 0 .. m - 1 : p = (r + y) \div m /\ s = (r + y) % m /\ r + y = m * p + s
    BY <1>2, Division
  <1>4. m * (q + p) = m * q + m * p /\ m * q \in Nat /\ m * p \in Nat
    BY <1>1, <1>3
  <1>5. x + y = m * (q + p) + s /\ q + p \in Nat /\ x + y \in Nat
    BY <1>1, <1>3, <1>4
  <1>6. (x + y) \div m = q + p /\ (x + y) % m = s
    BY <1>5, Quotient
  <1> QED
    BY <1>6, <1>1, <1>3

LEMMA Zero ==
  ASSUME NEW m \in Nat \ {0} PROVE 0 % m = 0 /\ 0 \div m = 0
  <1>1. 0 \in 0 .. m - 1 /\ 0 = m * 0 + 0
    OBVIOUS
  <1> QED
    BY <1>1, Quotient

LEMMA Wrap ==
  ASSUME NEW m \in Nat \ {0}, NEW x \in 0 .. 2 * m - 1
  PROVE  x % m = IF x < m THEN x ELSE x - m
  <1>1. CASE x < m
    <2>1. x = m * 0 + x /\ x \in 0 .. m - 1
      BY <1>1
    <2> QED
      BY <2>1, <1>1, Quotient
  <1>2. CASE ~(x < m)
    <2>1. x = m * 1 + (x - m) /\ x - m \in 0 .. m - 1
      BY <1>2
    <2> QED
      BY <2>1, <1>2, Quotient
  <1> QED
    BY <1>1, <1>2

-----------------------------------------------------------------------------
(***************************************************************************)
(* The positions agree.                                                    *)
(***************************************************************************)
Agree(r) ==
  /\ r.cyclic = r.linear % r.size
  /\ r.accumulator = r.linear % r.notification
  /\ r.due = r.linear \div r.notification

LEMMA FreshAgrees ==
  ASSUME NEW size \in Nat \ {0}, NEW notification \in Nat \ {0}
  PROVE  Agree(Runtime(size, notification))
  BY Zero DEF Agree, Runtime

LEMMA AdvanceAgrees ==
  ASSUME NEW r \in RuntimeType, r.size \in Nat \ {0}, r.notification \in Nat \ {0}, Agree(r)
  PROVE  Agree(Advanced(r))
  <1>1. CASE CanAdvance(r)
    <2>1. PICK c : c = (r.cyclic + Frame) % r.size
      OBVIOUS
    <2>2. PICK a : a = (r.accumulator + Frame) % r.notification
      OBVIOUS
    <2>3. PICK d : d = r.due + DueNow(r)
      OBVIOUS
    <2>4. Advanced(r) = [[r EXCEPT !.cyclic = c, !.accumulator = a]
                           EXCEPT !.linear = r.linear + Frame, !.due = d]
      BY <1>1, <2>1, <2>2, <2>3 DEF Advanced, Moved
    <2>5. /\ Advanced(r).cyclic = c /\ Advanced(r).accumulator = a /\ Advanced(r).due = d
          /\ Advanced(r).linear = r.linear + Frame
          /\ Advanced(r).size = r.size /\ Advanced(r).notification = r.notification
      BY <2>4 DEF RuntimeType
    <2>6. r.linear \in Nat /\ Frame \in Nat
      BY MaxPositionAssumption, FrameAssumption DEF RuntimeType, Positions
    <2>7. \A m \in Nat \ {0} :
            /\ (r.linear + Frame) % m = ((r.linear % m) + Frame) % m
            /\ (r.linear + Frame) \div m = (r.linear \div m) + (((r.linear % m) + Frame) \div m)
      BY <2>6, ModAdd
    <2>8. c = (r.linear + Frame) % r.size
      <3>1. (r.linear + Frame) % r.size = ((r.linear % r.size) + Frame) % r.size
        BY <2>7
      <3> QED
        BY <2>1, <3>1 DEF Agree
    <2>9. a = (r.linear + Frame) % r.notification
      <3>1. (r.linear + Frame) % r.notification
              = ((r.linear % r.notification) + Frame) % r.notification
        BY <2>7
      <3> QED
        BY <2>2, <3>1 DEF Agree
    <2>10. d = (r.linear + Frame) \div r.notification
      <3>1. (r.linear + Frame) \div r.notification
              = (r.linear \div r.notification) + (((r.linear % r.notification) + Frame) \div r.notification)
        BY <2>7
      <3> QED
        BY <2>3, <3>1 DEF Agree, DueNow
    <2> QED
      BY <2>5, <2>8, <2>9, <2>10 DEF Agree
  <1>2. CASE ~CanAdvance(r)
    BY <1>2 DEF Advanced
  <1> QED
    BY <1>1, <1>2

LEMMA InStateAgrees ==
  ASSUME NEW r \in RuntimeType, NEW state \in StateNames, r.size \in Nat \ {0},
         r.notification \in Nat \ {0}, Agree(r)
  PROVE  Agree(InState(r, state))
  <1>1. CASE state = "stop"
    BY <1>1, FreshAgrees DEF InState
  <1>2. CASE state # "stop"
    BY <1>2 DEF InState, Agree
  <1> QED
    BY <1>1, <1>2

\* What a step does to the runtime of a buffer.
LEMMA RuntimeSteps ==
  ASSUME Inv, Next, buffer' # None
  PROVE  \/ /\ buffer # None
            /\ \/ runtime' = runtime
               \/ runtime' = InState(runtime, call.to)
               \/ runtime' = Advanced(runtime)
         \/ \E size \in Nat \ {0}, notification \in Nat \ {0} : runtime' = Runtime(size, notification)
  <1>1. CASE \E size \in BufferSizes : \E count \in 0 .. size : AllocateAudioBuffer(size, count)
    BY <1>1, FrameAssumption, BufferSizesAssumption DEF AllocateAudioBuffer
  <1>2. CASE SetNotifications
    <2>1. Size \in Nat /\ call.count \in 1 .. Size
      BY <1>2, BufferFacts DEF Inv, CallOK, SetNotifications, Locked
    <2>2. Size \in Nat \ {0} /\ Size \div call.count \in Nat \ {0}
      BY <2>1, DivBounds
    <2> QED
      BY <1>2, <2>2 DEF SetNotifications
  <1>3. CASE ApplyState
    BY <1>3 DEF ApplyState
  <1>4. CASE AdvanceTick
    BY <1>4 DEF AdvanceTick
  <1>5. CASE WriteFirst \/ WriteSecond
    BY <1>5 DEF WriteFirst, WriteSecond, Inv, Mapped, Values
  <1>6. CASE CreateStream \/ DetachBuffer \/ DestroyStream
    BY <1>6 DEF CreateStream, DetachBuffer, DestroyStream
  <1>7. CASE \/ RegisterNotificationEvent \/ UnregisterNotificationEvent \/ BeginFreeAudioBuffer
             \/ BeginDestroy \/ \E state \in StateNames : BeginSetState(state)
    BY <1>7 DEF RegisterNotificationEvent, UnregisterNotificationEvent, BeginFreeAudioBuffer,
                BeginDestroy, BeginSetState, objectVars
  <1>8. CASE \/ CancelScheduler \/ CancelTimer \/ FlushQueuedDpcs \/ ArmTimer \/ UnmapBuffer
             \/ DeleteTimer \/ WaitForEvent \/ TimerFires \/ BeginTick
    BY <1>8 DEF CancelScheduler, CancelTimer, FlushQueuedDpcs, ArmTimer, UnmapBuffer, DeleteTimer,
                WaitForEvent, TimerFires, BeginTick, objectVars
  <1> QED
    BY <1>1, <1>2, <1>3, <1>4, <1>5, <1>6, <1>7, <1>8 DEF Next, NewCall, CallNext, TickNext

LEMMA AgreeStep == Inv /\ PositionsAgree /\ [Next]_vars => PositionsAgree'
  <1> SUFFICES ASSUME Inv, PositionsAgree, [Next]_vars, buffer' # None PROVE Agree(runtime')
    BY DEF PositionsAgree, Agree, Size
  <1>1. buffer # None => /\ Agree(runtime) /\ runtime \in RuntimeType /\ runtime.size \in Nat \ {0}
                         /\ runtime.notification \in Nat \ {0} /\ call.to \in StateNames
    BY BufferFacts DEF PositionsAgree, Agree, Size, Inv, CallOK, CallType
  <1>2. CASE Next
    <2>1. CASE buffer # None /\ (\/ runtime' = runtime
                                 \/ runtime' = InState(runtime, call.to)
                                 \/ runtime' = Advanced(runtime))
      BY <1>1, <2>1, InStateAgrees, AdvanceAgrees
    <2>2. CASE \E size \in Nat \ {0}, notification \in Nat \ {0} :
                 runtime' = Runtime(size, notification)
      BY <2>2, FreshAgrees
    <2> QED
      BY <1>2, <2>1, <2>2, RuntimeSteps
  <1>3. CASE UNCHANGED vars
    BY <1>1, <1>3 DEF vars, objectVars
  <1> QED
    BY <1>2, <1>3

\* The cyclic position, the linear one and the notification counters agree, through
\* wraps, pauses, stops and the limit of the counters.
THEOREM PositionsStayTogether == Spec => []PositionsAgree
  <1>1. Init => PositionsAgree
    BY DEF Init, PositionsAgree
  <1> QED
    BY <1>1, Invariant, AgreeStep, PTL DEF Spec

-----------------------------------------------------------------------------
(***************************************************************************)
(* The capture is contiguous.  Contiguous speaks of the frames before the  *)
(* position, which the tick in progress does not touch, and Written of the *)
(* frame it writes.                                                        *)
(***************************************************************************)
LEMMA SameStream ==
  ASSUME Written, Contiguous, buffer' = buffer, runtime' = runtime,
         tick' \in {"second", "advance"} => tick' = tick
  PROVE  Written' /\ Contiguous'
  BY DEF Written, Contiguous, Index, Size, FirstBlocks

LEMMA NothingCaptured ==
  ASSUME buffer' # None =>
           runtime'.linear = 0 /\ runtime'.size \in BufferSizes,
         tick' \notin {"second", "advance"}
  PROVE  Written' /\ Contiguous'
  <1>1. Written'
    BY DEF Written
  <1>2. Contiguous'
    <2> SUFFICES ASSUME buffer' # None, NEW j \in 1 .. Size' - Frame, j <= 0 PROVE FALSE
      BY DEF Contiguous
    <2>1. Size' \in Nat
      BY BufferSizesAssumption DEF Size
    <2> QED
      BY <2>1, FrameAssumption
  <1> QED
    BY <1>1, <1>2

LEMMA CapturedAtFirst ==
  ASSUME Inv, buffer # None, NEW i \in 0 .. Size - 1, runtime.cyclic + i < Size
  PROVE  CapturedAt(runtime.cyclic + i) = runtime.linear + i
  <1>1. PICK x : x = (runtime.cyclic + i) - runtime.cyclic + Size
    OBVIOUS
  <1>2. x \in 0 .. 2 * Size - 1 /\ ~(x < Size) /\ x - Size = i /\ Size \in Nat \ {0}
    <2>1. runtime.cyclic \in 0 .. Size - 1 /\ Size \in Nat \ {0}
      BY BufferFacts
    <2>2. x = i + Size
      BY ONLY <1>1, <2>1, i \in 0 .. Size - 1
    <2> QED
      BY ONLY <2>1, <2>2, i \in 0 .. Size - 1
  <1>3. x % Size = IF x < Size THEN x ELSE x - Size
    BY ONLY <1>2, Wrap
  <1> QED
    BY <1>1, <1>2, <1>3 DEF CapturedAt

LEMMA CapturedAtSecond ==
  ASSUME Inv, buffer # None, NEW b \in 0 .. Size - 1, b < runtime.cyclic
  PROVE  CapturedAt(b) = runtime.linear + (b + Size - runtime.cyclic)
  <1>1. PICK x : x = b - runtime.cyclic + Size
    OBVIOUS
  <1>2. x \in 0 .. 2 * Size - 1 /\ x < Size /\ x = b + Size - runtime.cyclic /\ Size \in Nat \ {0}
    BY <1>1, BufferFacts
  <1>3. x % Size = IF x < Size THEN x ELSE x - Size
    BY ONLY <1>2, Wrap
  <1> QED
    BY <1>1, <1>2, <1>3 DEF CapturedAt

LEMMA WriteFirstContiguous ==
  ASSUME Inv, Written, Contiguous, WriteFirst PROVE Written' /\ Contiguous'
  <1> DEFINE c == runtime.cyclic
  <1>1. buffer # None
    BY DEF WriteFirst, Inv, Values, Mapped
  <1>2. /\ Size \in Nat \ {0} /\ Frame \in Nat \ {0} /\ Frame <= Size /\ c \in 0 .. Size - 1
        /\ runtime.linear \in Nat /\ DOMAIN buffer = 0 .. Size - 1
    BY <1>1, BufferFacts, FrameAssumption
  <1>3. /\ FirstBlocks \in Nat /\ FirstBlocks <= Frame /\ c + FirstBlocks <= Size
        /\ FirstBlocks < Frame \/ FirstBlocks = Frame
    BY <1>2 DEF FirstBlocks
  <1>4. /\ runtime' = runtime /\ Size' = Size /\ FirstBlocks' = FirstBlocks
        /\ tick' = IF FirstBlocks < Frame THEN "second" ELSE "advance"
        /\ buffer' = [b \in 0 .. Size - 1 |-> IF b \in c .. c + FirstBlocks - 1
                                              THEN CapturedAt(b) ELSE buffer[b]]
    BY <1>2 DEF WriteFirst, Size, FirstBlocks
  <1>5. \A i \in 0 .. FirstBlocks - 1 : buffer'[c + i] = runtime.linear + i
    <2> SUFFICES ASSUME NEW i \in 0 .. FirstBlocks - 1 PROVE buffer'[c + i] = runtime.linear + i
      OBVIOUS
    <2>1. i \in 0 .. Size - 1 /\ c + i \in 0 .. Size - 1 /\ c + i \in c .. c + FirstBlocks - 1
      BY <1>2, <1>3
    <2>2. runtime.cyclic + i < Size
      BY <1>2, <2>1
    <2>3. CapturedAt(c + i) = runtime.linear + i
      BY <1>1, <2>1, <2>2, CapturedAtFirst, Zenon
    <2> QED
      BY <1>4, <2>1, <2>3
  <1>6. Written'
    <2>1. CASE FirstBlocks < Frame
      BY <1>4, <1>5, <2>1 DEF Written
    <2>2. CASE FirstBlocks = Frame
      <3> SUFFICES ASSUME NEW i \in 0 .. Frame - 1 PROVE buffer'[Index(c + i)] = runtime.linear + i
        BY <1>2, <1>4, <2>2 DEF Written, Index
      <3>1. Index(c + i) = c + i
        BY <1>2, <1>3, <2>2 DEF Index
      <3> QED
        BY <1>5, <2>2, <3>1
    <2> QED
      BY <1>3, <2>1, <2>2
  <1>7. Contiguous'
    <2> SUFFICES ASSUME NEW j \in 1 .. Size - Frame, j <= runtime.linear
                 PROVE  buffer'[Index(c - j + Size)] = runtime.linear - j
      BY <1>4 DEF Contiguous, Index
    <2>1. Index(c - j + Size) \in 0 .. Size - 1
          /\ Index(c - j + Size) \notin c .. c + FirstBlocks - 1
      BY <1>2, <1>3 DEF Index
    <2>2. buffer[Index(c - j + Size)] = runtime.linear - j
      BY <1>1 DEF Contiguous
    <2> QED
      BY <1>4, <2>1, <2>2
  <1> QED
    BY <1>6, <1>7

LEMMA WriteSecondContiguous ==
  ASSUME Inv, Written, Contiguous, WriteSecond PROVE Written' /\ Contiguous'
  <1> DEFINE c == runtime.cyclic
  <1>1. buffer # None
    BY DEF WriteSecond, Inv, Values, Mapped
  <1>2. /\ Size \in Nat \ {0} /\ Frame \in Nat \ {0} /\ Frame <= Size /\ c \in 0 .. Size - 1
        /\ runtime.linear \in Nat /\ DOMAIN buffer = 0 .. Size - 1
    BY <1>1, BufferFacts, FrameAssumption
  <1>3. FirstBlocks = Size - c /\ FirstBlocks < Frame
    BY <1>2 DEF FirstBlocks, Written, WriteSecond
  <1>4. /\ runtime' = runtime /\ Size' = Size /\ tick' = "advance"
        /\ buffer' = [b \in 0 .. Size - 1 |-> IF b < Frame - FirstBlocks
                                              THEN CapturedAt(b) ELSE buffer[b]]
    BY <1>2 DEF WriteSecond, Size
  <1>5. Written'
    <2> SUFFICES ASSUME NEW i \in 0 .. Frame - 1 PROVE buffer'[Index(c + i)] = runtime.linear + i
      BY <1>4 DEF Written, Index
    <2>1. CASE c + i < Size
      <3>1. Index(c + i) = c + i /\ c + i \in 0 .. Size - 1 /\ ~(c + i < Frame - FirstBlocks)
            /\ i \in 0 .. FirstBlocks - 1
        BY <1>2, <1>3, <2>1 DEF Index
      <3>2. buffer[c + i] = runtime.linear + i
        BY <3>1 DEF Written, WriteSecond
      <3> QED
        BY <1>4, <3>1, <3>2
    <2>2. CASE ~(c + i < Size)
      <3> DEFINE b == c + i - Size
      <3>1. Index(c + i) = b /\ b \in 0 .. Size - 1 /\ b < Frame - FirstBlocks /\ b < c
            /\ b + Size - c = i
        BY <1>2, <1>3, <2>2 DEF Index
      <3>2. CapturedAt(b) = runtime.linear + (b + Size - c)
        BY <1>1, <3>1, CapturedAtSecond
      <3> HIDE DEF b
      <3> QED
        BY <1>4, <3>1, <3>2
    <2> QED
      BY <2>1, <2>2
  <1>6. Contiguous'
    <2> SUFFICES ASSUME NEW j \in 1 .. Size - Frame, j <= runtime.linear
                 PROVE  buffer'[Index(c - j + Size)] = runtime.linear - j
      BY <1>4 DEF Contiguous, Index
    <2>1. Index(c - j + Size) \in 0 .. Size - 1
          /\ ~(Index(c - j + Size) < Frame - FirstBlocks)
      BY <1>2, <1>3 DEF Index
    <2>2. buffer[Index(c - j + Size)] = runtime.linear - j
      BY <1>1 DEF Contiguous
    <2> QED
      BY <1>4, <2>1, <2>2
  <1> QED
    BY <1>5, <1>6

LEMMA AdvanceTickContiguous ==
  ASSUME Inv, Written, Contiguous, AdvanceTick PROVE Written' /\ Contiguous'
  <1> DEFINE c == runtime.cyclic
  <1>1. buffer # None
    BY DEF AdvanceTick, Inv, Values, Mapped
  <1>2. /\ Size \in Nat \ {0} /\ Frame \in Nat \ {0} /\ Frame <= Size /\ c \in 0 .. Size - 1
        /\ runtime.linear \in Nat /\ runtime \in RuntimeType
    BY <1>1, BufferFacts, FrameAssumption
  <1>3. Written'
    BY DEF AdvanceTick, Written
  <1>4. CASE CanAdvance(runtime)
    <2>1. /\ runtime'.linear = runtime.linear + Frame /\ Size' = Size
          /\ runtime'.cyclic = (runtime.cyclic + Frame) % Size
      BY <1>2, <1>4 DEF AdvanceTick, Advanced, Moved, Size
    <2>2. PICK n : n = runtime'.cyclic
      OBVIOUS
    <2>3. n = IF c + Frame < Size THEN c + Frame ELSE c + Frame - Size
      <3>1. PICK x : x = c + Frame
        OBVIOUS
      <3>2. x \in 0 .. 2 * Size - 1
        BY <1>2, <3>1
      <3>3. x % Size = IF x < Size THEN x ELSE x - Size
        BY ONLY <1>2, <3>2, Wrap
      <3> QED
        BY <1>2, <2>1, <2>2, <3>1, <3>2, <3>3
    <2> SUFFICES ASSUME NEW j \in 1 .. Size - Frame, j <= runtime.linear + Frame
                 PROVE  buffer[Index(n - j + Size)] = runtime.linear + Frame - j
      <3>1. buffer' = buffer
        BY DEF AdvanceTick
      <3> QED
        BY <1>2, <1>3, <2>1, <2>2, <3>1 DEF Contiguous, Index
    <2>4. CASE j <= Frame
      <3>1. Frame - j \in 0 .. Frame - 1 /\ Index(n - j + Size) = Index(c + (Frame - j))
        BY <1>2, <2>3, <2>4 DEF Index
      <3>2. buffer[Index(c + (Frame - j))] = runtime.linear + (Frame - j)
        BY <3>1 DEF Written, AdvanceTick
      <3> QED
        BY <1>2, <3>1, <3>2
    <2>5. CASE ~(j <= Frame)
      <3>1. j - Frame \in 1 .. Size - Frame /\ j - Frame <= runtime.linear
            /\ Index(n - j + Size) = Index(c - (j - Frame) + Size)
        BY <1>2, <2>3, <2>5 DEF Index
      <3>2. buffer[Index(c - (j - Frame) + Size)] = runtime.linear - (j - Frame)
        BY <1>1, <3>1 DEF Contiguous
      <3> QED
        BY <1>2, <3>1, <3>2
    <2> QED
      BY <2>4, <2>5
  <1>5. CASE ~CanAdvance(runtime)
    BY <1>5, SameStream DEF AdvanceTick, Advanced
  <1> QED
    BY <1>4, <1>5

LEMMA ContiguousStep == Inv /\ Written /\ Contiguous /\ [Next]_vars => Written' /\ Contiguous'
  <1> SUFFICES ASSUME Inv, Written, Contiguous, [Next]_vars PROVE Written' /\ Contiguous'
    OBVIOUS
  <1>f. lock = "free" => tick \notin {"first", "second", "advance"}
    BY DEF Inv, Values
  <1>1. CASE \E size \in BufferSizes : \E count \in 0 .. size : AllocateAudioBuffer(size, count)
    BY <1>1, <1>f, NothingCaptured DEF AllocateAudioBuffer, Runtime
  <1>2. CASE SetNotifications
    BY <1>2, <1>f, NothingCaptured, BufferFacts
    DEF SetNotifications, Runtime, Locked, Inv, CallOK
  <1>3. CASE ApplyState
    <2>1. CASE call.to = "stop"
      BY <1>3, <1>f, <2>1, NothingCaptured, BufferFacts DEF ApplyState, InState, Runtime, Locked, Size
    <2>2. CASE call.to # "stop"
      <3>1. /\ runtime'.size = runtime.size /\ runtime'.cyclic = runtime.cyclic
            /\ runtime'.linear = runtime.linear /\ buffer' = buffer /\ tick' = tick
        BY <1>3, <2>2 DEF ApplyState, InState
      <3> QED
        BY <1>3, <1>f, <3>1 DEF ApplyState, Locked, Written, Contiguous, Index, Size
    <2> QED
      BY <2>1, <2>2
  <1>4. CASE CreateStream \/ DetachBuffer \/ DestroyStream
    <2>1. buffer' = None /\ tick' = tick
      BY <1>4 DEF CreateStream, DetachBuffer, DestroyStream
    <2>2. tick \notin {"second", "advance"}
      BY <1>4, <1>f DEF CreateStream, DetachBuffer, DestroyStream, Locked, Inv, Lifetime
    <2> QED
      BY <2>1, <2>2, NothingCaptured
  <1>5. CASE WriteFirst \/ WriteSecond \/ AdvanceTick
    BY <1>5, WriteFirstContiguous, WriteSecondContiguous, AdvanceTickContiguous
  <1>6. CASE \/ RegisterNotificationEvent \/ UnregisterNotificationEvent \/ BeginFreeAudioBuffer
             \/ BeginDestroy \/ \E state \in StateNames : BeginSetState(state)
    BY <1>6, SameStream DEF RegisterNotificationEvent, UnregisterNotificationEvent,
       BeginFreeAudioBuffer, BeginDestroy, BeginSetState, objectVars
  <1>7. CASE \/ CancelScheduler \/ CancelTimer \/ FlushQueuedDpcs \/ ArmTimer \/ UnmapBuffer
             \/ DeleteTimer \/ WaitForEvent \/ TimerFires \/ BeginTick
    BY <1>7, SameStream DEF CancelScheduler, CancelTimer, FlushQueuedDpcs, ArmTimer, UnmapBuffer,
       DeleteTimer, WaitForEvent, TimerFires, BeginTick, objectVars
  <1>8. CASE UNCHANGED vars
    BY <1>8, SameStream DEF vars, objectVars
  <1> QED
    BY <1>1, <1>2, <1>3, <1>4, <1>5, <1>6, <1>7, <1>8 DEF Next, NewCall, CallNext, TickNext

LEMMA ContiguousReads == Inv /\ Contiguous => CaptureIsContiguous
  <1> SUFFICES ASSUME Inv, Contiguous, buffer # None,
                      NEW j \in 1 .. MinOf(runtime.linear, Size - Frame)
               PROVE  buffer[(runtime.cyclic - j + Size) % Size] = runtime.linear - j
    BY DEF CaptureIsContiguous
  <1>1. /\ Size \in Nat \ {0} /\ Frame \in Nat \ {0} /\ Frame <= Size
        /\ runtime.cyclic \in 0 .. Size - 1 /\ runtime.linear \in Nat
    BY BufferFacts, FrameAssumption
  <1>2. j \in 1 .. Size - Frame /\ j <= runtime.linear
        /\ runtime.cyclic - j + Size \in 0 .. 2 * Size - 1
    BY <1>1 DEF MinOf
  <1>3. (runtime.cyclic - j + Size) % Size = Index(runtime.cyclic - j + Size)
    BY <1>1, <1>2, Wrap DEF Index
  <1> QED
    BY <1>2, <1>3 DEF Contiguous

\* A client that stays a frame behind the position reads an unbroken capture, for
\* every buffer and frame size, whatever the calls and ticks.
THEOREM CaptureStaysContiguous == Spec => []CaptureIsContiguous
  <1>1. Init => Written /\ Contiguous
    BY DEF Init, Written, Contiguous
  <1>2. Spec => [](Written /\ Contiguous)
    BY <1>1, Invariant, ContiguousStep, PTL DEF Spec
  <1> QED
    BY <1>2, Invariant, ContiguousReads, PTL
=============================================================================
