----------------------- MODULE VirtualMicControlProofs -----------------------
(***************************************************************************)
(* The safety of VirtualMicControl, for any number of threads, files,      *)
(* processes, generations and sections.                                    *)
(***************************************************************************)
EXTENDS VirtualMicControl, TLAPS

\* A thread outside its critical section.
Outside == {"idle", "wait", "unpublish"}

\* A step of a request is one its dispatch routine takes.
Dispatched ==
  /\ access = "dpc" <=> dpc.step = "consume"
  /\ \A t \in Threads :
       /\ pc[t] = "wait" => req[t].op # "none"
       /\ pc[t] \in {"disconnect", "cleanup", "query"} => req[t].op = pc[t]
       /\ pc[t] = "read" => RequestOwnsConnection(t)
       /\ pc[t] = "detach" /\ ctx.connected => EndsConnection(t)

\* Every handle, object reference and view belongs to the connection or to the
\* work in progress.
Accounted ==
  /\ handles = {work.handle} \ {None}
  /\ objects = {ctx.section_object, work.object} \ {None}
  /\ views = {ctx.kernel_view, work.view} \ {None}

\* A connection is whole, or it is not there at all.
Whole ==
  /\ ctx.connected =>
       /\ ctx.kernel_view # None /\ ctx.section_object = ctx.kernel_view
       /\ cursors[ctx.kernel_view] = ctx.session_generation
  /\ ~ctx.connected => ctx = NoConnection

Creating == {"section", "reference", "map", "initialise", "publish", "unwind"}

\* What the holder of the mutex has in its hands at each step.
InHand(t) ==
  /\ pc[t] \in Creating => ~ctx.connected
  /\ pc[t] \notin Creating \cup Outside \cup {"teardown"} => work = NoWork
  /\ pc[t] = "section" => work = NoWork
  /\ pc[t] = "reference" => work.handle # None /\ work.object = None /\ work.view = None
  /\ pc[t] \in {"map", "initialise", "publish"} =>
       work.handle # None /\ work.object = work.handle
  /\ pc[t] = "map" => work.view = None
  /\ pc[t] \in {"initialise", "publish"} => work.view = work.handle
  /\ pc[t] = "publish" => cursors[work.view] = req[t].generation
  /\ pc[t] = "teardown" => ~ctx.connected /\ work.handle = None

Working ==
  /\ mutex = None => work = NoWork
  /\ \A t \in Threads : InHand(t)

\* What the DPC reads is the connection, as long as it holds the spin lock.
Fence ==
  dpc.step = "consume" =>
    ctx.connected /\ dpc.view = ctx.kernel_view /\ dpc.generation = ctx.session_generation

IInv == TypeOK /\ Dispatched /\ Accounted /\ Whole /\ Working /\ Fence

-----------------------------------------------------------------------------
THEOREM InitInv == Init => IInv
  <1> SUFFICES ASSUME Init PROVE IInv
    OBVIOUS
  <1>1. TypeOK
    BY NoneAssumption DEF Init, TypeOK, NoConnection, Connection, NoRequest, NoWork, DpcIdle, Ops
  <1>2. Dispatched /\ Fence
    BY DEF Init, Dispatched, Fence, DpcIdle
  <1>3. Accounted /\ Whole
    BY DEF Init, Accounted, Whole, NoConnection, NoWork
  <1>4. Working
    BY DEF Init, Working, InHand, Creating
  <1> QED
    BY <1>1, <1>2, <1>3, <1>4 DEF IInv

\* The steps of a request.
LEMMA AcquireStateInv ==
  ASSUME IInv, NEW t \in Threads, AcquireState(t) PROVE IInv'
  <1> USE NoneAssumption DEF IInv, AcquireState, Goto, Complete, Dispatch, resources
  <1>a. req[t].op \in {"connect", "disconnect", "query", "cleanup", "delete"}
    BY DEF TypeOK, Dispatched, Ops, ClientOps
  <1>b. pc' = [pc EXCEPT ![t] = IF req[t].op = "delete" THEN "detach" ELSE req[t].op]
    OBVIOUS
  <1>c. \A u \in Threads \ {t} : pc'[u] = pc[u] /\ pc[u] \in Outside
    BY <1>b DEF TypeOK, Outside
  <1>d. pc'[t] \in {"connect", "disconnect", "query", "cleanup", "detach"}
    BY <1>a, <1>b DEF TypeOK
  <1>1. TypeOK'
    BY <1>b, <1>c, <1>d DEF TypeOK, Outside
  <1>2. Dispatched'
    BY <1>a, <1>b, <1>c DEF Dispatched, EndsConnection, Outside
  <1>3. Accounted'
    BY DEF Accounted
  <1>4. Whole'
    BY DEF Whole
  <1>5. Working'
    BY <1>c, <1>d DEF Working, InHand, Creating
  <1>6. Fence'
    BY DEF Fence
  <1> QED
    BY <1>1, <1>2, <1>3, <1>4, <1>5, <1>6

LEMMA ReleaseStateInv ==
  ASSUME IInv, NEW t \in Threads, ReleaseState(t) PROVE IInv'
  <1> USE NoneAssumption DEF IInv, ReleaseState, Goto, Complete, Dispatch, resources
  <1>1. TypeOK'
    BY DEF TypeOK, NoRequest, Ops, ClientOps
  <1>2. Dispatched'
    BY DEF TypeOK, Dispatched
  <1>3. Accounted'
    BY DEF Accounted
  <1>4. Whole'
    BY DEF Whole
  <1>5. Working'
    BY DEF TypeOK, Working, InHand, Creating, Outside
  <1>6. Fence'
    BY DEF Fence
  <1> QED
    BY <1>1, <1>2, <1>3, <1>4, <1>5, <1>6

LEMMA CompleteConnectInv ==
  ASSUME IInv, NEW t \in Threads, CompleteConnect(t) PROVE IInv'
  <1> USE NoneAssumption DEF IInv, CompleteConnect, Goto, Complete, Dispatch, resources
  <1>1. TypeOK'
    BY DEF TypeOK
  <1>2. Dispatched'
    BY DEF Dispatched, RequestOwnsConnection, EndsConnection
  <1>3. Accounted'
    BY DEF Accounted
  <1>4. Whole'
    BY DEF Whole
  <1>5. Working'
    BY DEF Working, InHand, Creating, Outside
  <1>6. Fence'
    BY DEF Fence
  <1> QED
    BY <1>1, <1>2, <1>3, <1>4, <1>5, <1>6

LEMMA CreateSectionInv ==
  ASSUME IInv, NEW t \in Threads, CreateSection(t) PROVE IInv'
  <1> USE NoneAssumption DEF IInv, CreateSection, Goto, Complete, Dispatch, resources
  <1>1. TypeOK'
    BY DEF TypeOK, Ops, ClientOps
  <1>2. Dispatched'
    BY DEF TypeOK, Dispatched
  <1>3. Accounted'
    BY DEF Accounted, Working, InHand, NoWork
  <1>4. Whole'
    BY DEF Whole, Working, InHand, Creating
  <1>5. Working'
    BY DEF TypeOK, Working, InHand, Creating, Outside, NoWork
  <1>6. Fence'
    BY DEF Fence
  <1> QED
    BY <1>1, <1>2, <1>3, <1>4, <1>5, <1>6

LEMMA ReferenceSectionInv ==
  ASSUME IInv, NEW t \in Threads, ReferenceSection(t) PROVE IInv'
  <1> USE NoneAssumption DEF IInv, ReferenceSection, Goto, Complete, Dispatch, resources
  <1>1. TypeOK'
    BY DEF TypeOK, Working, InHand
  <1>2. Dispatched'
    BY DEF TypeOK, Dispatched
  <1>3. Accounted'
    BY DEF TypeOK, Accounted, Working, InHand
  <1>4. Whole'
    BY DEF Whole
  <1>5. Working'
    BY DEF TypeOK, Working, InHand, Creating, NoWork
  <1>6. Fence'
    BY DEF Fence
  <1> QED
    BY <1>1, <1>2, <1>3, <1>4, <1>5, <1>6

LEMMA MapViewInv ==
  ASSUME IInv, NEW t \in Threads, MapView(t) PROVE IInv'
  <1> USE NoneAssumption DEF IInv, MapView, Goto, Complete, Dispatch, resources
  <1>1. TypeOK'
    BY DEF TypeOK, Working, InHand, Outside
  <1>2. Dispatched'
    BY DEF TypeOK, Dispatched
  <1>3. Accounted'
    BY DEF TypeOK, Accounted, Working, InHand
  <1>4. Whole'
    BY DEF Whole
  <1>5. Working'
    BY DEF TypeOK, Working, InHand, Creating, NoWork
  <1>6. Fence'
    BY DEF Fence
  <1> QED
    BY <1>1, <1>2, <1>3, <1>4, <1>5, <1>6

LEMMA InitialiseRegionInv ==
  ASSUME IInv, NEW t \in Threads, InitialiseRegion(t) PROVE IInv'
  <1> USE NoneAssumption DEF IInv, InitialiseRegion, Goto, Complete, Dispatch, resources
  <1>1. TypeOK'
    BY DEF TypeOK, Working, InHand
  <1>2. Dispatched'
    BY DEF Dispatched, RequestOwnsConnection, EndsConnection
  <1>3. Accounted'
    BY DEF Accounted
  <1>4. Whole'
    BY DEF Whole, Working, InHand, Creating
  <1>5. Working'
    BY DEF TypeOK, Working, InHand, Creating
  <1>6. Fence'
    BY DEF Fence
  <1> QED
    BY <1>1, <1>2, <1>3, <1>4, <1>5, <1>6

LEMMA UnwindInv ==
  ASSUME IInv, NEW t \in Threads, Unwind(t) PROVE IInv'
  <1> USE NoneAssumption DEF IInv, Unwind, Goto, Complete, Dispatch, resources
  <1>1. TypeOK'
    BY DEF TypeOK, NoWork
  <1>2. Dispatched'
    BY DEF Dispatched, RequestOwnsConnection, EndsConnection
  <1>3. Accounted'
    BY DEF Accounted, Working, Whole, InHand, Outside, NoWork, NoConnection
  <1>4. Whole'
    BY DEF Whole
  <1>5. Working'
    BY DEF TypeOK, Working, InHand, Creating
  <1>6. Fence'
    BY DEF Fence
  <1> QED
    BY <1>1, <1>2, <1>3, <1>4, <1>5, <1>6

LEMMA PublishInv ==
  ASSUME IInv, NEW t \in Threads, Publish(t) PROVE IInv'
  <1> USE NoneAssumption DEF IInv, Publish, Goto, Complete, Dispatch, resources
  <1>1. TypeOK'
    BY DEF TypeOK, Connection, NoWork
  <1>2. Dispatched'
    BY DEF TypeOK, Dispatched
  <1>3. Accounted'
    BY DEF Accounted, Working, Whole, InHand, Outside, NoWork, NoConnection
  <1>4. Whole'
    BY DEF Whole, Working, InHand
  <1>5. Working'
    BY DEF TypeOK, Working, InHand, Creating
  <1>6. Fence'
    BY DEF Fence, Working, InHand, Creating
  <1> QED
    BY <1>1, <1>2, <1>3, <1>4, <1>5, <1>6

LEMMA CompleteDisconnectInv ==
  ASSUME IInv, NEW t \in Threads, CompleteDisconnect(t) PROVE IInv'
  <1> USE NoneAssumption DEF IInv, CompleteDisconnect, Goto, Complete, Dispatch, resources
  <1>1. TypeOK'
    BY DEF TypeOK
  <1>2. Dispatched'
    BY DEF Dispatched, RequestOwnsConnection, EndsConnection
  <1>3. Accounted'
    BY DEF Accounted
  <1>4. Whole'
    BY DEF Whole
  <1>5. Working'
    BY DEF Working, InHand, Creating, Outside
  <1>6. Fence'
    BY DEF Fence
  <1> QED
    BY <1>1, <1>2, <1>3, <1>4, <1>5, <1>6

LEMMA CleanupOwnerConnectionInv ==
  ASSUME IInv, NEW t \in Threads, CleanupOwnerConnection(t) PROVE IInv'
  <1> USE NoneAssumption DEF IInv, CleanupOwnerConnection, Goto, Complete, Dispatch, resources
  <1>1. TypeOK'
    BY DEF TypeOK
  <1>2. Dispatched'
    BY DEF Dispatched, RequestOwnsConnection, EndsConnection
  <1>3. Accounted'
    BY DEF Accounted
  <1>4. Whole'
    BY DEF Whole
  <1>5. Working'
    BY DEF Working, InHand, Creating, Outside
  <1>6. Fence'
    BY DEF Fence
  <1> QED
    BY <1>1, <1>2, <1>3, <1>4, <1>5, <1>6

LEMMA CompleteQueryStatusInv ==
  ASSUME IInv, NEW t \in Threads, CompleteQueryStatus(t) PROVE IInv'
  <1> USE NoneAssumption DEF IInv, CompleteQueryStatus, Goto, Complete, Dispatch, resources
  <1>1. TypeOK'
    BY DEF TypeOK
  <1>2. Dispatched'
    BY DEF Dispatched, RequestOwnsConnection, EndsConnection
  <1>3. Accounted'
    BY DEF Accounted
  <1>4. Whole'
    BY DEF Whole
  <1>5. Working'
    BY DEF Working, InHand, Creating, Outside
  <1>6. Fence'
    BY DEF Fence
  <1> QED
    BY <1>1, <1>2, <1>3, <1>4, <1>5, <1>6

LEMMA ReadSnapshotInv ==
  ASSUME IInv, NEW t \in Threads, ReadSnapshot(t) PROVE IInv'
  <1> USE NoneAssumption DEF IInv, ReadSnapshot, Goto, Complete, Dispatch, resources
  <1>1. TypeOK'
    BY DEF TypeOK
  <1>2. Dispatched'
    BY DEF Dispatched, RequestOwnsConnection, EndsConnection
  <1>3. Accounted'
    BY DEF Accounted
  <1>4. Whole'
    BY DEF Whole
  <1>5. Working'
    BY DEF Working, InHand, Creating, Outside
  <1>6. Fence'
    BY DEF Fence
  <1> QED
    BY <1>1, <1>2, <1>3, <1>4, <1>5, <1>6

LEMMA DetachInv ==
  ASSUME IInv, NEW t \in Threads, Detach(t) PROVE IInv'
  <1> USE NoneAssumption DEF IInv, Detach, Goto, Complete, Dispatch, resources
  <1>1. TypeOK'
    BY DEF TypeOK, Connection, NoConnection, NoRequest, NoWork, DpcIdle, Ops, ClientOps
  <1>2. Dispatched'
    BY DEF TypeOK, Dispatched
  <1>3. Accounted'
    BY DEF Accounted, Working, InHand, Creating, Outside, NoWork, NoConnection
  <1>4. Whole'
    BY DEF Whole, NoConnection
  <1>5. Working'
    BY DEF TypeOK, Working, InHand, Outside, NoWork, NoConnection
  <1>6. Fence'
    BY DEF Fence, Dispatched
  <1> QED
    BY <1>1, <1>2, <1>3, <1>4, <1>5, <1>6

LEMMA TeardownInv ==
  ASSUME IInv, NEW t \in Threads, Teardown(t) PROVE IInv'
  <1> USE NoneAssumption DEF IInv, Teardown, Goto, Complete, Dispatch, resources
  <1>1. TypeOK'
    BY DEF TypeOK, NoWork
  <1>2. Dispatched'
    BY DEF Dispatched, RequestOwnsConnection, EndsConnection
  <1>3. Accounted'
    BY DEF Accounted, Working, Whole, InHand, NoWork, NoConnection
  <1>4. Whole'
    BY DEF Whole
  <1>5. Working'
    BY DEF Working, InHand, NoWork
  <1>6. Fence'
    BY DEF Fence
  <1> QED
    BY <1>1, <1>2, <1>3, <1>4, <1>5, <1>6

LEMMA UnpublishInv ==
  ASSUME IInv, NEW t \in Threads, Unpublish(t) PROVE IInv'
  <1> USE NoneAssumption DEF IInv, Unpublish, Goto, Complete, Dispatch, resources
  <1>1. TypeOK'
    BY DEF TypeOK, NoRequest, Ops
  <1>2. Dispatched'
    BY DEF Dispatched, RequestOwnsConnection, EndsConnection
  <1>3. Accounted'
    BY DEF Accounted
  <1>4. Whole'
    BY DEF Whole
  <1>5. Working'
    BY DEF Working, InHand, Creating, Outside
  <1>6. Fence'
    BY DEF Fence
  <1> QED
    BY <1>1, <1>2, <1>3, <1>4, <1>5, <1>6

LEMMA DeviceControlInv ==
  ASSUME IInv, NEW t \in Threads, DeviceControl(t) PROVE IInv'
  <1> USE NoneAssumption DEF IInv, DeviceControl, Goto, Complete, Dispatch, resources
  <1>1. TypeOK'
    BY DEF TypeOK, Ops
  <1>2. Dispatched'
    BY DEF TypeOK, Dispatched, RequestOwnsConnection, EndsConnection, ClientOps
  <1>3. Accounted'
    BY DEF Accounted
  <1>4. Whole'
    BY DEF Whole
  <1>5. Working'
    BY DEF Working, InHand, Creating, Outside
  <1>6. Fence'
    BY DEF Fence
  <1> QED
    BY <1>1, <1>2, <1>3, <1>4, <1>5, <1>6

LEMMA CloseHandleInv ==
  ASSUME IInv, NEW t \in Threads, CloseHandle(t) PROVE IInv'
  <1> USE NoneAssumption DEF IInv, CloseHandle, Goto, Complete, Dispatch, resources
  <1>a. PICK f \in Files : req' = [req EXCEPT ![t] = [NoRequest EXCEPT !.op = "cleanup", !.file = f]]
    OBVIOUS
  <1>b. req' \in [Threads -> [op : Ops, file : Files \cup {None}, process : Processes \cup {None},
                             generation : Generations \cup {None}]]
    BY <1>a DEF TypeOK, NoRequest, Ops
  <1>1. TypeOK'
    BY <1>b DEF TypeOK
  <1>2. Dispatched'
    BY DEF TypeOK, Dispatched, RequestOwnsConnection, EndsConnection
  <1>3. Accounted'
    BY DEF Accounted
  <1>4. Whole'
    BY DEF Whole
  <1>5. Working'
    BY DEF Working, InHand, Creating, Outside
  <1>6. Fence'
    BY DEF Fence
  <1> QED
    BY <1>1, <1>2, <1>3, <1>4, <1>5, <1>6

LEMMA DriverUnloadInv ==
  ASSUME IInv, NEW t \in Threads, DriverUnload(t) PROVE IInv'
  <1> USE NoneAssumption DEF IInv, DriverUnload, Goto, Complete, Dispatch, resources
  <1>1. TypeOK'
    BY DEF TypeOK, NoRequest, Ops
  <1>2. Dispatched'
    BY DEF TypeOK, Dispatched
  <1>3. Accounted'
    BY DEF Accounted
  <1>4. Whole'
    BY DEF Whole
  <1>5. Working'
    BY DEF Working, InHand, Creating, Outside
  <1>6. Fence'
    BY DEF Fence
  <1> QED
    BY <1>1, <1>2, <1>3, <1>4, <1>5, <1>6

LEMMA CreateInv ==
  ASSUME IInv, NEW f \in Files, Create(f) PROVE IInv'
  <1> USE NoneAssumption DEF IInv, Create, Goto, Complete, Dispatch, resources
  <1>1. TypeOK'
    BY DEF TypeOK
  <1>2. Dispatched'
    BY DEF Dispatched, RequestOwnsConnection, EndsConnection
  <1>3. Accounted'
    BY DEF Accounted
  <1>4. Whole'
    BY DEF Whole
  <1>5. Working'
    BY DEF Working, InHand
  <1>6. Fence'
    BY DEF Fence
  <1> QED
    BY <1>1, <1>2, <1>3, <1>4, <1>5, <1>6

LEMMA CloseInv ==
  ASSUME IInv, NEW f \in Files, Close(f) PROVE IInv'
  <1> USE NoneAssumption DEF IInv, Close, Goto, Complete, Dispatch, resources
  <1>1. TypeOK'
    BY DEF TypeOK
  <1>2. Dispatched'
    BY DEF Dispatched, RequestOwnsConnection, EndsConnection
  <1>3. Accounted'
    BY DEF Accounted
  <1>4. Whole'
    BY DEF Whole
  <1>5. Working'
    BY DEF Working, InHand
  <1>6. Fence'
    BY DEF Fence
  <1> QED
    BY <1>1, <1>2, <1>3, <1>4, <1>5, <1>6

LEMMA DpcConsumeInv ==
  ASSUME IInv, DpcConsume PROVE IInv'
  <1> USE NoneAssumption DEF IInv, DpcConsume, Goto, Complete, Dispatch, resources
  <1>1. TypeOK'
    BY DEF TypeOK, Connection
  <1>2. Dispatched'
    BY DEF Dispatched, RequestOwnsConnection, EndsConnection
  <1>3. Accounted'
    BY DEF Accounted
  <1>4. Whole'
    BY DEF Whole
  <1>5. Working'
    BY DEF Working, InHand
  <1>6. Fence'
    BY DEF Fence
  <1> QED
    BY <1>1, <1>2, <1>3, <1>4, <1>5, <1>6

LEMMA DpcReleaseInv ==
  ASSUME IInv, DpcRelease PROVE IInv'
  <1> USE NoneAssumption DEF IInv, DpcRelease, Goto, Complete, Dispatch, resources
  <1>1. TypeOK'
    BY DEF TypeOK, DpcIdle
  <1>2. Dispatched'
    BY DEF Dispatched, RequestOwnsConnection, EndsConnection, DpcIdle
  <1>3. Accounted'
    BY DEF Accounted
  <1>4. Whole'
    BY DEF Whole
  <1>5. Working'
    BY DEF Working, InHand
  <1>6. Fence'
    BY DEF Fence, DpcIdle
  <1> QED
    BY <1>1, <1>2, <1>3, <1>4, <1>5, <1>6

LEMMA StutterInv ==
  ASSUME IInv, UNCHANGED vars PROVE IInv'
  BY DEF IInv, vars, resources, TypeOK, Dispatched, RequestOwnsConnection, EndsConnection,
         Accounted, Whole, Working, InHand, Fence

LEMMA StepInv ==
  ASSUME IInv, [Next]_vars PROVE IInv'
  <1>1. CASE \E f \in Files : Create(f) \/ Close(f)
    BY <1>1, CreateInv, CloseInv
  <1>2. CASE \E t \in Threads : DeviceControl(t) \/ CloseHandle(t) \/ DriverUnload(t)
    BY <1>2, DeviceControlInv, CloseHandleInv, DriverUnloadInv
  <1>3. CASE \E t \in Threads : AcquireState(t)
    BY <1>3, AcquireStateInv
  <1>4. CASE \E t \in Threads : Proceed(t)
    BY <1>4, ReleaseStateInv, CompleteConnectInv, CreateSectionInv, ReferenceSectionInv,
       MapViewInv, InitialiseRegionInv, UnwindInv, CompleteDisconnectInv,
       CleanupOwnerConnectionInv, CompleteQueryStatusInv, ReadSnapshotInv, TeardownInv
       DEF Proceed
  <1>5. CASE \E t \in Threads : Fenced(t)
    BY <1>5, PublishInv, DetachInv, UnpublishInv DEF Fenced
  <1>6. CASE DpcNext
    BY <1>6, DpcConsumeInv, DpcReleaseInv DEF DpcNext
  <1>7. CASE UNCHANGED vars
    BY <1>7, StutterInv
  <1> QED
    BY <1>1, <1>2, <1>3, <1>4, <1>5, <1>6, <1>7 DEF Next

\* The inductive invariant: the lock discipline, who owns each resource at each
\* step, and what the DPC reads.
THEOREM Invariant == Spec => []IInv
  <1>1. Init => IInv
    BY InitInv
  <1>2. IInv /\ [Next]_vars => IInv'
    BY StepInv
  <1> QED
    BY <1>1, <1>2, PTL DEF Spec

\* Every reachable state is well typed, and only the holder of the mutex is inside
\* a dispatch routine.
THEOREM TypeCorrect == Spec => []TypeOK
  <1>1. IInv => TypeOK
    BY DEF IInv
  <1> QED
    BY <1>1, Invariant, PTL

\* VsnWdmControlConsumeFrame and CompleteQueryStatus read a mapped region of the
\* session they are asked for, whatever disconnects meanwhile.
THEOREM SessionIsLive == Spec => []RealtimeReadsLiveSession
  <1>1. IInv => RealtimeReadsLiveSession
    <2> SUFFICES ASSUME IInv PROVE RealtimeReadsLiveSession
      OBVIOUS
    <2>1. ctx.connected => ctx.kernel_view \in views /\ cursors[ctx.kernel_view] = ctx.session_generation
      BY DEF IInv, Accounted, Whole
    <2> QED
      BY <2>1 DEF IInv, Fence, Dispatched, RequestOwnsConnection, RealtimeReadsLiveSession
  <1> QED
    BY <1>1, Invariant, PTL

\* Between requests the driver keeps exactly what the connection needs, whichever
\* call of CreateDriverOwnedSection failed.
THEOREM ResourcesAreReleased == Spec => []NothingLeaks
  <1>1. IInv => NothingLeaks
    <2> SUFFICES ASSUME IInv, mutex = None
                 PROVE  /\ handles = {} /\ views = {ctx.kernel_view} \ {None}
                        /\ objects = {ctx.section_object} \ {None}
                        /\ ctx.connected <=> ctx.kernel_view # None
      BY DEF NothingLeaks
    <2>1. work = NoWork
      BY DEF IInv, Working
    <2>2. ctx.connected <=> ctx.kernel_view # None
      BY DEF IInv, Whole, NoConnection
    <2> QED
      BY <2>1, <2>2 DEF IInv, Accounted, NoWork
  <1> QED
    BY <1>1, Invariant, PTL

\* Only Detach and Publish change the connection, Publish only when there is none,
\* and Detach is reached only by a request that may end it.
THEOREM OwnershipIsRespected == Spec => OnlyTheOwnerDisconnects
  <1> DEFINE ByOwner == ctx.connected /\ ctx' # ctx => \E t \in Threads : mutex = t /\ EndsConnection(t)
  <1>1. IInv /\ [Next]_vars => [ByOwner]_vars
    <2> SUFFICES ASSUME IInv, Next, ctx.connected, ctx' # ctx
                 PROVE  \E t \in Threads : mutex = t /\ EndsConnection(t)
      OBVIOUS
    <2>1. PICK t \in Threads : Publish(t) \/ Detach(t)
      BY DEF Next, Create, Close, DeviceControl, CloseHandle, DriverUnload, AcquireState, Proceed,
             ReleaseState, CompleteConnect, CreateSection, ReferenceSection, MapView, InitialiseRegion,
             Unwind, CompleteDisconnect, CleanupOwnerConnection, CompleteQueryStatus, ReadSnapshot,
             Teardown, Fenced, Unpublish, DpcNext, DpcConsume, DpcRelease
    <2>2. Detach(t)
      BY <2>1 DEF Publish, IInv, Working, InHand, Creating
    <2>3. mutex = t /\ EndsConnection(t)
      BY <2>2 DEF Detach, IInv, TypeOK, Dispatched
    <2> QED
      BY <2>3
  <1> QED
    BY <1>1, Invariant, PTL DEF Spec, OnlyTheOwnerDisconnects
=============================================================================
