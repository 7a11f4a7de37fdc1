-------------------------- MODULE VirtualMicControl --------------------------
(***************************************************************************)
(* The raw WDM control device of the virtual microphone: CONNECT,          *)
(* DISCONNECT and QUERY_STATUS requests, the CLEANUP of a file object and  *)
(* the unload of the driver, all under one mutex, and the capture DPC,     *)
(* which reads the connection under a spin lock and never waits for the    *)
(* mutex.  A connection owns one section: a section object, a view of it   *)
(* in system space and the client's handle to it.                          *)
(*                                                                         *)
(* Kernel services (mutex, spin lock, section and handle calls, the I/O    *)
(* manager's CREATE / CLEANUP / CLOSE order) are modelled by their         *)
(* contracts.  The I/O manager sends CLEANUP when the last handle of a     *)
(* file object is closed, whether or not requests on it are in progress,   *)
(* and CLOSE when the last of those has completed.                         *)
(***************************************************************************)
EXTENDS Naturals

CONSTANTS Threads,      \* threads that carry a request each
          Files,        \* addresses of file objects; reused after CLOSE
          Processes,    \* requestor process ids
          Generations,  \* session generations the clients choose
          Sections,     \* sections that can exist at a time
          None

ASSUME NoneAssumption ==
  None \notin Threads \cup Files \cup Processes \cup Generations \cup Sections

VARIABLES
  device,    \* g_vsn_control_device: "published" or "deleted"
  ctx,       \* VSN_WDM_CONTROL_CONTEXT
  mutex,     \* holder of state_mutex, or None
  access,    \* g_vsn_control_access_lock: "free" or "dpc"
  files,     \* state of each file object
  req,       \* the request of each thread
  pc,        \* where each thread is in its dispatch routine
  work,      \* what the holder of the mutex creates or tears down
  handles,   \* sections whose user handle the driver has yet to hand over or close
  objects, views,  \* sections with an object reference, sections with a view
  cursors,   \* session_generation in the cursor block of each section
  dpc        \* VsnWdmControlConsumeFrame: step, and what it reads under the spin lock

resources == <<handles, objects, views, cursors>>
vars == <<device, ctx, mutex, access, files, req, pc, work, resources, dpc>>

NoConnection == [connected |-> FALSE, owner_process_id |-> None, owner_file |-> None,
                 session_generation |-> None, kernel_view |-> None, section_object |-> None]
NoRequest == [op |-> "none", file |-> None, process |-> None, generation |-> None]
NoWork == [handle |-> None, object |-> None, view |-> None]
DpcIdle == [step |-> "idle", view |-> None, generation |-> None]

ClientOps == {"connect", "disconnect", "query"}
Ops == ClientOps \cup {"cleanup", "delete", "none"}

InProgress(f) == \E t \in Threads : req[t].file = f

Init ==
  /\ device = "published" /\ ctx = NoConnection /\ mutex = None /\ access = "free"
  /\ files = [f \in Files |-> "free"]
  /\ req = [t \in Threads |-> NoRequest] /\ pc = [t \in Threads |-> "idle"] /\ work = NoWork
  /\ handles = {} /\ objects = {} /\ views = {} /\ cursors = [s \in Sections |-> None]
  /\ dpc = DpcIdle

-----------------------------------------------------------------------------
(***************************************************************************)
(* The I/O manager.                                                        *)
(***************************************************************************)
Dispatch(t, request) ==
  /\ pc[t] = "idle" /\ pc' = [pc EXCEPT ![t] = "wait"]
  /\ req' = [req EXCEPT ![t] = request]

\* IRP_MJ_CREATE
Create(f) ==
  /\ device = "published" /\ files[f] = "free"
  /\ \A t \in Threads : req[t].op # "delete"   \* the link is gone once unload began
  /\ files' = [files EXCEPT ![f] = "open"]
  /\ UNCHANGED <<device, ctx, mutex, access, req, pc, work, resources, dpc>>

\* IRP_MJ_DEVICE_CONTROL, from any process that has a handle to the file object.
DeviceControl(t) ==
  /\ \E op \in ClientOps, f \in Files, p \in Processes, g \in Generations :
       /\ files[f] = "open"
       /\ Dispatch(t, [op |-> op, file |-> f, process |-> p, generation |-> g])
  /\ UNCHANGED <<device, ctx, mutex, access, files, work, resources, dpc>>

\* The last handle is closed: IRP_MJ_CLEANUP.
CloseHandle(t) ==
  /\ \E f \in Files :
       /\ files[f] = "open"
       /\ files' = [files EXCEPT ![f] = "closing"]
       /\ Dispatch(t, [NoRequest EXCEPT !.op = "cleanup", !.file = f])
  /\ UNCHANGED <<device, ctx, mutex, access, work, resources, dpc>>

\* IRP_MJ_CLOSE changes nothing in the driver; the file object is freed.
Close(f) ==
  /\ files[f] = "closing" /\ ~InProgress(f)
  /\ files' = [files EXCEPT ![f] = "free"]
  /\ UNCHANGED <<device, ctx, mutex, access, req, pc, work, resources, dpc>>

\* DriverUnload, once no file object refers to the device.
DriverUnload(t) ==
  /\ device = "published"
  /\ \A f \in Files : files[f] = "free"
  /\ \A u \in Threads : pc[u] = "idle"
  /\ Dispatch(t, [NoRequest EXCEPT !.op = "delete"])
  /\ UNCHANGED <<device, ctx, mutex, access, files, work, resources, dpc>>

-----------------------------------------------------------------------------
(***************************************************************************)
(* The dispatch routines.                                                  *)
(***************************************************************************)
Goto(t, step) == pc' = [pc EXCEPT ![t] = step]
Complete(t) == Goto(t, "idle") /\ req' = [req EXCEPT ![t] = NoRequest]

\* Mutant: the wait is not waited for.
AcquireStateUnchecked(t) ==
  /\ pc[t] = "wait"
  /\ mutex' = t
  /\ Goto(t, IF req[t].op = "delete" THEN "detach" ELSE req[t].op)
  /\ UNCHANGED <<device, ctx, access, files, req, work, resources, dpc>>

AcquireState(t) ==
  /\ pc[t] = "wait" /\ mutex = None
  /\ mutex' = t
  /\ Goto(t, IF req[t].op = "delete" THEN "detach" ELSE req[t].op)
  /\ UNCHANGED <<device, ctx, access, files, req, work, resources, dpc>>

\* Mutant: the refusal of a second connection keeps the mutex.
ReleaseStateUnlessBusy(t) ==
  /\ pc[t] = "release"
  /\ mutex' = IF req[t].op = "connect" /\ ctx.owner_file # req[t].file THEN mutex ELSE None
  /\ IF req[t].op = "delete" THEN Goto(t, "unpublish") /\ UNCHANGED req ELSE Complete(t)
  /\ UNCHANGED <<device, ctx, access, files, work, resources, dpc>>

\* ReleaseState, and the request completes.
ReleaseState(t) ==
  /\ pc[t] = "release"
  /\ mutex' = None
  /\ IF req[t].op = "delete" THEN Goto(t, "unpublish") /\ UNCHANGED req ELSE Complete(t)
  /\ UNCHANGED <<device, ctx, access, files, work, resources, dpc>>

CompleteConnect(t) ==
  /\ pc[t] = "connect"
  /\ Goto(t, IF ctx.connected THEN "release" ELSE "section")
  /\ UNCHANGED <<device, ctx, mutex, access, files, req, work, resources, dpc>>

(***************************************************************************)
(* CreateDriverOwnedSection: each call may fail, and then everything       *)
(* acquired so far is released.                                            *)
(***************************************************************************)
CreateSection(t) ==
  /\ pc[t] = "section"
  /\ \/ \E s \in Sections \ (handles \cup objects \cup views) :
          /\ handles' = handles \cup {s}
          /\ cursors' = [cursors EXCEPT ![s] = None]
          /\ work' = [work EXCEPT !.handle = s]
          /\ Goto(t, "reference")
     \/ Goto(t, "unwind") /\ UNCHANGED <<handles, cursors, work>>
  /\ UNCHANGED <<device, ctx, mutex, access, files, req, objects, views, dpc>>

ReferenceSection(t) ==
  /\ pc[t] = "reference"
  /\ \/ /\ objects' = objects \cup {work.handle}
        /\ work' = [work EXCEPT !.object = work.handle]
        /\ Goto(t, "map")
     \/ Goto(t, "unwind") /\ UNCHANGED <<objects, work>>
  /\ UNCHANGED <<device, ctx, mutex, access, files, req, handles, views, cursors, dpc>>

\* Mutant: the connection is published before its region is initialised.
MapViewUninitialised(t) ==
  /\ pc[t] = "map"
  /\ \/ /\ views' = views \cup {work.object}
        /\ work' = [work EXCEPT !.view = work.object]
        /\ Goto(t, "publish")
     \/ Goto(t, "unwind") /\ UNCHANGED <<views, work>>
  /\ UNCHANGED <<device, ctx, mutex, access, files, req, handles, objects, cursors, dpc>>

\* A view that is too small is unmapped on the spot.
MapView(t) ==
  /\ pc[t] = "map"
  /\ \/ /\ views' = views \cup {work.object}
        /\ work' = [work EXCEPT !.view = work.object]
        /\ Goto(t, "initialise")
     \/ Goto(t, "unwind") /\ UNCHANGED <<views, work>>
  /\ UNCHANGED <<device, ctx, mutex, access, files, req, handles, objects, cursors, dpc>>

InitialiseRegion(t) ==
  /\ pc[t] = "initialise"
  /\ cursors' = [cursors EXCEPT ![work.view] = req[t].generation]
  /\ Goto(t, "publish")
  /\ UNCHANGED <<device, ctx, mutex, access, files, req, work, handles, objects, views, dpc>>

\* Mutant: the reference to the section object is forgotten.
UnwindKeepsObject(t) ==
  /\ pc[t] = "unwind"
  /\ views' = views \ {work.view} /\ handles' = handles \ {work.handle}
  /\ work' = NoWork
  /\ Goto(t, "release")
  /\ UNCHANGED <<device, ctx, mutex, access, files, req, objects, cursors, dpc>>

Unwind(t) ==
  /\ pc[t] = "unwind"
  /\ views' = views \ {work.view} /\ objects' = objects \ {work.object}
  /\ handles' = handles \ {work.handle}
  /\ work' = NoWork
  /\ Goto(t, "release")
  /\ UNCHANGED <<device, ctx, mutex, access, files, req, cursors, dpc>>

\* The connection appears in one critical section of the spin lock; the response
\* hands the section handle to the client.
Publish(t) ==
  /\ pc[t] = "publish" /\ access = "free"
  /\ ctx' = [connected |-> TRUE, owner_process_id |-> req[t].process,
             owner_file |-> req[t].file, session_generation |-> req[t].generation,
             kernel_view |-> work.view, section_object |-> work.object]
  /\ handles' = handles \ {work.handle}
  /\ work' = NoWork
  /\ Goto(t, "release")
  /\ UNCHANGED <<device, mutex, access, files, req, objects, views, cursors, dpc>>

\* Mutant: the file object that connected is not compared.
RequestOwnsConnectionAnyFile(t) ==
  /\ ctx.connected
  /\ ctx.owner_process_id = req[t].process
  /\ ctx.session_generation = req[t].generation

RequestOwnsConnection(t) ==
  /\ ctx.connected
  /\ ctx.owner_process_id = req[t].process
  /\ ctx.owner_file = req[t].file
  /\ ctx.session_generation = req[t].generation

CompleteDisconnect(t) ==
  /\ pc[t] = "disconnect"
  /\ Goto(t, IF RequestOwnsConnection(t) THEN "detach" ELSE "release")
  /\ UNCHANGED <<device, ctx, mutex, access, files, req, work, resources, dpc>>

CleanupOwnerConnection(t) ==
  /\ pc[t] = "cleanup"
  /\ Goto(t, IF ctx.connected /\ ctx.owner_file = req[t].file THEN "detach" ELSE "release")
  /\ UNCHANGED <<device, ctx, mutex, access, files, req, work, resources, dpc>>

\* CompleteQueryStatus; the snapshot itself is read in step "read".
CompleteQueryStatus(t) ==
  /\ pc[t] = "query"
  /\ Goto(t, IF RequestOwnsConnection(t) THEN "read" ELSE "release")
  /\ UNCHANGED <<device, ctx, mutex, access, files, req, work, resources, dpc>>

ReadSnapshot(t) ==
  /\ pc[t] = "read"
  /\ Goto(t, "release")
  /\ UNCHANGED <<device, ctx, mutex, access, files, req, work, resources, dpc>>

\* Mutant: the connection is detached without the spin lock.
DetachUnfenced(t) ==
  /\ pc[t] = "detach"
  /\ work' = [NoWork EXCEPT !.view = ctx.kernel_view, !.object = ctx.section_object]
  /\ ctx' = NoConnection
  /\ Goto(t, "teardown")
  /\ UNCHANGED <<device, mutex, access, files, req, resources, dpc>>

\* ResetConnectionLocked: under the spin lock the connection disappears, and
\* only then, outside it, its mapping.
Detach(t) ==
  /\ pc[t] = "detach" /\ access = "free"
  /\ work' = [NoWork EXCEPT !.view = ctx.kernel_view, !.object = ctx.section_object]
  /\ ctx' = NoConnection
  /\ Goto(t, "teardown")
  /\ UNCHANGED <<device, mutex, access, files, req, resources, dpc>>

Teardown(t) ==
  /\ pc[t] = "teardown"
  /\ views' = views \ {work.view} /\ objects' = objects \ {work.object}
  /\ work' = NoWork
  /\ Goto(t, "release")
  /\ UNCHANGED <<device, ctx, mutex, access, files, req, handles, cursors, dpc>>

\* The rest of VsnWdmControlDeleteScaffold.
Unpublish(t) ==
  /\ pc[t] = "unpublish" /\ access = "free"
  /\ device' = "deleted"
  /\ Complete(t)
  /\ UNCHANGED <<ctx, mutex, access, files, work, resources, dpc>>

-----------------------------------------------------------------------------
(***************************************************************************)
(* VsnWdmControlConsumeFrame, called from the capture DPC.  It looks the    *)
(* connection up and consumes under the spin lock; without a connection    *)
(* it returns silence and changes nothing.                                 *)
(***************************************************************************)
DpcConsume ==
  /\ dpc.step = "idle" /\ access = "free"
  /\ device = "published" /\ ctx.connected /\ ctx.kernel_view # None
  /\ access' = "dpc"
  /\ dpc' = [step |-> "consume", view |-> ctx.kernel_view, generation |-> ctx.session_generation]
  /\ UNCHANGED <<device, ctx, mutex, files, req, pc, work, resources>>

\* ConsumeOneRingFrame has read its region; see VirtualMicRing.
DpcRelease ==
  /\ dpc.step = "consume"
  /\ dpc' = DpcIdle /\ access' = "free"
  /\ UNCHANGED <<device, ctx, mutex, files, req, pc, work, resources>>

-----------------------------------------------------------------------------
\* The steps of a request that take no lock.
Proceed(t) ==
  \/ ReleaseState(t)
  \/ CompleteConnect(t)
  \/ CreateSection(t)
  \/ ReferenceSection(t)
  \/ MapView(t)
  \/ InitialiseRegion(t)
  \/ Unwind(t)
  \/ CompleteDisconnect(t)
  \/ CleanupOwnerConnection(t)
  \/ CompleteQueryStatus(t)
  \/ ReadSnapshot(t)
  \/ Teardown(t)

\* Those that take the spin lock for a moment.
Fenced(t) == Publish(t) \/ Detach(t) \/ Unpublish(t)

DpcNext == DpcConsume \/ DpcRelease

Next ==
  \/ \E f \in Files : Create(f) \/ Close(f)
  \/ \E t \in Threads : DeviceControl(t) \/ CloseHandle(t) \/ DriverUnload(t)
  \/ \E t \in Threads : AcquireState(t) \/ Proceed(t) \/ Fenced(t)
  \/ DpcNext

(***************************************************************************)
(* A running thread runs on, and only the holder of the mutex runs; a      *)
(* waiter of the spin lock gets it if it is free again and again (it is    *)
(* queued); a DPC that has it is not preempted.  Nothing obliges a client  *)
(* to issue or close anything.                                             *)
(***************************************************************************)
Spec == Init /\ [][Next]_vars
FairSpec ==
  /\ Spec
  /\ WF_vars(\E t \in Threads : Proceed(t))
  /\ SF_vars(\E t \in Threads : Fenced(t))
  /\ WF_vars(DpcRelease)

-----------------------------------------------------------------------------
Connection ==
  [connected : BOOLEAN, owner_process_id : Processes \cup {None},
   owner_file : Files \cup {None}, session_generation : Generations \cup {None},
   kernel_view : Sections \cup {None}, section_object : Sections \cup {None}]

TypeOK ==
  /\ device \in {"published", "deleted"}
  /\ ctx \in Connection
  /\ mutex \in Threads \cup {None} /\ access \in {"free", "dpc"}
  /\ files \in [Files -> {"free", "open", "closing"}]
  /\ req \in [Threads -> [op : Ops, file : Files \cup {None}, process : Processes \cup {None},
                          generation : Generations \cup {None}]]
  /\ pc \in [Threads -> {"idle", "wait", "release", "connect", "section", "reference", "map",
                         "initialise", "publish", "unwind", "disconnect", "cleanup", "query",
                         "read", "detach", "teardown", "unpublish"}]
  /\ work \in [handle : Sections \cup {None}, object : Sections \cup {None},
               view : Sections \cup {None}]
  /\ handles \in SUBSET Sections /\ objects \in SUBSET Sections /\ views \in SUBSET Sections
  /\ cursors \in [Sections -> Generations \cup {None}]
  /\ dpc \in [step : {"idle", "consume"}, view : Sections \cup {None},
              generation : Generations \cup {None}]
  /\ \A t \in Threads : mutex = t <=> pc[t] \notin {"idle", "wait", "unpublish"}

\* The realtime path reads only a region that is mapped and was initialised for
\* the generation it is held against, whatever disconnects while it reads; and so
\* does a status query.
RealtimeReadsLiveSession ==
  /\ dpc.step = "consume" => dpc.view \in views /\ cursors[dpc.view] = dpc.generation
  /\ \A t \in Threads :
       pc[t] = "read" => ctx.kernel_view \in views
                         /\ cursors[ctx.kernel_view] = req[t].generation

\* Whichever call fails and whoever disconnects: between requests the only section
\* the driver keeps is that of the connection, and without one it keeps none.
NothingLeaks ==
  mutex = None =>
    /\ handles = {}
    /\ views = {ctx.kernel_view} \ {None}
    /\ objects = {ctx.section_object} \ {None}
    /\ ctx.connected <=> ctx.kernel_view # None

\* A connection ends, or gives way to another, only by the request of the process
\* and file object that made it, naming its generation, by the CLEANUP of that file
\* object, or by the unload of the driver.
EndsConnection(t) ==
  \/ /\ req[t].op = "disconnect"
     /\ <<req[t].process, req[t].file, req[t].generation>> =
          <<ctx.owner_process_id, ctx.owner_file, ctx.session_generation>>
  \/ req[t].op = "cleanup" /\ req[t].file = ctx.owner_file
  \/ req[t].op = "delete"
OnlyTheOwnerDisconnects ==
  [][ctx.connected /\ ctx' # ctx => \E t \in Threads : mutex = t /\ EndsConnection(t)]_vars

\* The mutex is always released, on every path of every request, while the DPC
\* takes the spin lock as often as it likes: no request is stuck behind another.
StateIsReleased == mutex # None ~> mutex = None

\* A connection does not outlive the file object that made it.
NoOrphanedConnection ==
  ctx.connected => files[ctx.owner_file] # "free"
=============================================================================
