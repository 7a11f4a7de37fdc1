# VSN Voice AI: formal models

TLA+ models of the parts of VSN Voice AI whose correctness depends on
interleavings, failures and limits, the TLC configurations that check them on
small instances, and TLAPS proofs of their safety properties for all values of
the constants. `PROJECT.json` maps every definition to the source lines it
translates, and lists the hazards of the code with the properties that cover
them.

To check a module: `tlc -config MCVirtualMicRing.cfg MCVirtualMicRing`. To check
its proofs: `tlapm VirtualMicRingProofs.tla`.

## 1. The system

VSN Voice AI turns a Windows microphone into a processed virtual microphone,
routes speech requests to providers, and lets an organization's members link
their desktops from a web page.

```
 microphone ─WASAPI→ capture runtime ─frames→ pipeline ─→ producer of the shared ring   user mode (Rust)
                                                             │  (section mapped by the control device)
                                                             ▼
 recording app ←PortCls/WaveRT─ capture stream ←timer DPC─ consumer of the shared ring   kernel (C++)

 realtime gateway (Go):  router ─reads→ provider registry ←writes─ circuit breaker
 web page (Next.js) ─proxy→ API (NestJS) ─SQL→ PostgreSQL;   desktop ─→ API
 coordination scripts (Python):  claims, leases and elections by Git references
```

### Inventory

Each row: what the component keeps, what it does, what is hard about it, and
what makes it correct. "Model" names the module.

| Component (sources) | State | Operations | Hard behaviour | Correct when | Model |
|---|---|---|---|---|---|
| Shared PCM ring (`native/windows-virtual-mic/include/*_protocol.h`, `cursor_sync.h`, `slot_sync.h`, `ring_consumer.h`, ...) | cursors, slot stamps, PCM, counters | publish a frame, consume a frame, read a status snapshot | two processes and a DPC without locks; unprotected PCM copies; overrun; end of the sequence space | no torn, repeated or uncounted frame | `VirtualMicRing` |
| Control device (`driver/vsn_virtual_mic_wdm_control_scaffold.cpp`) | one connection, a mutex, an access lock, a section | CONNECT, DISCONNECT, QUERY_STATUS, CLEANUP, unload, the DPC's read | partial failure of kernel calls; handles closed with requests in progress; reads at DISPATCH level | the DPC reads live memory, nothing leaks, only the owner disconnects | `VirtualMicControl` |
| WaveRT capture stream (`driver/vsn_virtual_mic_wavert_stream.cpp`, `*_contract.h`, `*_scheduler.h`) | stream state, timer, cyclic buffer, positions, notification event | allocate and free the buffer, SetState, GetPosition, register events, the timer DPC | DPC against stop, free and release; wrap-around; counter limits | no use after free, contiguous capture, agreeing positions | `WaveRtStream` |
| Capture runtime (`native/windows-audio/src/capture_runtime.rs`, `capture_pump.rs`, `device_notifications.rs`, `native/audio-core/src/stream_control.rs`) | stream controller, pump and session, bounded notification channel | start, stop, poll, retry timer, apply notifications | endpoints change during calls; notifications dropped; stale timers; a poll that fails half-way | numbering continues, retries end, a stale endpoint is announced | `CaptureRuntime` |
| Provider routing (`services/realtime-gateway/internal/provider/{registry,health,router,observability}.go`) | registry, breaker table, metrics | record success or failure, refresh, set rate limit, select, observe | two locks, reports overtake each other, clock | open circuits are out of rotation, metrics add up | `ProviderHealth` |
| Desktop link API (`services/api/src/device-link`) | table of exchange records | issue, list, inspect, revoke, consume | check-then-act over SQL, clocks of replicas, lost answers | used once, by its owner, answers stay true | `DesktopLink` |
| Desktop link page (`apps/web/components/workspace-desktop-link-panel.tsx`, `apps/web/lib/workspace-desktop-link-*`) | view, exchange, timers, inventory | submit, poll, cancel, edit, leave | answers out of order, local timer against the server, lost calls | what the page says is true of the record, no token stays past its end | `DesktopLinkPanel` |
| Other web panels (`apps/web/app/page.tsx`, `apps/web/components`, their clients in `apps/web/lib`) | the directory, the selection, one panel's form | refresh, select, load, edit, save | another organization selected with calls in progress; saves that arrive after the page gave them up | what is shown is the selected organization's, what was saved is stored | `WorkspacePanels` |
| Web session and proxy (`apps/web/lib/web-session.ts`, `api-proxy.ts`, the `auth` routes), token verification (`services/api/src/identity`) | two cookies per browser | login, callback, logout, proxy a call, verify a token | parallel tabs, late and lost answers, clocks that differ | a live session's token is accepted, a callback fails for a cause | `WebSession` |
| Workspace API (`services/api/src/workspace`, `organizations`) | memberships, profiles, preferences, organizations | directory, bootstrap, team, read, save, suspend, reinstate | the membership a request was authorized by may be gone when it acts; statements that fail or whose result is lost | only who manages the team changes it, a suspension takes effect | `WorkspaceApi` |
| Device selection, staging, reframing (`native/audio-core`, `native/windows-audio`) | preference, inventory; packets and frames | apply an inventory; push and pop | queues at their limit | order is kept, drops are counted | not modelled: one thread each |
| Driver start, region layout (`driver/*lifecycle.cpp`, `region_layout.h`) | registered subdevices | start and unwind; plan the region | partial failure; overflow of sizes | all or nothing; regions do not overlap | not modelled |
| Cost control, alerts, model registries (`services/realtime-gateway`) | snapshots; append-only registries | summarise, reconcile, dispatch; register | saturating arithmetic, bounded lists | totals bound their parts; nothing is overwritten | not modelled |
| Coordination scripts (`scripts/claim_slot.py`, `lease_control.py`, `supervisor_lease.py`, `coordination_mutation.py`) | queue and supervisor files, Git references | claim, heartbeat, release, elect, recover | crash between reference and file, lost updates, epochs | one holder per slot and epoch | not modelled |
| Bootstrap, configuration, tooling, schemas | none between runs | start, validate, package | none | | not modelled: wiring, one-shot file processing and data |

### How the parts interact

The client CONNECTs to the control device, which creates and initialises a
section and maps it on both sides; from then on client and driver share only
the ring. The WaveRT DPC asks the control device for one frame per tick
(`VsnWdmControlConsumeFrame`), which reads the connection under a spin lock and
consumes from the ring. `VirtualMicControl` therefore shows that the view that
the DPC reads is live and of the right generation, `VirtualMicRing` assumes one
such session, and `WaveRtStream` treats the frame of a tick as given. The
gateway's router and breaker meet in the registry, the web page and the desktop
in the table of records. The panel of the page is checked against
`DesktopLinkExchange`, the same abstract exchange that `DesktopLink` shows the
API to implement: neither needs the other's detail. Every call of the page goes
through the proxy with the session's token; `WebSession` says when that call is
refused as not signed in, and the panels' modules let any call be.

## 2. Modules

| Module | What it is |
|---|---|
| `RingProtocol` | arithmetic of protocol version 2: stamps, slots, the readable window |
| `LossyFrameQueue` | abstract: a queue that may lose what is more than `Capacity` frames behind |
| `VirtualMicRing` | the ring, one action per access to shared memory; implements `LossyFrameQueue` |
| `VirtualMicControl` | requests on the control device, step by step under the mutex, and the DPC |
| `WaveRtStream` | the calls of PortCls on a stream against the timer DPC |
| `CaptureRuntime` | the runtime with its controller, pump and notification bridge, and the endpoints of Windows |
| `ProviderHealth` | registry, breaker, router and metrics under several goroutines |
| `DesktopLinkExchange` | abstract: a record is issued, then consumed or revoked, once |
| `DesktopLink` | API requests, one action per access to identity, store and clock; implements `DesktopLinkExchange` |
| `DesktopLinkOutcome` | what the panel that links a desktop promises, over the state the promise speaks of |
| `DesktopLinkPanel` | that panel, its calls and timers, over `DesktopLinkExchange` |
| `WebSession` | the web server's login, session and proxy, the browser's cookies, and the API's judgement of a token |
| `Workspaces` | the constants that the workspace API and the page over it share |
| `WorkspaceApi` | the workspace routes, split between the statement that reads the membership and the one that acts |
| `WorkspacePage` | what the page promises of its selection, its panel and what the API holds |
| `WorkspacePanels` | the directory, the selection, and a panel of any kind with its calls |
| `WorkspacePanelsInvariant`, `DesktopLinkPanelInvariant` | the inductive invariants of the two pages |
| `MC*` | instances for TLC |
| `*Proofs` | theorems and proofs for the module of that name |

The proofs of the two pages stand beside those of the API they call:
`DesktopLinkProofs` has an instance of `DesktopLinkPanelInvariant`, `WorkspaceApiProofs`
one of `WorkspacePanelsInvariant`. The promises are modules of their own
(`DesktopLinkOutcome`, `WorkspacePage`) so that the model which TLC runs and the
theorem speak of one definition.

### State and actions against the code

**VirtualMicRing.** `producer`, `consumer`, `overrunDrops`, `underruns`, `stamps`
and `pcm` are the fields of the shared region. The client's publication is
`BeginSlotWrite`, `WritePcm` piece by piece, `CommitSlotWrite`, `PublishProducerSequence`; `ConsumeOneRingFrame` runs from the window plan
through the stamp check, the piecewise copy and the recheck; the cursor snapshot
retries `SnapshotAttempts` times. Every access of the code that is an
`Interlocked` operation is one action. PCM is copied in pieces in any order,
which is what an unprotected copy can do. A piece of PCM is represented by the
sequence of its frame. Words are 64-bit in the code and `2 * (MaxFrameSequence +
1)` here, so the last frame sequence and the stamp's lost bit are reached.

**VirtualMicControl.** A thread carries a request; `pc` says where it is between
two kernel calls, each of which may fail. The DPC holds the access lock from its
read of the connection to the end of its copy. The I/O manager sends CLEANUP when
the last handle is closed, whether or not requests are in progress, and CLOSE
when those completed.

**WaveRtStream.** One call at a time (PortCls serialises the requests of a pin),
split where it takes the stream's lock, flushes DPCs or deletes the timer; the
tick splits its copy where the buffer wraps. Sizes count blocks, a block is known
by its place in the capture.

**CaptureRuntime.** `controller`, `pump`, `nextSequence` are the runtime's
fields; `queue`, `dropped`, `held` the notification bridge. A call is split
wherever the system can act: endpoint lookup and opening, each packet of a drain.
Endpoints come and go, become the default, and their callbacks are delivered
late. The client is the one the interface asks for: one call at a time, a timer
for each retry it was told of, notifications applied with the endpoint of the
running session.

**ProviderHealth.** A report updates the breaker's table under `h.mu` and the
registry in a later critical section; between the two other goroutines run. The
router reads a snapshot of the registry. Providers are registered once.

**DesktopLink.** A request is authorized, reads the record, reads a clock that
may differ from the others by `MaxSkew`, decides on what it read, and writes with
one conditional UPDATE. Any store operation can fail before it took effect
(`Fail`) or after (`Tell`, `ConsumeIfIssued` with a lost answer). The token of a
record is represented by the record's id.

**DesktopLinkPanel.** `panel` is the state of the component, `call` the fetches:
one that was given up is no longer `awaited`, its answer finds nobody, but what it
asked for may still be done. The browser's clock (`due`) and the API's (`lapsed`)
pass the end of a record in their own time. `Issue`, `Inspect`, `Revoke` and
`ListLinked` are the API, each one step of `DesktopLinkExchange` or a reading of it;
an answer may be lost, fail, or have the wrong form after its effect.

**WebSession.** `cookies` are the browser's, shared by its tabs; a request carries
those it was sent with, and the answer sets them when it is received. `login` is the
identity provider's side: when the login began, its code, its token. Sealing a cookie
is represented by what it holds; a seal that does not open is an absent cookie. A
login's exchange reads the clock before the request to the token endpoint, as the
code does; the token is issued in between. The proxy's timer ends a fetch after
`ProxyTimeout`, and the API judges with a clock that is off by at most `Drift`.

**WorkspaceApi.** A request arrives, resolves the membership (`*Context`, one
statement), and acts (one statement). Every statement can fail; one that writes can
also commit and lose its result (`Committed`). `barred` remembers that the subject
was no active member when the request arrived and has not been reinstated since; no
guard reads it. Memberships appear by `Provision`, outside the code; nothing in it
deletes one.

**WorkspacePanels.** The panels share only the selection, so one panel of each kind
is followed in turn. Selecting, refreshing and signing out mount another panel; the
old one's calls go on. `stored` is what the API holds, with a mark when the last
write came from a page that was waiting for it.

## 3. What is checked

| Run | Instance and bounds | Distinct states | Shows |
|---|---|---|---|
| `ring` | capacity 2, 4 frame sequences, frames of 2 pieces, 2 snapshot attempts | 275,744 | the producer laps the ring twice and reaches the end of the sequence space: frames are whole, in order, exactly accounted; a query fails only under traffic; the ring implements `LossyFrameQueue`; a readable frame does not stay unread |
| `control` | 2 threads, 2 file objects, 2 processes, 2 generations, 1 section | 196,282 | the DPC and the status query read live memory of the right session; no resource leaks on any failure path; only the owner ends a connection; the mutex is always released |
| `control_orphan` | one file object | violation | see findings |
| `wavert` | frame of 2 blocks, buffers of 3 and 4, counters up to 11 | 16,741 | no use after free; contiguous capture over wraps and pauses; positions and notification counters agree up to their limit; the timer runs exactly with the stream; calls return; events are signalled |
| `capture` | 2 endpoints, channel of 2, 2 endpoint changes, 2 packets buffered, give-up after 2 opens, sequence limit 1 | 509,487 | numbering over reopening and failure; bounded and ending retries; stale endpoints are announced; no packet event is lost |
| `provider` | 2 providers, each reported on by one goroutine, threshold 2, cool-down 2, time up to 3 | 576,720 | the registry shows the breaker; an open circuit keeps its cool-down |
| `breaker_race` | 2 goroutines reporting on one provider | violation | see findings |
| `desktop_link` | 2 users, 1 record, 2 requests at a time, lifetime 1, skew 1, time up to 1 | 1,060,464 | last words stay true; the table's checks hold on skewed clocks; requests implement `DesktopLinkExchange` |
| `desktop_link_panel` | 2 records, 1 device, 2 calls at a time | 495,054 | linked, cancelled and expired are said of a record that is so; no token stays on the page past its end, and no state of being busy stays |
| `web_session` | 2 logins, 2 requests at a time, login and session of 1, tokens of 1 or 2, drift 1, skew 2, time up to 2, every configuration | 3,487,576 | a forwarded token is accepted; a callback is turned away only for a cause |
| `workspace_api` | 2 subjects, 1 organization, 2 requests at a time, three kinds of memberships | 995,277 | only an active manager changes a status, at the moment of the change; a suspension takes effect |
| `workspace_panels` | 2 organizations, 2 values and a malformed one, 3 calls at a time | 1,535,990 | only the selected organization is shown; what is said to be saved is stored |

**Why the bounds are enough to be interesting.** Each lets the rare case happen:
in `ring` the consumer is overrun, a slot is reused during a copy, and the last
sequence is published; in `wavert` a frame wraps in a buffer of three blocks and
the linear position reaches its limit; in `capture` an open fails while its
endpoint disappears, the channel overflows, and a frame meets the last sequence
number; in `control` a CLEANUP overtakes a CONNECT and each kernel call fails; in
`provider` a circuit opens, cools down and opens again; in `desktop_link` two
requests both find a record pending, on clocks one apart from the time, with one
membership suspended between the check and the write. In
`desktop_link_panel` a record is issued while the calls for the one before it are
not over; in `web_session` two tabs begin logins and meet each other's transaction,
a code is presented twice, and a token expires between its forwarding and its
judgement; in `workspace_api` two managers suspend each other at once, and a member
is suspended between the two statements of a request; in `workspace_panels` an
organization is left and selected again while a save for it is on its way. Three
calls suffice there: a panel waits for at most two at a time, and the third is one
that was given up. Larger instances are left
to the proofs. `desktop_link` has one organization and one device: a request for
another organization or device is denied by the same comparison as one of another
user, and the proofs hold for any of them. The two calls in progress are
interchangeable, which the symmetry of that run uses, as do `web_session`,
`workspace_api` and `workspace_panels`; none of them checks liveness.

`CHECK_DEADLOCK FALSE` appears in the `control` runs only: after the unload of the
driver, with every file object closed, nothing can happen.

Every property of a passing run has a mutant in `PROJECT.json`: a plausible bug
in a definition that the run then reports.

**Fairness.** `ring`: the consumer takes its steps, because the DPC timer fires
every 10 ms and each call is wait-free; nothing is assumed of the client.
`control`: a thread that can run does, a waiter on the queued spin lock gets it if
it is free again and again, a DPC finishes; nobody has to issue or close anything.
`wavert`: a call in progress goes on, also when the DPC takes the lock again and
again; an armed timer fires and its DPC runs. `capture`: calls of the audio client
return and set timers elapse; endpoints need not change, packets need not come.
`desktop_link_panel`: the browser's clock goes on, a timer that is due fires, and a
fetch is settled or throws, because the proxy gives up after its own timeout; no
answer has to come, and nobody has to cancel or consume.

### Findings

1. **An orphaned connection** (`control_orphan`,
   `vsn_virtual_mic_wdm_control_scaffold.cpp:476`). A CLEANUP that takes the mutex
   before the CONNECT in progress on the same file object finds no connection to
   tear down; the CONNECT then publishes one whose file object is gone, and later
   CONNECTs are refused until the driver unloads.
   `docs/architecture/WINDOWS-AUDIO-IMPLEMENTATION.md:255` says that the owning
   CLEANUP performs the teardown.
2. **An open circuit that is routed to** (`breaker_race`, `health.go:72`).
   `RecordFailure` releases its lock before it sets the registry: a report that
   counted one failure less can set "degraded" after the one that opened the
   circuit. `docs/architecture/NON-FUNCTIONAL-REQUIREMENTS.md:43` says that
   repeated failures open a circuit and stop realtime retries. With one reporting
   goroutine per provider the registry always follows the breaker, which is
   proved.

Remarks without a run. The profile panels report a draft that the client itself
refused as a response that did not fit; the organization's profile panel keeps an
unsaved draft on the page, read-only, when the save was forbidden; the linking page
can say "expired" of a record that the desktop consumed shortly before its end,
since the local timer stops the polls. And: `docs/data/VOICE-AI-DATA-FLOWS.md`, section 6, says that
unlinking a device is supported; the API revokes pending exchanges only, and has
no operation on a linked device.

## 4. What is proved

All theorems hold for every value of the constants under the assumptions stated
with the constants (positive sizes, `None` distinct from real values). Each proof
goes by an inductive invariant `IInv`, or one built of named parts: `Init => IInv`, `IInv /\
[Next]_vars => IInv'` with one lemma per action, and `IInv => Inv`.

| Module | Theorems | The invariant, and why it is needed |
|---|---|---|
| `VirtualMicRingProofs` | `TypeCorrect`, `FramesAreWhole`, `FramesInOrder`, `AccountingIsExact`, `OutputIsSilenceUnlessOk`, `QueriesFailOnlyUnderTraffic`, `RingImplementsLossyQueue` | A stable stamp means the slot holds that frame whole; each copied piece is the awaited frame's or the stamp has moved on; the window planned stays behind the producer. Wholeness alone is not inductive: it depends on what was copied before a slot was reused. |
| `VirtualMicControlProofs` | `TypeCorrect`, `SessionIsLive`, `ResourcesAreReleased`, `OwnershipIsRespected` | Who owns object, view and handle at each step of a request; outside the mutex exactly the connection does; what the DPC read stays mapped while it holds the access lock. |
| `WaveRtStreamProofs` | `TypeCorrect`, `TickIsSafe`, `SchedulerFollowsState`, `PositionsStayTogether`, `CaptureStaysContiguous` | Which of timer, flag and state agree at each step of a call and each step of a tick; the buffer holds the capture's blocks behind the position, the part just written included. |
| `ProviderHealthProofs` | `TypeCorrect`, `RegistryFollowsBreaker`, `CoolDownKept` | What a report in progress is about to write is what the breaker says. `RegistryFollowsBreaker` assumes that reports on a provider are not concurrent; `CoolDownKept` does not. |
| `CaptureRuntimeProofs` | `TypeCorrect`, `SequencesContinue`, `RetriesEnd`, `StaleStreamsHearOfIt`, `PacketsAreSignalled` | The call in progress and the pump fit the controller's state; every change of the endpoints since a session was opened is still on its way to it or was counted as dropped; the packets, their event and what a drain left behind belong to one session and are gone with it, since a new session would otherwise begin with packets that nobody signalled. |
| `DesktopLinkProofs` | `TypeCorrect`, `LastWordStays`, `Refinement`, `LinkedOnce` | A row that a request read stays true of the record, except that an issued one may have been decided; only the request that minted an id inserts it. Without it a decision on a stale row could contradict the table. |
| `DesktopLinkProofs`, the panel | `PanelInvariant`, `PanelIsTruthful`, `PanelRefines`, `OutcomesStand` | An awaited poll is for the record whose token is shown, an awaited cancellation for the record the panel speaks of, and there is one of each submission and cancellation. What an answer says of a record stays so until it is shown, since consumed, revoked and past its end are for good; a list that is awaited while the panel says linked was asked for after the device was. `OutcomesStand` adds that a panel which tells an outcome holds no token and waits for no cancellation: so no timer, poll or late answer can take the outcome back. |
| `WebSessionProofs` | `TypeCorrect`, `NeverSentBackToSignIn`, `LoginsFailForCause` | A session, wherever it is held (cookie, request or answer), ends no later than the token of its login; a forwarded request had a live token at most `ProxyTimeout` ago; the browser's transaction, and that of every callback under way, is the login's own unless there is a cause. A session in an answer that is still under way is where it would otherwise be lost. Assumes `ProxyTimeout + Drift <= Skew`. |
| `WorkspaceApiProofs` | `SuspensionTakesEffect`, `ManagersStayManagers` | What a request remembers of its membership: if it allows to manage the team, the row still does, since an update touches only rows with ordinary permissions; if the request is barred, the row was not active. |
| `WorkspaceApiProofs`, the page | `PanelInvariant`, `PanelShowsTheSelected`, `SavedFormIsHeld`, `SavesGoToTheSelected` | An awaited call was made for the panel's organization, which is the selected one if the directory confirmed it; an awaited load means a form that is still loading, an awaited save one that is being saved, and there is at most one of each. A save that was answered is what the API holds, unless a write that no panel waited for came after. Without the uniqueness of the awaited save, an answer could report a text that an overtaking save had replaced. |

Three refinements are proved: the ring implements the lossy queue, and both the
API's requests and the panel with its calls implement the one-time exchange.

The two inductive invariants of the pages were checked by TLC before they were
proved, on the instances of the runs `desktop_link_panel` and `workspace_panels`.

**Left to TLC.** Every safety property of a passing run is also a theorem. What
is only model-checked is liveness under fairness, which needs ENABLED:
`FramesLeaveTheRing`, `StateIsReleased`, `CallsReturn`, `NotificationsArrive`,
`RecoveryEnds` and `TokenIsCleared`. `OutputIsSilenceUnlessOk`, `LinkedOnce`,
`SavesGoToTheSelected` and `OutcomesStand` are the other way round: proved, and not
a property of a run.

## 5. Assumptions

- PortCls serialises the calls on one pin; the I/O manager sends CLEANUP and CLOSE
  as documented; the kernel's mutex, spin lock, section and timer calls keep their
  contracts.
- `session_generation` does not change during a session, and there is one producer.
- The client of the capture runtime calls it from one thread, keeps the timers it
  is told of and knows the endpoint of its session.
- Providers are registered before routing starts; record ids are fresh; a token's
  digest matches its own record only.
- PostgreSQL runs each statement atomically; clocks of replicas differ by a bounded
  amount.
- The clocks of the web server, the identity provider and the API differ so little
  that a token forwarded at its end is still within the verifier's skew
  (`SkewAssumption`): that is the deployment's to grant.
- Memberships are added by the operator of the service and are not deleted while
  requests run.
- Memory order: each `Interlocked` access is sequentially consistent, as on the
  platforms of the driver; PCM copies are not ordered among themselves but stay
  between the accesses around them.

## 6. Not modelled, and the plan

Left out for good: audio samples and their statistics, wave formats, engine
periods, HTTP, JSON and SQL encoding, configuration parsing, logging, JSON schemas,
packaging and verification scripts. Sequential code whose functions keep no state
between calls, or are owned by one thread, is left to unit tests: device selection,
staging and reframing, cost control, alert sinks, the model registries.

Hazards that are known and have no property:

- Concurrent `SetState` calls on one stream would act on the same stale state
  (`vsn_virtual_mic_wavert_stream.cpp:577`); PortCls serialises them, so the model
  has one call at a time.
- A retry timer of the capture runtime carries no identity
  (`stream_control.rs:179`): one that outlives a stop and a start shortens the
  first delay of the next run, and nothing else.
- A desktop link's expiry is decided by a clock read before the update and passed to
  it (`desktop-link.service.ts:281`): a consumption can commit after the end of the
  record by as much as the update takes. `DesktopLink` has this behaviour and does
  not forbid it.
- The driver's start and the coordination scripts, below.

What is left, in this order:

1. `DriverStart`: registration of the two subdevices with its unwinding
   (`vsn_virtual_mic_portcls_lifecycle.cpp:119`), and the plan of the shared region,
   proved not to overlap or overflow.
2. `Coordination`: workers and supervisors over Git references and files, with
   crashes between the two and lost updates (`supervisor_lease.py:123`,
   `claim_slot.py:162`); abstract specification: one holder per slot and epoch,
   fencing tokens that only grow.
3. A composition of control device and ring: sessions that are torn down and
   reconnected while the DPC consumes, implementing one lossy queue per session.
