# QuestCalibrator: verification project

TLA+ modules, TLC configurations and TLAPS proofs for the code of this
repository: what its concurrent and crash-prone parts promise, checked on small
instances and, for the safety properties, proved for every value of the
constants.

1. [The system](#1-the-system): inventory of components, state, interactions
2. [The modules](#2-the-modules): what models what, and how it corresponds to the code
3. [The runs](#3-the-runs): bounds, and what each run shows
4. [Fairness](#4-fairness)
5. [The proofs](#5-the-proofs)
6. [Where the code departs from what it says](#6-where-the-code-departs-from-what-it-says)
7. [What is not modelled](#7-what-is-not-modelled)
8. [Plan](#8-plan)

Files: a component `M` is `M.tla`; `MCM.tla` with one or more `.cfg` instantiates
it for TLC (`tlc -config MCM.cfg MCM`); `MProof.tla` holds its theorems
(`tlapm MProof.tla`).  `PROJECT.json` relates every definition to the lines it
models, every property to the run that checks it and to a mutated definition
that breaks it, and lists the hazards the properties are for.

---

## 1. The system

Nova Calibrator aligns the tracking space of an inside-out headset with that of
lighthouse devices.  Two processes share the work.

* The **driver** is a library inside vrserver.  It hooks the pose update of every
  device driver, publishes the raw poses to a shared-memory ring, composes the
  calibration onto the poses that go on to SteamVR, and serves the overlay's
  requests on a named pipe.
* The **overlay** is a GUI process.  A drain thread reads the ring, the main loop
  runs calibrations, watches for re-centers, moved base stations and drift,
  keeps the profile in the registry, and keeps the driver's state equal to the
  profile through a worker thread that owns the pipe.

```
 vrserver process                                   overlay process
 ---------------------------------------            ----------------------------------------
 device drivers --pose--> hook detours              drain thread (PoseStreamHub)
   (any thread)             |  | publish               | Open/Drain, every 2 ms
                            |  +--> PoseRingWriter ==shared memory==> PoseRingReader
                            |                          | streams: samples, gaps, boundaries
                            v                          v
                  runtimesnapshot::Read             main loop: CalibrationTick, monitors,
                            ^                          detectors, UI, PersistenceTick
                            | seqlock                  | wanted state     | records
                   IPC thread (IPCServer) <==pipe==> DriverWorker      registry
```

### Components

For each: the state it keeps, what it does, whom it talks to, what is hard about
it, and what makes it correct.

**Pose ring, data path** (`common/PoseRing*.h`).  A bounded queue in shared
memory: slots with a sequence word, a failed-drop marker and a payload; enqueue
and dequeue positions; a claim lock for producers; a packed pending-drop word
(generation, count); a discard sequence and loss count.  Pose threads publish
without waiting; when the ring is full the oldest completed slot is discarded;
a publish that can neither claim nor discard is counted for a later slot to
carry.  One reader delivers samples and reports losses.  *Hard*: plain memory
shared by threads of two processes, three parties that take slots from the head,
counts read in several loads, a reader that dies with a slot taken.  *Correct*
when no slot is copied by two parties at once, a delivered sample is whole, every
publish is delivered or counted lost exactly once, each loss is reported between
the right two samples, and no failure blocks producers for ever.

**Pose ring, sessions** (`PoseRingWriter::Create/Close`,
`PoseRingReader::Open`, `PoseStreamHub::DrainRing`).  The mapping's owner (process
id, creation time, active flag), session epoch, the reset gate and its reader
count, a named mutex.  vrservers create, reuse, reset and retire the mapping;
overlays open it, verify its owner, and leave it.  *Hard*: either process dies at
any instruction and leaves its words behind; process ids are reused; the mapping
lives as long as anyone holds it.  *Correct* when a queue is never rewritten under
a reader, a live owner keeps its identity, the hub never joins two sessions, and
leftovers never keep a running pair apart.

**Driver lifecycle and hooks** (`ServerTrackedDeviceProvider`,
`InterfaceHookInjector`, `Hooking`, `HookLifecyclePolicy`).  The published driver
pointer, the accept flag, ready flags per host version, the count of callbacks
inside, the setup mutex, MinHook's state.  Init, RunFrame and Cleanup on
vrserver's main thread; detours on any thread; installation inside any thread's
GetGenericInterface.  *Hard*: detours outlive checks, an install that began before
a teardown, a failed disable, a wait that times out, several versions that forward
to each other.  *Correct* when a publish always finds the ring mapped, ready flags
name real hooks, nothing is hooked after Cleanup unless MinHook refused, a pose is
transformed once, and Cleanup returns.

**Runtime state snapshot** (`RuntimeSnapshot.h`, `AtomicSnapshot.h`,
`TrySetRuntimeState`).  A sequence word, per-device slots and the field, all
relaxed atomics; the last good pair per device.  The IPC thread stores a
transaction; pose callbacks read without locks, retry, and fall back.  *Correct*
when what is composed is one transaction's state, never an older one, and the
last one once requests stop.

**IPC server and protocol gate** (`IPCServer`, `IPCProtocolGate`,
`IPCFramePolicy`).  The pipe instances with one OVERLAPPED each, the listener and
its connect, stop flag and event.  One thread, completion routines in alertable
waits, an idle sweep, a cap, a version gate.  *Hard*: what the kernel still owns
after a cancel, a drain that waits for completions, a listener that cannot be
made, connections that go quiet.  *Correct* when no OVERLAPPED is freed or reused
while owned, the cap holds but stale connections never refuse the overlay, a silent peer
and a lost listener are noticed by a deadline,
only the right version's requests are dispatched, and Stop returns with nothing left.

**Driver link** (`DriverWorker`, `DriverSession`, `DriverSyncTracker`,
`CalibrationDriver.cpp`, `IPCClient`, `FrameRecovery`).  The overlay's wanted
state, the worker's one-deep queues and its neutralization hold, submissions and
verdicts with sequence numbers, the driver session each names, the driver's slots
and frame checkpoint.  The UI thread submits, the worker sends with one reconnect
and replay, completions are polled, a 1 Hz scan reasserts.  *Hard*: answers that
arrive late, twice, or of a driver that has died; a run that needs two slots
neutral while states are queued; quitting with requests outstanding; values the
driver refuses.  *Correct* when a measurement never sees a calibration, a held
verdict tells the truth about the driver, refusals are not retried into view, and
lost requests are repaired.

**Persistence** (`PersistenceState`, `PersistencePlan`, `RecordGates`,
`Configuration.cpp`, `ProfileRecordJson`).  Two registry values, Config
(calibration) and Settings (settings and the protected room), a revision that ties
them, dirty bits and a debounce, gates for unreadable records, a migration from
releases that kept everything in Config.  *Hard*: two writes are not one; each can
fail; the process can die between them; a record can be unreadable once.
*Correct* when a room of one universe is never restored beside a calibration of
another, user settings survive migration and failures, and what changed is written.

**Headset universe** (`CalibrationSpace.cpp`, `UniverseVerdict`,
`ChaperoneMath`, `LocalPoseContinuity`) and **jump detection** (`JumpDetector`,
`RingPoseMath`).  The headset's `worldFromDriver` (WFD), its transitions and the
compensated samples, the profile's WFD, the room's, and the detector's candidates,
holds and deltas.  A re-center is followed by a compensation, unexplained (then the
calibration is latched off), or re-anchored from the room.  *Hard*: two consumers of one
stream, each at its own place in it, find the explanation and the transition; they
come in either order, within a grace period, around losses, runs and other
transitions.  *Correct* when a calibration in force has moved exactly as the raw
universe did, a room that may be restored stands where it was captured, nothing that
could be followed is latched off, and nothing stays undecided.

**Calibration run** (`Calibration.cpp`, `CalibrationRun.h`,
`CalibrationSolve.cpp`, `CollectionSource.h`).  None, Begin, Neutralizing,
Collecting, solving, done; sources are the ring or runtime poses.  A run on a live
profile measures in the *normalized* space: it captures the target's frame correction N
with its first sample and expresses the result so that C after N undoes the frame.
*Hard*: base stations are re-solved while the run collects; run and monitors drain one
stream at different moments of a tick; N goes on changing after it was captured.
*Correct* when what is applied reads right on the last sample it was measured with, and
a run is stopped for its frames only when a frame could not be followed.

**Pose stream hub** (`PoseStreamHub`, `RingSampleGate`, `StreamEvents`,
`TrackingStreamDigest`).  One history that the drain thread appends to and overwrites,
and a cursor per consumer: a consumer's drain copies in chunks and lets go of the mutex
between them, so that the drain thread never waits for a long copy.  *Hard*: the history
is overwritten, a loss is marked, or every cursor is moved by a session boundary between
two chunks of one drain.  *Correct* when each consumer sees an ordered channel whose
losses are counted once, in front of the next sample.

**Tracker frame corrections and recovery** (`TrackerFrameCorrections`,
`FrameRecovery`).  A rigid correction per tracker for base stations that moved,
valid for one driver session; a checkpoint in the driver lets a restarted overlay
recover it.  Moves are followed in time order, a device that came into a frame with
no move to follow joins those already there.  *Correct* when a tracker's correction undoes
the frame it is in, unless that frame could not be followed.

**Lighthouse frame watch** (`LighthouseFrameWatch`, `LighthouseLog`,
`LighthouseVisibility`).  Each device's last frame, moves and switches of frame, changes
of devices that cannot vouch for them, which wait for another device to report the move.
*Hard*: the proof of a move comes after the sample it is needed for, beside later
moves, disconnections and changes of station.

**Continuous correction, drift and alignment monitors**
(`ContinuousAlignment`, `ContinuousCorrectionGate`, `CalibrationContinuous`,
`DriftMonitor`, `CalibrationMonitor`).  Evidence about the current calibration that
a new calibration or a boundary must clear, and a gate on automatic corrections.

**Updater** (`Updater`, `UpdatePolicy`, `UpdateSignature`).  A check thread,
enable/disable/check-now from the UI, downloads verified before they run.

**Protocol validation**, **calibration engine and geometry**, **driver pose
transformation**, **user interface**, **diagnostics**, and the tests, installer and
vendored libraries complete the list in `PROJECT.json`.

---

## 2. The modules

One action is one atomic step of the code: a single access to shared memory where
threads share plain or atomic words (`PoseRing`, `PoseRingSession`,
`HookLifecycle`, `RuntimeSnapshot`), one critical section, request or handler where a
lock or a single thread makes the rest invisible (`IPCServer`, `DriverLink`), one
registry write where only a crash can fall in between (`Persistence`), one locked
section or one copied entry (`PoseFanout`), one sample or one decision of the tick
(`Universe`).  Definitions keep the source's names.

### PoseRing

State: the words of `struct PoseRing` (`seq`, `fdb`, `payload`, `enq`, `deq`,
`discardSeq`, `discardedLoss`, `claimLock`, `pending`, `epoch`), each producer's
place in `PublishImpl`/`TryDiscardOldest` (`ppc`, `tick`, `pfail`, `dpos`), the
reader's place in `DrainImpl`, `TrySnapshotDiscardState` and
`EmitTerminalGapIfEmpty` (`rpc` and its locals), and history variables of what
callers saw.  A sample is the position it was claimed at, so a torn, previous-lap or
misplaced sample is a wrong number.

`NewSession` is a writer that died anywhere and was replaced; `ReaderCrash` an overlay
that died anywhere, perhaps owning a slot (`leaked`).  Accesses are sequentially
consistent: the ring is built for x64 only, where the code's acquire/release pairs
are plain moves and every compare-and-swap is a full fence; store buffering could only
delay a store the code publishes with a later release store of the same thread.
Positions are naturals, not 64-bit words.

### PoseRingSession

State: who holds the mapping, its identity words, gate, reader count and epoch, the
named mutex, each vrserver's place in `Create`/`Close`, the overlay's place in
`Open`/`Drain`/`DrainRing`, and the session each end of the hub's stream belongs to.
A process is an id (reused) and an incarnation (its creation time).  `CrashWriter` and
`CrashOverlay` are enabled at every step.  An abandoned mutex lets the next writer in.
Retry periods are the nondeterminism of when a step is taken.  A creator that cannot open the process
of the id it finds, or not ask when it was created, takes it for the writer (`ExistingWriterUnknown`).  Its specification is `SessionSpec`, so
that `PoseStreamProof` extends it beside `PoseFanout`.  The queue inside is
`PoseRing`; the interface between the two modules is `NewSession`, which `PoseRing`
takes only with the reader idle: that is `ResetExcludesReaders` here.

### HookLifecycle

State: `Driver`, `accepting`, `ready`, `enabled` (what MinHook has patched),
`counted` (threads inside a `CallbackGuard`), the setup mutex, the main thread's place
in `Init`/`Cleanup`, each pose thread's place in `ForwardPoseUpdate` and which versions
its pose has passed, each requester's place in `TryInstallPoseHook`.  Every MinHook
call and the ring's creation may fail; the idle wait may give up.  One device is
enough: mutex and transform are per device.  Its specification is `LifecycleSpec`
(`FairLifecycle` with fairness), so that `DriverProof` extends it beside `RuntimeSnapshot`.

### RuntimeSnapshot

State: the sequence, memory words (two per slot and two for the field), the
transaction in flight, each callback's place in `runtimesnapshot::Read` with its
attempts, its last good pair, and the frame record it shares with the IPC thread.  A
word's value is the transaction that wrote it, so a mix of transactions is visible
whatever the numbers are.  Stores of a transaction happen in any order, of which the
code's is one.

### IPCServer

State: the main thread's phase, the server thread's place, stop flag and event; the
listener, what the code believes of its connect (`listenerConnectPending`) and what is so
(`connectOwned`, `connectEvent`, `connectFailed`); and per instance: exists, closing, idle,
cancelled, the state of its operation, its completion, `handshakeComplete`.  Deleting an
instance (`ClosePipeInstance`) leaves its operation as it is: only a routine that has run
(`Begin`, `EndAndClose`) ends one, so an instance deleted too early shows.  Peers
and the kernel are the environment: a connect, read or write ends any way it can, a
peer may be of the same or another version, and the connect's event may be seen before
its storage is given back, for which `RunThread` provides (`ERROR_IO_INCOMPLETE`, `ConnectSignals`).
A connection is taken, refused or fails (`Accept`, `RefuseConnection`, `AcceptFails`) by the count
of those not reaped (`Open`).  Frames are handshakes, state requests, or
broken; probes and unknown requests have no effect and are like a refused request.

### DriverLink

State: the driver (session, what its slots show, frames, neutral slots, checkpoint),
what the hub knows of it, the pipe, the worker's queues and place, and the UI thread's
place in its tick with the run, the wanted profile, frames, and the verdict tracker.
A calibration is a member of `Profiles`; frame corrections are identified with the
driver session they were measured in.  Actions: the worker's `TakeNeutralization`,
`TakeState`, `Connect`, each request's answer, lost answer (the driver acted, the overlay
did not hear) or dead pipe, `Post`; the UI's poll of one completion, monitor handlers
(`StartFrameSession`, `FollowMove`, `MovesOverflow`), `Scan`, the run's steps, cancel,
quit; the driver's start and death and the hub's view of them; an overlay crash.

Assumed: the hub drops a dead writer's ring before the next driver serves (SteamVR
takes seconds to start, the hub polls its writer every 2 ms); the driver handles requests
of one connection in order on one thread.

### Persistence

State: both records as the registry holds them, the overlay's memory (profile, room,
whose settings), load states and gates, revision, dirty bits and debounce ages, the
migration latch, and the save under way as the list of records it has still to write.
A calibration or a room is identified with the universe it is expressed in; global
settings with whether they are the user's.  Actions: `Launch` (with the plan of
`PersistencePlan` made of what is found, each record readable or not), `Loaded`, each
write's success and failure, every operation that changes a record, the tick, quit,
crash.  `RevisionMismatch`, `PlanRevision` and the gates are operators translated from
`PersistencePlan.h` and `RecordGates.h`.

Abstracted: which fields a record has, its JSON and validation; auto-apply; the owner
check of the room (a choice per launch); UI preview; the one-time import from the former
registry key.  A calibration latched unsafe is one whose universe is not the headset's.

### Universe

A pose is one integer: the WFD `w`, where the raw universe lies `u`, and a driver-local
pose `u - w`.  What the code asks of a transition is asked of these: the composed pose
continues (`u` stays: the driver re-expressed its local pose), the local pose continues
(`u - w` stays: a re-base), or neither (a map switch).  A sample stands for a stretch of
adjacent samples, and is good, not tracking, late, or the first after a loss or a session
boundary.

State: the stream and the positions of its two consumers, the ring and the boundary not
yet dispatched, the jump detector (continuous history, heuristic candidates of the
headset, accepted deltas), the space (`hmd`, the transitions of this batch), the verdict
(transitions, compensated samples, grace period, waiting), the run, the profile (WFD,
calibration, unsafe) and the room (WFD, position, verified, auto-apply).  One tick is
`Park`, or `MonitorDrain`, `PushSample` and `ApplyDelta` until the batch is done; then
`SpaceClosed` or `SpaceDrain`; then one of `JudgeClear`, `JudgeStale`, `JudgeBind`,
`Judge`, each ending in the room's turn.  Samples are published between ticks and between
the two drains.  Candidates ripen, are confirmed or dropped at any moment of the push:
the thresholds that decide it are left out.  The user captures a room, starts, ends and
finishes runs between ticks.

Assumed: the raw universe moves only with the WFD (a move of the raw pose alone is the
detector's own judgement, and the verdict never sees it); the same losses are in front of
both consumers (only an overflow of the history could tell them apart); transitions
remembered stay below their cap of 32.  Left out: whose headset and tracking system a room
belongs to, the runtime-pose fallback, SteamVR's chaperone transaction.

### PoseChannel and PoseFanout

`PoseChannel` is what the header promises a consumer: samples in publish order, every
loss counted once and in front of the sample that follows it, a hole that spans calls
until a sample closes it, a session boundary that skips to now and marks the hole, a
batch that ends with what was published when the call began or at the first new loss.
`PoseFanout` is the code: entries with running counts in a history of fixed capacity, a
cursor of three positions per consumer, and a drain as its locked sections and copied
entries.  The refinement mapping reads the channel's variables off the cursors: what is
unread begins at the cursor or, if that was overwritten, at the oldest entry retained.

The drain thread appends a whole batch under the mutex; the model appends entry by
entry, which only adds behaviours.

### TrackerFrames and CalibrationRun

`TrackerFrames` is operators only: what `LighthouseFrameWatch` makes of a sample (`Note`,
`Infer`, `Expire`) and what `TrackerFrameCorrections` does about it (`Follow`, `Join`).
`CalibrationRun` gives them a state: SteamVR's stations (`err`, where each is held against
where it stands), the station each tracker is reported in, the samples neither consumer has
drained, the watch, the corrections, the profile, the run.  One tick is
`RuntimeMonitorTick`, then `CollectFromPoseRing` or `FinishCalibration`; samples published
between the two are the run's one tick before they are the monitors'.  SteamVR re-solves a
station (`Move`), trackers track, jump, change station or are switched off; the profile is
switched on and off; a run is begun and cancelled.

A rigid transform is `x |-> r*x + t` with `r` 1 or -1 and `t` an integer, which is enough
for transforms that do not commute, and every composition is the code's, with the
calibration's scale.  A sample says its frame and whether the device went on along
its trajectory (`smooth`): with the frame that decides the code's three kinds of change.
Samples of one frame measure it exactly; a run finishes with the frame of any of
its carried samples.  Times are publish order; how long a change waits for a proof is
nondeterministic (`Expired`), but no longer than a collection lasts (`Outlasted`).

`corrections.lost`, `watch.dropped` and `run.unsettled` are history: the trackers whose frame
the code cannot have followed (left alone during setup, refused as older than one
followed, a waiting change ousted by a newer, no move to follow and nobody to join), which the
properties make no claim of.  A tracker loses the mark when it joins one that reads right.
`News` drops samples that repeat what the monitors know.

Left out: field anchors, the runtime-pose source, the hub's queue limits, parked corrections
and their slots, session boundaries (`DriverLink` has frames begin and end with a session),
messages and deadlines.  Three oddities the model shows and the properties allow for: a move
followed past a change still waiting leaves that change to be refused when it is read; aligning
the other trackers with a finished run does not ask whether their frame is settled, as
`Join` does; N captured while a change of the target waits costs the run.

### How the modules compose

| interface | modules | what one assumes of the other |
|---|---|---|
| a writer reset excludes drains | PoseRing, PoseRingSession | `NewSession` needs `rpc = "idle"`; `ResetExcludesReaders` proves it of the gate |
| the ring is mapped under a publish | PoseRing, HookLifecycle | producers always have a mapping; `RingMappedUnderPublish` |
| requests reach the driver's state one at a time | RuntimeSnapshot, IPCServer | one IPC thread stores transactions; the server has one thread and `StoppedIsClean` |
| state requests are gated | DriverLink, IPCServer | the link starts a connection with a handshake; `DispatchGated` |
| the hub sees boundaries | DriverLink, PoseRingSession | `HubOpens`, `HubSeesDeath` are the hub's view of a session; `SessionsSeparated` |
| what a re-center does | Persistence, Universe | Persistence lets it be followed, latched, re-anchored or disarmed at any moment, with the room moved beside the calibration; Universe decides which, and `CalibrationFollows` and `RoomFollows` say the move is the right one |
| a consumer's stream | Universe, PoseFanout | Universe's batches end in front of a loss, and a boundary skips both consumers to now: `PoseChannel` |
| when a run collects | CalibrationRun, DriverLink | a run collects only with both devices neutral (`NeutralWhileMeasured`); what it applies is the scan's wanted profile |
| two consumers in one tick | CalibrationRun, PoseFanout | monitors and run each see the same samples in order, as far as published at their own drain |
| a delta reaches the driver | Universe, DriverLink | each compensation is a submission (`Scan`'s wanted profile) |

---

## 3. The runs

Every run ends without truncation.  `CHECK_DEADLOCK FALSE` stands in the
configurations of the ring, the session, the hooks, the snapshot, the fan-out and the calibration,
whose bounded numbers of starts, publishes, samples or transactions come to an end, as the real ones may.

| run | instance | distinct states | what it shows |
|---|---|---|---|
| `ring` | 2 producers, 2 slots, 3 publishes a session, 2 sessions, 1 overlay death in a drain, `FairSpec` | 255 k | no slot race, whole samples, every loss counted and in place; publishes return, everything is accounted for |
| `session` | 2 process ids, 2 vrserver starts, 2 overlay starts, `FairSpec` | 182 k | resets exclude readers, owners are named, sessions separated, pairs reconnect |
| `hooks` | 1 pose thread, 2 requesters, 2 versions, 2 Inits, `FairSpec` | 500 k | no publish without a ring, nothing hooked after Cleanup, one transform, teardown returns |
| `snapshot` | 1 device, 2 attempts, 2 transactions, `FairSpec` | 96 k | coherent, eventually current; the log record is exclusive |
| `ipc` | 2 instances, cap 1, peers of the driver's version, `FairSpec` | 94 k | ownership of OVERLAPPEDs, only connections in use refuse; Stop returns, a lost listener and a silent peer are noticed |
| `link` | an accepted and a refused profile, 1 driver session, 1 flake, 1 choice, `FairSpec` | 767 k | neutral while measured, verdicts truthful, refusals hold; a run is answered, lost requests are repaired |
| `link_reach` | 1 profile, 2 sessions, `FairSpec` | 36 k | **violation**: a verdict of a dead driver shuts out the next (section 6) |
| `persistence` | 2 universes, revisions to 3, 3 faults, 1 unreadable launch, `FairSpec` | 1.02 M | rooms match, settings survive, changes are written |
| `universe` | worlds 0 to 2, 3 samples or incidents, short losses and bad samples, `FairSpec` | 820 k | calibration and room follow what could be followed, the rest is decided |
| `fanout` | 2 consumers (symmetric), 3 slots, chunks of 1, 5 entries, 2 losses | 1.30 M | each consumer sees the channel of `PoseChannel` |
| `calibration` | 2 trackers, one the headset's, 2 stations (symmetric), a turn and a shift, 3 samples, 2 re-solves, 2 incidents | 2.11 M | corrections follow the frames, what is applied reads right, runs are stopped for cause |
| `persistence_unreadable` | revisions to 2, no fault, 1 unreadable launch | 45 k to the violation | **violation**: an old room beside a new calibration (section 6) |

Why the bounds are enough.

* **Ring.** Two slots are the fewest the code allows (`Capacity >= 2`); with three publishes per
  session the ring wraps, is full with a completed head, full with an in-flight head,
  and is contended.  Two producers suffice because everything but the copy and the
  publishing store is under the claim lock, and the proofs cover any number.  A second
  session shows the baseline of `observedDiscardedLossCount`.  A discard of a slot that itself
  carries a marker needs more publishes than three: for that case `NothingUncounted` and
  `GapBeforeSample` rest on the theorems `Uncounted` and `GapsInPlace`.
* **Session.** Two ids and two incarnations make an id that is reused and a rival that is alive;
  two overlays make a leaked reader count.
* **Hooks.** Two requesters race one install against another and against teardown; two versions
  forward to each other; two Inits give a retry after a failed one.
* **Snapshot.** Two attempts reach both retry and fallback; two transactions over a slot and the field
  let a read straddle two.
* **IPC.** A cap of one with two instances has one open or closing beside one arriving.
  A version matters to `DispatchGated` only, which is proved (`Gate`) for peers of both; with
  both the safety properties were checked too (334 k states), and with three instances under a cap of two
  (927 k); the proofs cover any number.
* **Link.** Sequence numbers to 1 with a flake allow a retry and its predecessor in flight.  One choice is
  any one of a run, a move, an overflow or a quit; the scan's numbering starts again when nothing
  is outstanding.  A driver and its replacement are two sessions: `link_reach` has them, and the
  proofs of the three safety properties hold for any number of sessions, flakes and choices.
* **Universe.** Three worlds are two changes, so that one can come while another is unexplained,
  timed or held.  Three events are those two changes with a loss, a bad sample, a boundary, a
  run or a capture before, between or after them; the two consumers may stand anywhere in
  them.  `Returns` and `Hasty` are off: with either on, properties fail as section 6 tells.
* **Calibration.** Two trackers are the one measured and one that can prove a move, join, or be joined;
  two re-solves do not commute when one turns and one shifts.  Three samples are one before,
  between and after them.  With less of one and more of another bound (samples/re-solves/incidents
  4/1/2, 4/2/1, 3/1/3, 2/2/4) the properties were checked too.
* **Fan-out.** Three slots and five entries overwrite a running drain's next entry, chunks of one
  let anything fall between two entries, two losses leave a hole open across a boundary.
* **Persistence.** Revision 3 is two coupled changes after a first write; three faults are enough
  for a failed write, a crash during its retry and another at the next launch.  Quiet period 1
  and ceiling 2 are the smallest pair in which the ceiling matters.

Bounds are in guards (`Max...` constants) or state the moment a counter may be reused; they
are named and commented where declared.  Types are proved (section 5), not listed in the
configurations.

Every property has, in `PROJECT.json`, a definition changed as a plausible bug would
change it (for the ring: a tail slot claimed without its sequence check, a harvest that
forgets its generation; for persistence: revisions compared only when Config has one, a room
whose failed save is forgotten), with which TLC finds the property violated.

---

## 4. Fairness

* **Universe**: the tick's steps are weakly fair, because the main loop does not block; the grace
  period ends by the clock, so its end is strongly fair.  Neither samples nor the user are fair.
* **PoseRing**: weak fairness of each producer inside a publish and of the drain thread.
  Threads get scheduled; nobody has to publish again.
* **PoseRingSession**: weak fairness of writers inside `Create`/`Close` and of the drain thread's
  loop.  `Reconnects` adds a premise: there are moments with no attempt in progress (`Quiet`).
  Attempts last microseconds and are a second apart; without it a writer's and a reader's attempt
  could collide for ever.  Strong fairness of `CloseGate`: Windows does not for ever refuse to say
  whether a process that got a dead writer's id is the writer; then the code would not take over either.
* **HookLifecycle**: the main thread and threads inside a request run on.  Pose threads are
  *not* fair: a third-party thread may stay in the driver for ever, and `TeardownReturns`
  must hold all the same.
* **RuntimeSnapshot**: a request in progress completes and poses keep coming.  `EventuallyCurrent`
  assumes requests stop.
* **IPCServer**: weak fairness of the thread, `Stop`'s steps, the passing of time
  and the completion of cancelled operations; strong fairness of completion routines, the wait's
  timeout and the creation of a listener, which says that peers do not flood the server and that
  making a pipe does not fail for ever.  No read or write of a peer ever has to complete: a silent
  one is what the second half of `DeadlinesKept` is about.
* **DriverLink**: the worker, the tick and the hub's polling are weakly fair; the 1 Hz scan is
  strongly fair, because what the player does in between disables it only for a moment.  Nobody has
  to start a driver, a run or the overlay; flakes are bounded.
* **Persistence**: a save runs synchronously on one thread, so its steps are weakly fair;
  `PersistenceTick` is called every frame whatever else the frame does, so it is strongly fair.

---

## 5. The proofs

Theorems hold for every value of the constants that meets the named assumptions.  TLC
checked every inductive invariant on its run's instance before it was proved.

| theorem | property | assumptions |
|---|---|---|
| PoseRingProof: `TypeCorrect`, `Ownership`, `NoRace`, `Intact`, `Accounted`, `GapsInPlace`, `TerminalInPlace`, `Uncounted` | `NoSlotRace`, `DeliveredIntact`, `GapBeforeSample`, `TerminalGapInPlace`, `NothingUncounted` | `CapacityAssumption`, `BoundsAssumption` |
| PoseStreamProof, of `PoseRingSession`: `SessionTypeCorrect`, `SessionInvariant`, `ResetExclusion`, `OwnerNamed`, `SeparatedSessions` | `ResetExcludesReaders`, `OwnerIsNamed`, `SessionsSeparated` | `ProcessAssumption`, `StartsAssumption` |
| DriverProof, of `HookLifecycle`: `LifecycleTypes`, `RingOutlivesCallbacks`, `ReadyHooks`, `CleanOut`, `SingleTransform` | `RingMappedUnderPublish`, `ReadyMeansHooked`, `OutMeansUnhooked`, `NoDoubleTransform` | `VersionAssumption`, `NobodyAssumption` |
| DriverProof, of `RuntimeSnapshot`: `SnapshotTypes`, `Coherence`, `Monotonic`, `RecordExclusion` | `CoherentSnapshot`, `NeverOlder`, `FrameRecordExclusive` | `AttemptsAssumption`, `TransactionsAssumption`, `DevicesAssumption` |
| IPCServerProof: `ServerTypes`, `Ownership`, `Cap`, `Gate`, `CleanStop`, `StaleIgnored` | `OverlappedOwned`, `OpenWithinCap`, `DispatchGated`, `StoppedIsClean`, `StaleNeverRefuses` | `CapAssumption`, `VersionsAssumption` |
| DriverLinkProof: `TypeCorrect`, `Neutral`, `Drained`, `Truthful`, `Refusals` | `NeutralWhileMeasured`, `QuitDrains`, `VerdictMeansApplied`, `RefusalHolds` | `ProfilesAssumption`, `BoundsAssumption` |
| PoseStreamProof, of `PoseFanout`: `Inductive`, `BatchesUnbroken`, `ChannelRefined` | `BatchUnbroken`, `ChannelKept` | `GeometryAssumption`, `BoundsAssumption` |
| UniverseProof: `UniverseBalances`, `TypeCorrect`, `ProfileInPlace`, `WallsInPlace`, `NeverLatched` | `CalibrationFollows`, `RoomFollows`, `FollowedNotLatched` | `WorldsAssumption`, `~Returns`, `~Hasty` |
| CalibrationRunProof: `ReadingRight`, `MeasuringRight`, `StoppingForCause` | `TrackersReadRight`, `MeasuredRight`, `StopsForCause` | `ScaleAssumption`, `DevicesAssumption`, `TargetAssumption`, `DeltasAssumption` |
| PersistenceProof: `TypeCorrect`, `RoomStaysMatched`, `StaleRoomRecognised`, `CleanSaved`, `UsersKept` | `RoomMatchesCalibration`, `StaleRoomStaysMarked`, `CleanMeansSaved`, `UsersSettingsKept` | `DebounceAssumption`, `BoundsAssumption` |

**Ring** (`OwnershipInv`).  One producer at a time holds the claim lock (`LockInv`); the queue is
a window of at most `Capacity` positions (`WindowInv`); a slot is never ahead of the lap the tail
writes next (`TailInv`); a queued position is in flight or whole (`LiveInv`); what is in flight,
what the reader or a discard took, what was seen ready and what was found free stays so
(`FlightInv`, `OwnerInv`, `ReadyInv`, `ClaimInv`).  Two different positions less than `Capacity`
apart have different slots (`SlotDistinct`), so owners of different positions never touch the
same memory.  `DeliveredIntact` alone says nothing of how the slot was filled, hence
the strengthening.

**Ring, accounting** (`AccountInv`).  `harvestLog` is the running total of the failures that tickets
carry, so what lies between two positions is a difference of two of its entries, and a queued
slot whose marker is written holds the difference at its own position (`MarkerInv`, which needs
the slots of `OwnershipInv` apart).  The discard sequence is odd while a discard is open (`ParityInv`),
so a snapshot whose two loads of it agree holds a head and a loss count of one moment (`SnapInv`), and
a head that nobody took since has every loss before it reported (`HeadInv`).  Delivered samples,
reported losses and unread discards come to everything below `deq`, but for a discard
between its head and its count (`BalanceInv`); at the moment the reader takes the head nothing is
unread, which places its losses (`PlacedInv`, hence `GapBeforeSample`).  A failed publish is
pending, harvested, carried or taken off an empty queue (`FailedInv`).  The pending word only moves
on, generation first, so a word the reader finds again has not changed since it found
the queue empty (`TerminalInv`, hence `TerminalGapInPlace`).  `NothingUncounted` folds over the queue's
markers: that the fold is the difference of two entries is proved by a least counterexample
among the positions (`LeastOf`, `QueuedFixpoint`), so no induction scheme is needed.  The claims on what
was delivered and reported are for a ring that no overlay died in (`leaked = 0`); the
slots, markers and pending word are covered in every life.

**Sessions** (`SessionInv`).  The mutex is held wherever identity or gate are written, the gate is
closed from its closing to its opening, a reader past its count is counted and past its recheck
has seen the gate open: so the wait for zero readers excludes it.  While one writer rewrites the
identity no other owns the ring (`NoRival`), because a live named owner refuses it.

`SessionsSeparated` needs what the hub knows of the session (`StreamInv`): the tail of its stream is of
the mapping and epoch it noted last (`HubJoined`); a batch was taken in the drain under way, from
a session between the one seen before it and the present one (`BatchTaken`), and epochs
of one mapping only grow (`EpochsForward`).  So a batch of another session than the tail's shows
in the epoch read after the drain, and `DrainRing` puts the boundary first.

**Hooks** (`LifecycleInv`).  After the driver is unpublished nobody new enters; a wait that ended
idle has nobody inside (`ReleasedIsEmpty`); otherwise the mapping is kept.  Nothing is installed
between a teardown and the next injection because a requester rechecks the accept flag under
the setup mutex (`SetupHeld`, `OutStaysUnhooked`).

**Snapshot**.  Memory is one complete image whenever the sequence is even; words loaded while the
sequence did not change are of one image; the kept pair is always an accepted one.

**IPC**.  An instance exists exactly while its operation is somewhere between issued and handled,
because only its routine deletes it.  The listener's OVERLAPPED goes through few outcomes
(`ListenerOutcomes`): it is left alone, connected anew where the kernel does not have it (a new listener is
made only where there is none, `ThreadInv`), or given back by a drain that looks at the pending flag alone; so the
flag must be up whenever the kernel has it.  That is where `ERROR_IO_INCOMPLETE` comes in.

A peer is turned away (`StaleIgnored`) with at least the cap's number of connections neither reaped nor stale, by
the count; and with at most that number, because no more than the cap are ever open (`CapInv`) and
whatever was marked for closing is stale and stays so (`DroppedInv`).

**Fan-out**.  The inductive invariant ties each cursor to the history: the positions retained are
the last `Capacity`, every entry's counts are the counts at its place, a cursor's counts are those
at its position or at an entry since overwritten, and a running drain's snapshot, batch and hole
are of one stretch of the stream.  `ChannelRefined` maps every action to an action of
`PoseChannel` or a stutter: an append to `Publish` or `Lose`, a boundary to `Boundary`, an
`EnterAccount`, `ChunkAccount` or `CountSourceGap` to `Count`, a copied sample to `Hand`,
`CutShort` and `Complete` to `Return`; reserving, starting and ending a chunk, and copying
a gap's entry, change nothing the channel shows.

**Driver link** (`IInv` = `MeasureInv` and `VerdictInv`).  From the moment the worker takes a run's
neutralization until the run ends it sends no state; sequence numbers are fresh, so no older answer is
mistaken for the run's; a driver that restarts shows no calibration.  States are sent in order
and sessions never repeat, so an answer whose number is not below the latest change is an
answer for the job last submitted, and the session it names is the driver's only while that
driver has not forgotten it.

**Persistence** (`PairedInv`).  On disk, Settings is never ahead of a Config that has a revision,
and two records that count as one write hold a room of the calibration's universe
(`DiskPaired`); in memory the room matches and a stale room on disk is due to be overwritten
(`MemoryPaired`); the revision runs ahead of Config only with Config still to write
(`RevisionsOrdered`).  The invariant is claimed for `Undisturbed` lives: no launch with an unreadable
record, no migration latch set after Config already had its revision.  Section 6 says why
both are needed.

The two other invariants hold in every life.  `SavedInv`: a readable record equals what is shown
unless its dirty bit is set or the save under way will still put it right on its return: a
finished clearing of Config drops the calibration, a failed save of a room marks it.  `UsersInv`:
a Config that alone holds the user's settings keeps the migration latch set, so no write of it
gets past the migration; whoever passes the Settings gate has read the user's settings and
writes those; a first setting that fails is taken back only where the registry had none.

**Universe** (`UniverseInv`).  The calibration and the room are each one number, and no step relates that number
to the raw universe directly: a compensation adds what the universe moved at one change, perhaps
long before, while the other consumer already noted later ones.  So the invariant keeps an account
(`Account`): some function g over the stream says where the calibration would stand with only the
compensations up to each sample.  g moves with each compensated step by what the universe moved
there, stays where the universe stays, does not move at or after a step that may still be compensated (`Future`: in
front of the monitors, accepted, or a live candidate), and lies where the universe lies in
the worlds that the profile, or the room, was told of.  A compensation raises g from its step on; a
profile that the verdict carries to a new WFD adds that world to those the account is right in,
because every transition the walk took was re-expressed (the universe stays), or was compensated
(`WalkSteps`).  At the end of the stream g is the calibration itself, hence `ProfileInPlace`.

The rest places the actors: an accepted delta is a whole step, deltas come in the order of
their steps, and a candidate's window starts before it (`JumpInv`); a transition the verdict may follow
is a single change of WFD and what it says of either pose is so (`SpaceInv`); no step to be compensated
lies before the profile's world (`FutureInv`), and a compensation not used yet is of a profile that
waits for it (`ClearInv`).  The loops over a drain's samples and over the verdict's transitions are
`Along`, a recursive function, which the proofs follow step by step to a least counterexample
(`AllAlong`, `LoopExists`).  `~Returns` and `~Hasty` are hypotheses, as they are values of the run:
section 6 tells how a WFD that returns, a hasty capture and a hasty finish break the first two properties.

`NeverLatched` adds what holds while the headset is `Undisturbed` (`PromptInv`).  The detector's history ends
where the monitors stand, so it takes every step of the raw pose for the re-base it is and holds no candidate
(`Listens`), and each is accepted, compensated or behind the profile (`Tells`).  The verdict has
every change ahead of the profile that the space has read, in order (`Sees`), so its walk ends at the
headset's WFD or stops at a change in front of the monitors (`WalkEnds`).  A grace period is of a
change that the monitors have heard of by the next judgement (`Times`); by then the walk gets past it,
and if it stops again, it is at a later change and in a later world, for which no period has begun.

**Frames and runs** (`FollowInv`).  A tracker that was followed reads right on its reference (`Ref`): the frame the
watch last saw it in, or the one it left while a change waits; and that change is all
that came since (`RightOn`).  Between drains that says everything; within one it does not, because a move
is proved by another device long after it happened, and the moves are followed in the order of
their times.  So a drain is proved with a history (`Histories`): where the frame of a tracker stood at each
time.  It is read off the samples: every move handed out, and the change that waits, leads from the
place of the history just before it to the place at it, and between those the place stays (`Chain`);
each sample extends the history of its own device and leaves the others' (`Advances`), and a
proof that resolves a waiting change only names what the history holds already (`Carries`).  A tracker
the watch cannot vouch for has none (`Broken`), and `Join` puts it among the lost.  Following the
sorted moves one by one then reads right at every time up to the next move (`Cut`, `Corrected`), at
the end on the reference.  `Join` gives a tracker the correction of one in the same frame, whose
reference is the same place.  Whatever samples a run accepted lie, carried back to its start, where the
last one does (`Gathers`), so the measured frame is the last sample's, and `ExpressCalibration`
or `CarryCalibration` puts the result where the correction in force then expects it.

**Run and corrections** (`StandInv`: `FollowInv`, `RunStands`, `CollectorInPlace`).  That a run is turned
down only for cause needs more: two readers of one stream follow the same moves, each in its own order.
The samples a run has not drained are the target's own, and at each drain the monitors read them first:
so each lies where the watch has the target then, as far as the monitors observed and unless it is
older than `usableAfter` (`Holds`; a sample of the drain that the watch takes later is excluded by
`observed`).  N captured for such a sample puts the target's frame at the run's `Place`, and from then
on the correction and `toStart` follow it together, so the correction stands on the `Place` after every
tick (`Stands`).  At the end a compensated N that differs from the captured one by anything but `toStart`
would then lie elsewhere (`CarriedOnly`), and `FollowedRun` finds none.

Seven of these theorems state what no run repeats, because the runs are kept for the properties that are
furthest from one line of code: `Cap`, `CleanStop`, `Gate`, `Drained`, `BatchesUnbroken`, `ReadyHooks` and
`Monotonic`.

**Only model-checked**: liveness (`PublishReturns`, `EventuallyAllAccounted`, `Reconnects`,
`TeardownReturns`, `EventuallyCurrent`, `StopReturns`, `DeadlinesKept`,
`MeasurementProceeds`, `RetriesUntilApplied`, `ChangesReachDisk`, `MismatchSettles`), which needs
fairness and ENABLED and is out of the prover's reach.  Every safety property of the passing runs has a theorem.

---

## 6. Where the code departs from what it says

**A verdict of a dead driver shuts out the next** (`link_reach`, `ReachesDriver`).  `Calibration.cpp`
says of the 1 Hz scan that it keeps "reasserting the last committed profile in case vrserver
restarts", and `DriverSession.h` that "the next periodic scan retries the whole state".  When a
driver answers and is replaced before the overlay's hub ever opened its ring, no boundary lies between
the submission and the poll: `ApplyCompletion` (CalibrationDriver.cpp:117) stores the dead session in
`frameDriverSession`, every later request names it, and `DriverSession::Apply` (DriverSession.h:186)
refuses each of them.  The new driver stays uncalibrated until SteamVR restarts once more.
`RetriesUntilApplied` is the same promise for lives in which the overlay names no other session, and
holds.

**An old room beside a new calibration** (`persistence_unreadable`, `NoOlderRoom`).
`PersistencePlan.h:52` says that a chaperone captured before a universe rebase "must not be restored
onto the rebased playspace".  A launch that finds no Config and a Settings it cannot read starts at
revision 1, though the record it preserves may be of a higher one; a calibration made then is
written as revision 2, and when a Settings of revision 2 is readable again the two pass as
one write.  No write has to fail.  The baseline check against the live playspace still catches a
re-center that changed `worldFromDriver`; only when it did not do the revisions protect alone.

Observations without a run of their own:

* *A room that leapt.*  `UniverseVerdict.h:82` says of an exact delta that from any other WFD than
  its own start "the endpoint would also cover an earlier change that nothing compensated", and
  `ApplyUniverseDelta` guards the profile against that (`ExactDeltaRebasesProfile`).  The room has no
  such guard (CalibrationSpace.cpp:677): after an unexplained change from 0 to 1, a re-base from 1
  to 2 within the grace period moves the room by the second delta only, gives it the endpoint as
  its WFD and marks it verified; the WFD then equals the headset's, so CalibrationSpace.cpp:388
  keeps it verified, and a restore is allowed of a room that is off by the first change.
  `RoomFollows` is stated for rooms that never leapt (`leapt`); with `RoomInPlace` among the
  invariants of `MCUniverse.cfg`, TLC shows the steps above.
* *A profile without a WFD.*  A profile of an older release takes the room's WFD, once SteamVR says
  whose headset it is; `ProfileUniverseTick` then clears the verdict (CalibrationSpace.cpp:762), and
  with it the transitions noted before.  A change that they would explain is then latched, on
  the safe side; and if the room leapt meanwhile the profile takes its wrong WFD.  The
  properties name these profiles (`profile.from`).
* *A WFD that returns.*  With `Returns` on, a WFD may come back with the universe elsewhere (a
  re-base, then a re-expressed pose, whose first sample a boundary hid or which one batch holds
  entirely): WFD equality is all that the verdict and the room's baseline ask, so calibration
  and room are taken for current.  Nothing in the stream tells the two universes apart.
* *Hasty capture.*  With `Hasty` on, a capture while a candidate is held or the verdict pending
  notes the room in the new universe; a confirmation that comes later moves it once more.
* *Hasty finish.*  With `Hasty` on and `MaxEvents` 4, a run that finishes while the headset is not
  usable leaves the profile unbound (CalibrationSpace.cpp:539); `ProfileUniverseTick` binds it to
  the WFD of whenever the headset is usable again, which may have changed since.
* *Migration latch.*  A load that gave Config its revision and then failed to write Settings sets the
  migration latch again; coupled writes then go Settings first, against `PersistenceState.h:37`.
  Five faults then lead to two records of equal revision with different universes; the room
  properties are therefore stated for lives without that latch.
* *Claim lock.*  `PoseRing.h:75` says producer claims and the pending-gap exchange share the claim lock.
  The reader's exchange in `EmitTerminalGapIfEmpty` does not take it; the generation in the
  pending word is what makes it safe, and `TerminalGapInPlace` fails without it.
* *Latest verdict.*  `CalibrationDriver.cpp:396` says only the latest submission's verdict is taken.
  `NoteVerdict` takes any answer not older than the latest *change*, so an identical retry's
  predecessor counts; `VerdictMeansApplied` shows that this is harmless for what the driver shows.
  A recovered success of one session, accepted after a boundary because the resubmission was
  identical, can however carry that session's frame corrections to the next driver: the same root
  as the first finding.

---

## 7. What is not modelled

* **Geometry and statistics**: the calibration engine, the alignment field, pose transformation, the
  continuous estimator, jump and drift thresholds.  They compute over double-precision matrices; a
  finite instance would say nothing about the program.  The control around them is modelled or
  planned.
* **Formatting and parsing**: JSON, localisation, diagnostics, log trimming, update manifests.
* **User interface drawing**.  The operations behind its buttons are actions of the other modules.
* **Weak memory**.  See `PoseRing`; the project is built for x64 only.
* **Counters at their width**: 64-bit positions, the 32-bit snapshot sequence (decades at about
  one transaction a second), the 32-bit revision.
* **Vendored libraries, tests, tools and the installer**.  They are most of the repository's lines
  (Dear ImGui, Eigen, doctest, GLFW, OpenVR), which is why the modules map a small share of them
  however much of the program they cover.

---

## 8. Plan

In order of importance.  Each module comes with its configuration, its mutants and, where
it holds safety invariants, its proofs; runs that ask a question of the same component
are merged when a new component needs one.

1. **Runs and frames, the rest**: deadlines and the runtime-pose source of a run, field anchors,
   parked corrections; the log's evidence for a moved station and the visibility watch
   (`LighthouseLog.cpp`, `LighthouseVisibility.cpp`).
2. **Correction** (`ContinuousAlignment`, `ContinuousCorrectionGate`, `CalibrationContinuous`,
   `DriftMonitor`, `CalibrationMonitor`): evidence and its lifetimes; no correction from evidence
   of another calibration or session.
3. **UpdateCheck** (`Updater.cpp`, `UpdatePolicy.h`): the check thread against the UI's switches
   and shutdown; nothing unverified runs.
4. **Setup and guide** (`UiSetup.cpp`, `UiGuide.cpp`, `CalibrationGuide.h`): the wizard's steps as a
   state machine over the others, if they hold more than layout.
5. `PoseRing` shown to implement a `PoseChannel` of one consumer, and the hub composed of the two.

Theorems to add: the safety invariants of modules 2 and 3, and the refinement of 5.
