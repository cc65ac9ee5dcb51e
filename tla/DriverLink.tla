----------------------------- MODULE DriverLink -----------------------------
(* The overlay's link to the driver: the calibration the UI thread wants,   *)
(* the worker that sends it over the pipe and reports back, the driver's    *)
(* sessions, and the calibration run that neutralizes two slots through the *)
(* same worker.  One action per critical section of DriverWorker, per       *)
(* request on the pipe, and per handler of the UI thread's tick.            *)
(*                                                                          *)
(* A calibration is a member of Profiles: all that a request says of it is  *)
(* which one it is.  Frame corrections are the driver session they were     *)
(* measured in.                                                             *)
EXTENDS Naturals, Sequences

CONSTANTS
  Profiles,       \* calibrations the player can have
  Refused,        \* those whose values the driver rejects
  Off,            \* no calibration that may be applied
  MaxSessions,    \* bound: lives of the driver
  MaxFlakes,      \* bound: lost answers, failed opens and hub failures
  MaxChoices,     \* bound: runs started, moves followed, calibrations latched off, quits
  MaxSequence     \* bound: sequence number at which the periodic scan waits

ASSUME ProfilesAssumption == Refused \subseteq Profiles /\ Off \notin Profiles
ASSUME BoundsAssumption ==
  MaxSessions \in Nat /\ MaxFlakes \in Nat /\ MaxChoices \in Nat /\ MaxSequence \in Nat

Selected == {1, 2}                 \* the run's reference and target slots
Sessions == 1 .. MaxSessions
Identity == 0                      \* a correction nothing has moved
Mixed == MaxSessions + 1           \* moves of two sessions composed
Frames == 0 .. MaxSessions + 1
Wanted == Profiles \cup {Off}

VARIABLES
  driver,         \* session, what its slots show, frames, neutral slots, checkpoint
  started, flakes,
  ring, crossed,  \* the session whose ring the hub reads; a boundary not seen yet
  conn,           \* the driver session the pipe is open to
  pendingState, pendingNeutralization, neutralizationHeld, stopping,
  lastSubmission, nextSequence, completions,
  worker,
  uiPc, state, neutralizationSequence, neutralized, preserveTrackerFrames,
  profile, enabled, frames, frameDriverSession, frameRecoveryPending, choices,
  latestStateChange, lastVerdictRefused, stateChangedSinceVerdict

driverVars == <<driver, started>>
hubVars == <<ring, crossed>>
queueVars == <<pendingState, pendingNeutralization, neutralizationHeld, stopping,
               lastSubmission, nextSequence>>
runVars == <<state, neutralizationSequence, preserveTrackerFrames>>
wantVars == <<profile, frames, frameDriverSession, frameRecoveryPending>>
trackerVars == <<latestStateChange, lastVerdictRefused, stateChangedSinceVerdict>>
uiVars == <<uiPc, runVars, neutralized, wantVars, choices, enabled, trackerVars>>
linkVars == <<pendingState, lastSubmission, nextSequence, enabled, trackerVars>>
othersVars == <<driverVars, flakes, conn, worker>>
vars == <<driverVars, flakes, hubVars, conn, queueVars, completions, worker, uiVars>>

Fresh(s) == [session |-> s, shown |-> Off, frames |-> Identity, neutral |-> {},
             saved |-> [key |-> Off, frames |-> Identity]]

Idle == [pc |-> "wait", sequence |-> 0, request |-> "none", replay |-> FALSE,
         job |-> [profile |-> Off, frames |-> Identity, session |-> 0, recover |-> FALSE],
         session |-> 0, reconnected |-> FALSE, checked |-> FALSE, recovered |-> FALSE,
         frames |-> Identity, ok |-> FALSE]

Init ==
  /\ driver = Fresh(0) /\ started = 0 /\ flakes = 0
  /\ ring = 0 /\ crossed = FALSE /\ conn = 0
  /\ pendingState = <<>> /\ pendingNeutralization = <<>>
  /\ neutralizationHeld = FALSE /\ stopping = FALSE
  /\ lastSubmission = <<>> /\ nextSequence = 0 /\ completions = <<>>
  /\ worker = Idle
  /\ uiPc = "idle" /\ state = "None" /\ neutralizationSequence = 0 /\ neutralized = <<>>
  /\ preserveTrackerFrames = FALSE
  /\ profile \in Wanted /\ enabled = FALSE /\ frames = Identity
  /\ frameDriverSession = 0 /\ frameRecoveryPending = TRUE /\ choices = 0
  /\ latestStateChange = 0 /\ lastVerdictRefused = FALSE /\ stateChangedSinceVerdict = FALSE

-----------------------------------------------------------------------------
(* The driver, and the hub that reads its ring.                             *)

(* SteamVR takes seconds to start and the hub polls its writer every 2 ms:  *)
(* the hub has dropped a dead writer's ring before the next one serves.     *)
DriverStarts ==
  /\ driver.session = 0 /\ ring = 0 /\ started < MaxSessions
  /\ started' = started + 1
  /\ driver' = Fresh(started')
  /\ UNCHANGED <<flakes, hubVars, conn, queueVars, completions, worker, uiVars>>

DriverDies ==
  /\ driver.session # 0
  /\ driver' = Fresh(0)
  /\ UNCHANGED <<started, flakes, hubVars, conn, queueVars, completions, worker, uiVars>>

HubOpens ==
  /\ uiPc \notin {"join", "gone"} /\ ring = 0 /\ driver.session # 0
  /\ ring' = driver.session
  /\ UNCHANGED <<driverVars, flakes, crossed, conn, queueVars, completions, worker, uiVars>>

HubBoundary ==
  /\ ring' = 0 /\ crossed' = TRUE
  /\ UNCHANGED <<driverVars, conn, queueVars, completions, worker, uiVars>>

HubSeesDeath ==
  /\ ring # 0 /\ ring # driver.session
  /\ HubBoundary
  /\ UNCHANGED flakes

HubFails ==
  /\ ring # 0 /\ flakes < MaxFlakes
  /\ HubBoundary
  /\ flakes' = flakes + 1

-----------------------------------------------------------------------------
(* What the driver does with a request, and what it answers.                *)

StaleSession == worker.session # driver.session

Accepted ==
  worker.request = "set" => ~StaleSession /\ worker.job.profile \notin Refused

TrySetRuntimeState ==
  [driver EXCEPT !.shown = worker.job.profile, !.frames = worker.frames, !.neutral = {},
                 !.saved = IF worker.job.profile = Off THEN @
                           ELSE [key |-> worker.job.profile, frames |-> worker.frames]]

Disabled ==
  {slot \in Selected : worker.request = <<"disable reference", "disable target">>[slot]}

Handled ==
  IF worker.request = "set" /\ Accepted THEN TrySetRuntimeState
  ELSE [driver EXCEPT !.neutral = @ \cup Disabled]

-----------------------------------------------------------------------------
(* The worker thread.                                                       *)

TakeNeutralization ==
  /\ worker.pc = "wait" /\ pendingNeutralization # <<>>
  /\ worker' = [Idle EXCEPT !.pc = "send", !.request = "disable reference",
                            !.sequence = Head(pendingNeutralization)]
  /\ pendingNeutralization' = <<>>
  /\ UNCHANGED <<driverVars, flakes, hubVars, conn, pendingState, neutralizationHeld, stopping,
                 lastSubmission, nextSequence, completions, uiVars>>

StateReady == pendingState # <<>> /\ pendingNeutralization = <<>> /\ ~neutralizationHeld

TakeState ==
  /\ worker.pc = "wait" /\ StateReady
  /\ worker' = LET taken == Head(pendingState) IN
               [Idle EXCEPT !.pc = "send", !.request = "handshake",
                            !.sequence = taken.sequence, !.job = taken.job,
                            !.frames = taken.job.frames]
  /\ pendingState' = <<>>
  /\ UNCHANGED <<driverVars, flakes, hubVars, conn, pendingNeutralization, neutralizationHeld,
                 stopping, lastSubmission, nextSequence, completions, uiVars>>

Exit ==
  /\ worker.pc = "wait" /\ stopping
  /\ pendingNeutralization = <<>> /\ ~StateReady
  /\ worker' = [worker EXCEPT !.pc = "exited"]
  /\ UNCHANGED <<driverVars, flakes, hubVars, conn, queueVars, completions, uiVars>>

Failed == [worker EXCEPT !.pc = "post", !.ok = FALSE]

Connect ==
  /\ worker.pc = "send" /\ conn = 0 /\ driver.session # 0
  /\ conn' = driver.session
  /\ worker' = [worker EXCEPT !.reconnected = TRUE]
  /\ UNCHANGED <<driverVars, flakes, hubVars, queueVars, completions, uiVars>>

ConnectFails ==
  /\ worker.pc = "send" /\ conn = 0
  /\ \/ driver.session = 0 /\ UNCHANGED flakes
     \/ flakes < MaxFlakes /\ flakes' = flakes + 1
  /\ worker' = Failed
  /\ UNCHANGED <<driverVars, hubVars, conn, queueVars, completions, uiVars>>

(* The pipe failed under a request: close it, and replay once.              *)
Broken ==
  /\ conn' = 0
  /\ worker' = IF worker.replay THEN Failed ELSE [worker EXCEPT !.replay = TRUE]
  /\ UNCHANGED <<started, hubVars, queueVars, completions, uiVars>>

PipeGone ==
  /\ worker.pc = "send" /\ conn # 0 /\ conn # driver.session
  /\ Broken
  /\ UNCHANGED <<driver, flakes>>

(* No answer in time, whether or not the driver acted on the request.       *)
AnswerLost ==
  /\ worker.pc = "send" /\ conn # 0 /\ conn = driver.session
  /\ flakes < MaxFlakes /\ flakes' = flakes + 1
  /\ driver' \in {driver, Handled}
  /\ Broken

AfterHandshake ==
  LET begun == [worker EXCEPT !.session = driver.session, !.reconnected = FALSE,
                              !.replay = FALSE]
  IN IF worker.job.session \notin {0, driver.session} THEN [begun EXCEPT !.pc = "post"]
     ELSE [begun EXCEPT !.request = IF worker.job.recover THEN "get" ELSE "set"]

RecoverTrackerFrames ==
  LET found == driver.saved.key = worker.job.profile
  IN [worker EXCEPT !.request = "set", !.replay = FALSE, !.checked = TRUE,
                    !.recovered = found,
                    !.frames = IF found THEN driver.saved.frames ELSE worker.job.frames]

AfterAnswer ==
  \/ worker.request = "handshake" /\ worker' = AfterHandshake
  \/ worker.request = "get" /\ ~worker.reconnected /\ worker' = RecoverTrackerFrames
  \/ worker.request = "get" /\ worker.reconnected /\ worker' = Failed
  \/ /\ worker.request = "set"
     /\ worker' = [worker EXCEPT !.pc = "post", !.ok = Accepted /\ ~worker.reconnected]
  \/ /\ worker.request = "disable reference"
     /\ worker' = [worker EXCEPT !.request = "disable target", !.replay = FALSE]
  \/ /\ worker.request = "disable target"
     /\ worker' = [worker EXCEPT !.pc = "post", !.ok = TRUE]

Answered ==
  /\ worker.pc = "send" /\ conn # 0 /\ conn = driver.session
  /\ driver' = Handled
  /\ AfterAnswer
  /\ UNCHANGED <<started, flakes, hubVars, conn, queueVars, completions, uiVars>>

Completion ==
  [sequence |-> worker.sequence,
   neutralize |-> worker.request \in {"disable reference", "disable target"},
   ok |-> worker.ok, enabled |-> worker.ok /\ worker.job.profile # Off,
   session |-> worker.session, key |-> worker.job.profile,
   checked |-> worker.checked, recovered |-> worker.recovered, frames |-> worker.frames]

PostedOnSuccess == IF worker.ok THEN Append(completions, Completion) ELSE completions

Posted == Append(completions, Completion)

Post ==
  /\ worker.pc = "post"
  /\ completions' = Posted
  /\ worker' = Idle
  /\ UNCHANGED <<driverVars, flakes, hubVars, conn, queueVars, uiVars>>

Worker ==
  TakeNeutralization \/ TakeState \/ Exit \/ Connect \/ ConnectFails \/ PipeGone \/ Answered \/ Post

-----------------------------------------------------------------------------
(* What the UI thread's handlers share.                                     *)

NoteSubmissionAlways(job) ==
  /\ latestStateChange' = nextSequence' /\ stateChangedSinceVerdict' = TRUE
  /\ UNCHANGED lastVerdictRefused

NoteSubmission(job) ==
  LET stateChanged == lastSubmission # <<job>> IN
  /\ latestStateChange' = IF stateChanged THEN nextSequence' ELSE latestStateChange
  /\ stateChangedSinceVerdict' = (stateChanged \/ stateChangedSinceVerdict)
  /\ UNCHANGED lastVerdictRefused

(* Sends what the handler has left in profile', frames' and the session.    *)
SynchronizeCalibrationDriver ==
  LET job == [profile |-> profile', frames |-> frames', session |-> frameDriverSession',
              recover |-> frameRecoveryPending' /\ profile' # Off] IN
  /\ nextSequence' = nextSequence + 1
  /\ pendingState' = <<[sequence |-> nextSequence', job |-> job]>>
  /\ lastSubmission' = <<job>>
  /\ NoteSubmission(job)
  /\ enabled' = (profile' # Off /\ ~(lastVerdictRefused /\ ~stateChangedSinceVerdict'))

EndCalibrationRun ==
  /\ neutralizationHeld' = (neutralizationHeld /\ neutralizationSequence = 0)
  /\ state' = "None" /\ neutralizationSequence' = 0 /\ preserveTrackerFrames' = FALSE

AbortCalibration ==
  /\ EndCalibrationRun
  /\ UNCHANGED wantVars
  /\ IF neutralizationSequence # 0 THEN SynchronizeCalibrationDriver ELSE UNCHANGED linkVars

-----------------------------------------------------------------------------
(* The UI thread's tick: poll the worker, monitor the stream, then the      *)
(* state machine.                                                           *)

Quiet == worker.pc = "wait" /\ pendingState = <<>> /\ pendingNeutralization = <<>>

(* Every completion taken, the tick goes on.  With nothing outstanding,     *)
(* numbering starts anew: only the order of outstanding sequence numbers is *)
(* ever looked at.                                                          *)
BeginTick ==
  /\ uiPc = "idle" /\ completions = <<>> /\ uiPc' = "monitor"
  /\ IF Quiet /\ neutralizationSequence = 0
     THEN nextSequence' = 0 /\ latestStateChange' = 0 /\ neutralized' = <<>>
     ELSE UNCHANGED <<nextSequence, latestStateChange, neutralized>>
  /\ UNCHANGED <<othersVars, hubVars, pendingState, pendingNeutralization, neutralizationHeld,
                 stopping, lastSubmission, completions, runVars, wantVars, choices, enabled,
                 lastVerdictRefused, stateChangedSinceVerdict>>

NoteVerdict(done) ==
  /\ lastVerdictRefused' = ~done.ok /\ stateChangedSinceVerdict' = FALSE
  /\ UNCHANGED latestStateChange

ApplyCompletion(done) ==
  /\ enabled' = done.enabled
  /\ IF done.ok
     THEN /\ frameDriverSession' = done.session
          /\ frameRecoveryPending' = (frameRecoveryPending /\ ~done.checked)
          /\ frames' = IF frameRecoveryPending /\ done.recovered /\ done.key = profile
                       THEN done.frames ELSE frames
     ELSE UNCHANGED <<frameDriverSession, frameRecoveryPending, frames>>
  /\ UNCHANGED profile

StaleNever(done) == FALSE

Stale(done) == done.sequence < latestStateChange

PollOne ==
  /\ uiPc = "idle" /\ completions # <<>>
  /\ completions' = Tail(completions)
  /\ LET done == Head(completions) IN
     IF done.neutralize
     THEN neutralized' = <<[sequence |-> done.sequence, ok |-> done.ok]>>
          /\ UNCHANGED <<wantVars, enabled, trackerVars>>
     ELSE /\ UNCHANGED neutralized
          /\ IF Stale(done) THEN UNCHANGED <<wantVars, enabled, trackerVars>>
             ELSE NoteVerdict(done) /\ ApplyCompletion(done)
  /\ UNCHANGED <<othersVars, hubVars, queueVars, uiPc, runVars, choices>>

Monitored ==
  /\ uiPc = "monitor" /\ uiPc' = "state"
  /\ UNCHANGED <<othersVars, ring, completions, pendingNeutralization, stopping, neutralized>>

StartFrameSession ==
  /\ Monitored /\ crossed /\ crossed' = FALSE
  /\ frameDriverSession' = 0 /\ frameRecoveryPending' = TRUE /\ frames' = Identity
  /\ UNCHANGED <<neutralizationHeld, runVars, choices, profile>>
  /\ SynchronizeCalibrationDriver

ShouldRun == ~crossed /\ ~frameRecoveryPending /\ enabled /\ profile # Off /\ ring # 0

FollowMove ==
  /\ Monitored /\ ShouldRun
  /\ choices < MaxChoices /\ choices' = choices + 1
  /\ frames' = IF frames \in {Identity, ring} THEN ring ELSE Mixed
  /\ UNCHANGED <<crossed, neutralizationHeld, runVars, profile, frameDriverSession,
                 frameRecoveryPending>>
  /\ SynchronizeCalibrationDriver

MovesOverflow ==
  /\ Monitored /\ ShouldRun
  /\ EndCalibrationRun
  /\ profile' = Off
  /\ UNCHANGED <<crossed, choices, frames, frameDriverSession, frameRecoveryPending>>
  /\ SynchronizeCalibrationDriver

QuietMonitor ==
  /\ Monitored /\ ~crossed
  /\ UNCHANGED <<crossed, neutralizationHeld, runVars, wantVars, choices, linkVars>>

-----------------------------------------------------------------------------
(* CalibrationTick's state machine.                                         *)

Step == uiPc = "state" /\ uiPc' = "idle"

EndStep == UNCHANGED <<othersVars, hubVars, completions, pendingNeutralization, stopping>>

Waits ==
  /\ Step /\ EndStep
  /\ UNCHANGED <<neutralizationHeld, runVars, neutralized, wantVars, choices, linkVars>>

ScanDueUnlessRefused == ~lastVerdictRefused /\ nextSequence < MaxSequence

(* Once a second: here, whenever the numbering has room.                    *)
ScanDue == nextSequence < MaxSequence

Scan ==
  /\ Step /\ EndStep /\ state = "None" /\ ScanDue
  /\ UNCHANGED <<neutralizationHeld, runVars, neutralized, wantVars, choices>>
  /\ SynchronizeCalibrationDriver

BeginCollection ==
  /\ state' = "Collecting"
  /\ preserveTrackerFrames' \in {FALSE, profile # Off /\ enabled /\ ~frameRecoveryPending}

(* Preflight found both devices in the driver's ring.                       *)
CollectFromRing ==
  /\ Step /\ EndStep /\ state = "Begin" /\ ring # 0
  /\ BeginCollection
  /\ UNCHANGED <<neutralizationHeld, neutralizationSequence, neutralized, wantVars, choices, linkVars>>

NeutralizeUnheld ==
  /\ nextSequence' = nextSequence + 1
  /\ pendingNeutralization' = <<nextSequence'>>
  /\ UNCHANGED neutralizationHeld

Neutralize ==
  /\ nextSequence' = nextSequence + 1
  /\ pendingNeutralization' = <<nextSequence'>>
  /\ neutralizationHeld' = TRUE

(* It did not: measure runtime poses with both slots neutral.               *)
NeutralizeCalibrationDevices ==
  /\ Step /\ state = "Begin"
  /\ Neutralize
  /\ neutralizationSequence' = nextSequence'
  /\ state' = "Neutralizing"
  /\ UNCHANGED <<othersVars, hubVars, completions, stopping, neutralized, preserveTrackerFrames,
                 wantVars, choices, pendingState, lastSubmission, enabled, trackerVars>>

TakeCalibrationNeutralization ==
  neutralized # <<>> /\ Head(neutralized).sequence = neutralizationSequence

Neutralized ==
  /\ Step /\ EndStep /\ state = "Neutralizing"
  /\ TakeCalibrationNeutralization /\ neutralized' = <<>>
  /\ UNCHANGED choices
  /\ IF Head(neutralized).ok
     THEN BeginCollection
          /\ UNCHANGED <<neutralizationHeld, neutralizationSequence, wantVars, linkVars>>
     ELSE AbortCalibration

(* A device that does not track, a lost ring, a solve that fails.           *)
MeasurementFails ==
  /\ Step /\ EndStep /\ state \in {"Begin", "Collecting"}
  /\ AbortCalibration
  /\ UNCHANGED <<neutralized, choices>>

FinishCalibration ==
  /\ Step /\ EndStep /\ state = "Collecting"
  /\ profile' \in Profiles
  /\ frames' = IF preserveTrackerFrames THEN frames ELSE Identity
  /\ EndCalibrationRun
  /\ UNCHANGED <<neutralized, choices, frameDriverSession, frameRecoveryPending>>
  /\ SynchronizeCalibrationDriver

(* A step with nothing to do: no scan due, more to collect, no answer yet.  *)
NothingDue ==
  /\ Waits
  /\ ~(state = "Neutralizing" /\ TakeCalibrationNeutralization)

UITick ==
  \/ BeginTick \/ PollOne
  \/ StartFrameSession \/ FollowMove \/ MovesOverflow \/ QuietMonitor
  \/ NothingDue \/ Scan \/ CollectFromRing \/ NeutralizeCalibrationDevices \/ Neutralized
  \/ MeasurementFails \/ FinishCalibration

-----------------------------------------------------------------------------
(* The player, and the overlay process.                                     *)

StartCalibration ==
  /\ uiPc = "idle" /\ state = "None"
  /\ choices < MaxChoices /\ choices' = choices + 1
  /\ state' = "Begin"
  /\ UNCHANGED <<othersVars, hubVars, queueVars, completions, uiPc, neutralizationSequence,
                 preserveTrackerFrames, neutralized, wantVars, enabled, trackerVars>>

CancelCalibration ==
  /\ uiPc = "idle" /\ state # "None"
  /\ AbortCalibration
  /\ UNCHANGED <<othersVars, hubVars, completions, pendingNeutralization, stopping, uiPc,
                 neutralized, choices>>

(* ShutdownCalibrator up to the join of the worker.                         *)
Quit ==
  /\ uiPc = "idle" /\ uiPc' = "join"
  /\ choices < MaxChoices /\ choices' = choices + 1
  /\ stopping' = TRUE /\ neutralizationHeld' = FALSE
  /\ state' = "None" /\ neutralizationSequence' = 0 /\ preserveTrackerFrames' = FALSE
  /\ UNCHANGED <<wantVars, neutralized>>
  /\ IF neutralizationSequence # 0 THEN SynchronizeCalibrationDriver ELSE UNCHANGED linkVars
  /\ UNCHANGED <<othersVars, hubVars, completions, pendingNeutralization>>

(* What the next launch starts with, profile apart.                         *)
Ended ==
  /\ uiPc' = "gone" /\ ring' = 0 /\ crossed' = FALSE /\ conn' = 0 /\ worker' = Idle
  /\ pendingState' = <<>> /\ pendingNeutralization' = <<>> /\ neutralizationHeld' = FALSE
  /\ stopping' = FALSE /\ lastSubmission' = <<>> /\ nextSequence' = 0 /\ completions' = <<>>
  /\ state' = "None" /\ neutralizationSequence' = 0 /\ neutralized' = <<>>
  /\ preserveTrackerFrames' = FALSE /\ enabled' = FALSE /\ frames' = Identity
  /\ frameDriverSession' = 0 /\ frameRecoveryPending' = TRUE
  /\ latestStateChange' = 0 /\ lastVerdictRefused' = FALSE /\ stateChangedSinceVerdict' = FALSE
  /\ UNCHANGED <<driverVars, profile, choices>>

Joined == uiPc = "join" /\ worker.pc = "exited" /\ Ended /\ UNCHANGED flakes

Crash == uiPc # "gone" /\ flakes < MaxFlakes /\ flakes' = flakes + 1 /\ Ended

(* InitCalibrator, LoadProfile, StartCalibrationDriver.                     *)
Launch ==
  /\ uiPc = "gone" /\ uiPc' = "idle"
  /\ UNCHANGED <<othersVars, hubVars, queueVars, completions, runVars, neutralized, wantVars,
                 choices, enabled, trackerVars>>

Next ==
  \/ DriverStarts \/ DriverDies \/ HubOpens \/ HubSeesDeath \/ HubFails
  \/ Worker \/ AnswerLost
  \/ UITick \/ StartCalibration \/ CancelCalibration \/ Quit \/ Joined \/ Crash \/ Launch

Spec == Init /\ [][Next]_vars

(* Threads run; answers come, but for the bounded failures; a scan falls    *)
(* due.  Nobody has to start a driver, a run or the overlay.                *)
FairSpec ==
  /\ Spec
  /\ WF_vars(Worker) /\ WF_vars(UITick) /\ SF_vars(Scan)
  /\ WF_vars(HubOpens) /\ WF_vars(HubSeesDeath)

-----------------------------------------------------------------------------
(* Properties.                                                              *)

Requests == {"handshake", "get", "set", "disable reference", "disable target"}
Jobs == [profile : Wanted, frames : Frames, session : {0} \cup Sessions, recover : BOOLEAN]
Verdicts ==
  [sequence : Nat, neutralize : BOOLEAN, ok : BOOLEAN, enabled : BOOLEAN,
   session : {0} \cup Sessions, key : Wanted, checked : BOOLEAN, recovered : BOOLEAN,
   frames : Frames]
Workers ==
  [pc : {"wait", "send", "post", "exited"}, sequence : Nat, request : Requests \cup {"none"},
   replay : BOOLEAN, job : Jobs, session : {0} \cup Sessions, reconnected : BOOLEAN,
   checked : BOOLEAN, recovered : BOOLEAN, frames : Frames, ok : BOOLEAN]
AtMostOne(s, S) == s = <<>> \/ (s = <<Head(s)>> /\ Head(s) \in S)

DriverTypes ==
  /\ driver \in [session : {0} \cup Sessions, shown : Wanted, frames : Frames,
                 neutral : SUBSET Selected, saved : [key : Wanted, frames : Frames]]
  /\ started \in 0 .. MaxSessions /\ flakes \in Nat
  /\ ring \in {0} \cup Sessions /\ conn \in {0} \cup Sessions /\ crossed \in BOOLEAN

WorkerTypes ==
  /\ worker \in Workers
  /\ worker.pc \in {"send", "post"} => worker.request \in Requests
  /\ AtMostOne(pendingState, [sequence : Nat, job : Jobs])
  /\ AtMostOne(pendingNeutralization, Nat)
  /\ neutralizationHeld \in BOOLEAN /\ stopping \in BOOLEAN
  /\ AtMostOne(lastSubmission, Jobs) /\ nextSequence \in Nat
  /\ completions \in Seq(Verdicts)

UITypes ==
  /\ uiPc \in {"idle", "monitor", "state", "join", "gone"}
  /\ state \in {"None", "Begin", "Neutralizing", "Collecting"}
  /\ neutralizationSequence \in Nat
  /\ AtMostOne(neutralized, [sequence : Nat, ok : BOOLEAN])
  /\ preserveTrackerFrames \in BOOLEAN /\ profile \in Wanted /\ enabled \in BOOLEAN
  /\ frames \in Frames /\ frameDriverSession \in {0} \cup Sessions
  /\ frameRecoveryPending \in BOOLEAN /\ choices \in Nat
  /\ latestStateChange \in Nat /\ lastVerdictRefused \in BOOLEAN
  /\ stateChangedSinceVerdict \in BOOLEAN

(* Values are of their types, and a request is sent only when there is one. *)
TypeOK == DriverTypes /\ WorkerTypes /\ UITypes

(* A run that measures runtime poses sees neither of its two devices        *)
(* through a calibration, whatever was queued, retried or in flight.        *)
NeutralWhileMeasured ==
  state = "Collecting" /\ neutralizationSequence # 0 =>
    driver.shown = Off \/ driver.neutral = Selected

(* When the overlay holds a success of what it last submitted, the driver   *)
(* it names shows that calibration and, unless recovered, those frames.     *)
VerdictMeansApplied ==
  /\ ~stateChangedSinceVerdict /\ ~lastVerdictRefused /\ lastSubmission # <<>>
  /\ frameDriverSession = driver.session /\ driver.session # 0 /\ driver.neutral = {}
  => LET job == Head(lastSubmission) IN
     /\ driver.shown = job.profile
     /\ job.recover \/ driver.frames = job.frames

(* A worker that has ended has sent, or failed to send, everything the      *)
(* overlay had submitted: the state that hands back neutralized devices too.*)
QuitDrains ==
  worker.pc = "exited" => pendingState = <<>> /\ pendingNeutralization = <<>>

(* A calibration the driver refused comes back on only when something else  *)
(* was asked of the driver or the driver said yes, never by the scan.       *)
RefusalHolds ==
  [][~enabled /\ enabled' =>
       \/ lastSubmission' # lastSubmission
       \/ completions # <<>> /\ completions' = Tail(completions) /\ Head(completions).ok]_vars

(* A run that asked for neutral devices is told, whatever becomes of the    *)
(* driver.                                                                  *)
MeasurementProceeds == []<>(state # "Neutralizing")

Settled ==
  /\ driver.session # 0 /\ profile \in Profiles \ Refused
  /\ state = "None" /\ uiPc \notin {"join", "gone"}

Applied == enabled /\ driver.shown = profile

(* The scan repairs whatever was lost, as long as the overlay does not name *)
(* another session than the driver's.                                       *)
RetriesUntilApplied ==
  <>[](Settled /\ frameDriverSession \in {0, driver.session}) => <>[]Applied

(* The same of every driver the overlay meets.                              *)
ReachesDriver == <>[]Settled => <>[]Applied

=============================================================================
