-------------------------- MODULE DriverLinkProof --------------------------
(***************************************************************************)
(* What the overlay believes of the driver, and what a measurement sees,   *)
(* for any number of calibrations, driver lives and faults.                *)
(***************************************************************************)
EXTENDS DriverLink, SequenceTheorems, TLAPS

Disables == {"disable reference", "disable target"}
States == {"handshake", "get", "set"}

InHand == worker.pc \in {"send", "post"}
SendingState == worker.pc = "send" /\ worker.request \in States
HasState == InHand /\ worker.request \in States

-----------------------------------------------------------------------------
(* The inductive invariant.                                                 *)

\* Whoever is measured is held, and numbers are given out in order.
Numbered ==
  /\ neutralizationSequence # 0 => neutralizationHeld /\ state \in {"Neutralizing", "Collecting"}
  /\ neutralizationSequence <= nextSequence /\ latestStateChange <= nextSequence
  /\ worker.sequence <= nextSequence
  /\ worker.pc \in {"wait", "exited"} => worker = Idle \/ worker = [Idle EXCEPT !.pc = "exited"]
  /\ neutralized # <<>> => Head(neutralized).sequence <= nextSequence
  /\ \A i \in 1 .. Len(completions) : completions[i].sequence <= nextSequence
  /\ pendingState # <<>> => Head(pendingState).sequence <= nextSequence
  /\ pendingNeutralization # <<>> => Head(pendingNeutralization) <= nextSequence

Waiting == pendingNeutralization = <<neutralizationSequence>>
Clear == driver.shown = Off \/ driver.neutral = Selected

\* From the moment the worker takes a run's neutralization, no state is sent.
Exclusive ==
  neutralizationSequence # 0 =>
    /\ ~Waiting => ~SendingState
    /\ Waiting =>
         /\ state = "Neutralizing" /\ worker.sequence # neutralizationSequence
         /\ neutralized # <<>> => Head(neutralized).sequence # neutralizationSequence
         /\ \A i \in 1 .. Len(completions) : completions[i].sequence # neutralizationSequence

\* What the worker has neutralized so far, and that success comes last.
HalfClear ==
  /\ worker.pc = "send" => ~worker.ok
  /\ worker.pc = "send" /\ worker.request = "disable target" =>
       driver.shown = Off \/ 1 \in driver.neutral
  /\ worker.pc = "post" /\ worker.request \in Disables /\ worker.ok => Clear

\* Whoever has been told, or is about to be, that the devices are neutral.
Told ==
  neutralizationSequence # 0 =>
    /\ state = "Collecting" => Clear
    /\ neutralized # <<>> =>
         (Head(neutralized).sequence = neutralizationSequence /\ Head(neutralized).ok => Clear)
    /\ \A i \in 1 .. Len(completions) :
         /\ completions[i].sequence = neutralizationSequence
         /\ completions[i].neutralize /\ completions[i].ok
         => Clear

\* Nothing is submitted once the overlay waits for its worker to end.
Stopping ==
  /\ stopping <=> uiPc = "join"
  /\ stopping => ~neutralizationHeld
  /\ worker.pc = "exited" => stopping /\ pendingState = <<>> /\ pendingNeutralization = <<>>

MeasureInv == Numbered /\ Exclusive /\ HalfClear /\ Told /\ Stopping

\* A driver's life is named only once it has started, and no two are alike.
Lives ==
  /\ driver.session \in {0, started}
  /\ frameDriverSession <= started /\ worker.session <= started
  /\ \A i \in 1 .. Len(completions) : completions[i].session <= started

Shows(job) == driver.shown = job.profile /\ (job.recover \/ driver.frames = job.frames)
Wants(job) == lastSubmission = <<job>>

\* States overtake nothing on their way, and the current ones say the same.
InOrder ==
  /\ pendingState # <<>> =>
       /\ Wants(Head(pendingState).job)
       /\ Head(pendingState).sequence >= latestStateChange
       /\ HasState => worker.sequence < Head(pendingState).sequence
       /\ \A i \in 1 .. Len(completions) :
            ~completions[i].neutralize => completions[i].sequence < Head(pendingState).sequence
  /\ HasState =>
       /\ worker.sequence >= latestStateChange => Wants(worker.job)
       /\ \A i \in 1 .. Len(completions) :
            ~completions[i].neutralize => completions[i].sequence < worker.sequence
       /\ worker.job.recover \/ (worker.frames = worker.job.frames /\ worker.request # "get")
  /\ \A i, j \in 1 .. Len(completions) :
       i < j /\ ~completions[i].neutralize /\ ~completions[j].neutralize =>
         completions[i].sequence < completions[j].sequence

\* A success under way is of a driver that shows it, unless it is gone.
Answers ==
  /\ worker.pc = "post" /\ worker.ok /\ worker.request \in States =>
       worker.session # 0 /\ (worker.session = driver.session => Shows(worker.job))
  /\ \A i \in 1 .. Len(completions) :
       ~completions[i].neutralize /\ completions[i].sequence >= latestStateChange =>
         /\ lastSubmission # <<>> /\ completions[i].key = Head(lastSubmission).profile
         /\ completions[i].ok => completions[i].session # 0
         /\ completions[i].enabled <=> (completions[i].ok /\ completions[i].key # Off)
         /\ completions[i].ok /\ completions[i].session = driver.session =>
              Shows(Head(lastSubmission))

Satisfied == ~stateChangedSinceVerdict /\ ~lastVerdictRefused /\ lastSubmission # <<>>

\* The verdict the overlay holds, and that nothing older is still to come.
Held ==
  Satisfied =>
    /\ HasState => worker.sequence >= latestStateChange
    /\ frameDriverSession = driver.session /\ driver.session # 0 => Shows(Head(lastSubmission))

\* Why the calibration is off.
OffBecause ==
  ~enabled /\ lastSubmission # <<>> =>
    Head(lastSubmission).profile = Off \/ (lastVerdictRefused /\ ~stateChangedSinceVerdict)

VerdictInv == Lives /\ InOrder /\ Answers /\ Held /\ OffBecause

IInv == TypeOK /\ MeasureInv /\ VerdictInv

-----------------------------------------------------------------------------
(* What the actions have in common.                                         *)

LEMMA OffIsNot == Off \notin Profiles
  BY ProfilesAssumption

WorkerAction ==
  \/ TakeNeutralization \/ TakeState \/ Exit \/ Connect \/ ConnectFails \/ PipeGone \/ AnswerLost
  \/ Answered \/ Post

\* The handlers that leave the worker's answers alone.
Handler ==
  \/ StartFrameSession \/ FollowMove \/ MovesOverflow \/ QuietMonitor
  \/ NothingDue \/ Scan \/ CollectFromRing \/ Neutralized \/ MeasurementFails \/ FinishCalibration
  \/ StartCalibration \/ CancelCalibration \/ Quit

LEMMA IdentityFrame == Identity \in Frames
  BY BoundsAssumption DEF Identity, Frames

LEMMA NextCases ==
  ASSUME Next
  PROVE  \/ DriverStarts \/ DriverDies
         \/ HubOpens \/ HubSeesDeath \/ HubFails
         \/ WorkerAction \/ BeginTick \/ PollOne \/ NeutralizeCalibrationDevices \/ Handler
         \/ Ended /\ flakes' \in {flakes, flakes + 1}
         \/ Launch
  BY DEF Next, Worker, UITick, WorkerAction, Handler, Joined, Crash

LEMMA AnswerCases ==
  ASSUME TypeOK, AfterAnswer
  PROVE  \/ /\ worker.request = "handshake"
            /\ LET begun == [worker EXCEPT !.session = driver.session, !.reconnected = FALSE,
                                           !.replay = FALSE]
               IN \/ worker' = [begun EXCEPT !.pc = "post"]
                  \/ worker.job.recover /\ worker' = [begun EXCEPT !.request = "get"]
                  \/ ~worker.job.recover /\ worker' = [begun EXCEPT !.request = "set"]
         \/ /\ worker.request = "get"
            /\ \E found \in BOOLEAN, f \in Frames :
                 worker' = [worker EXCEPT !.request = "set", !.replay = FALSE, !.checked = TRUE,
                                          !.recovered = found, !.frames = f]
         \/ worker.request = "get" /\ worker' = Failed
         \/ worker.request = "set" /\
            worker' = [worker EXCEPT !.pc = "post", !.ok = Accepted /\ ~worker.reconnected]
         \/ worker.request = "disable reference" /\
            worker' = [worker EXCEPT !.request = "disable target", !.replay = FALSE]
         \/ worker.request = "disable target" /\
            worker' = [worker EXCEPT !.pc = "post", !.ok = TRUE]
  <1>1. CASE worker.request = "handshake" /\ worker' = AfterHandshake
    BY <1>1 DEF AfterHandshake
  <1>2. CASE worker.request = "get" /\ worker' = RecoverTrackerFrames
    <2> DEFINE found == driver.saved.key = worker.job.profile
    <2>1. found \in BOOLEAN /\ (IF found THEN driver.saved.frames ELSE worker.job.frames) \in Frames
      BY DEF TypeOK, DriverTypes, WorkerTypes, Workers, Jobs
    <2> QED
      BY <1>2, <2>1 DEF RecoverTrackerFrames
  <1> QED
    BY <1>1, <1>2 DEF AfterAnswer

\* What the handlers submit.
Submitted(job) ==
  /\ job = [profile |-> profile', frames |-> frames', session |-> frameDriverSession',
            recover |-> frameRecoveryPending' /\ profile' # Off]
  /\ nextSequence' = nextSequence + 1
  /\ pendingState' = <<[sequence |-> nextSequence + 1, job |-> job]>>
  /\ lastSubmission' = <<job>>
  /\ \/ /\ lastSubmission = <<job>>
        /\ UNCHANGED <<latestStateChange, stateChangedSinceVerdict>>
     \/ /\ lastSubmission # <<job>>
        /\ latestStateChange' = nextSequence + 1 /\ stateChangedSinceVerdict' = TRUE
  /\ UNCHANGED lastVerdictRefused
  /\ enabled' = (profile' # Off /\ ~(lastVerdictRefused /\ ~stateChangedSinceVerdict'))

LEMMA Submits ==
  ASSUME TypeOK, SynchronizeCalibrationDriver
  PROVE  \E job : Submitted(job)
  <1> DEFINE job == [profile |-> profile', frames |-> frames', session |-> frameDriverSession',
                     recover |-> frameRecoveryPending' /\ profile' # Off]
  <1> HIDE DEF job
  <1>1. /\ nextSequence' = nextSequence + 1
        /\ pendingState' = <<[sequence |-> nextSequence', job |-> job]>>
        /\ lastSubmission' = <<job>>
        /\ NoteSubmission(job)
        /\ enabled' = (profile' # Off /\ ~(lastVerdictRefused /\ ~stateChangedSinceVerdict'))
    BY ZenonT(20) DEF SynchronizeCalibrationDriver, job
  <1>2. /\ UNCHANGED lastVerdictRefused
        /\ \/ lastSubmission = <<job>> /\ UNCHANGED <<latestStateChange, stateChangedSinceVerdict>>
           \/ /\ lastSubmission # <<job>>
              /\ latestStateChange' = nextSequence + 1 /\ stateChangedSinceVerdict' = TRUE
    <2>1. CASE lastSubmission = <<job>>
      <3>1. (lastSubmission # <<job>>) = FALSE
        BY <2>1
      <3>2. stateChangedSinceVerdict \in BOOLEAN
        BY DEF TypeOK, UITypes
      <3> QED
        BY <1>1, <2>1, <3>1, <3>2, ZenonT(20) DEF NoteSubmission
    <2>2. CASE lastSubmission # <<job>>
      <3>1. (lastSubmission # <<job>>) = TRUE
        BY <2>2
      <3> QED
        BY <1>1, <2>2, <3>1, ZenonT(20) DEF NoteSubmission
    <2> QED
      BY <2>1, <2>2
  <1>3. Submitted(job)
    BY <1>1, <1>2 DEF Submitted, job
  <1> QED
    BY <1>3

\* Either a handler submits, or it leaves what it would submit and its answers alone.
Link == (\E job : Submitted(job)) \/ UNCHANGED linkVars

RunKept ==
  /\ UNCHANGED <<neutralizationSequence, neutralizationHeld>>
  /\ \/ UNCHANGED state
     \/ neutralizationSequence = 0
     \/ /\ state' = "Collecting" /\ neutralized # <<>>
        /\ Head(neutralized).sequence = neutralizationSequence /\ Head(neutralized).ok

RunEnds ==
  /\ neutralizationSequence' = 0 /\ state' = "None" /\ preserveTrackerFrames' = FALSE
  /\ neutralizationHeld' \in {neutralizationHeld, FALSE}

LEMMA Ends ==
  ASSUME TypeOK, EndCalibrationRun
  PROVE  RunEnds
  <1>1. neutralizationHeld' \in {neutralizationHeld, FALSE}
    <2>1. CASE neutralizationSequence = 0
      <3>1. neutralizationHeld' = neutralizationHeld
        BY <2>1, ZenonT(20) DEF EndCalibrationRun, TypeOK, WorkerTypes
      <3> QED
        BY <3>1
    <2>2. CASE neutralizationSequence # 0
      <3>1. (neutralizationSequence = 0) = FALSE
        BY <2>2
      <3>2. neutralizationHeld' = FALSE
        BY <3>1, ZenonT(20) DEF EndCalibrationRun
      <3> QED
        BY <3>2
    <2> QED
      BY <2>1, <2>2
  <1> QED
    BY <1>1 DEF EndCalibrationRun, RunEnds

LEMMA Aborts ==
  ASSUME TypeOK, AbortCalibration
  PROVE  RunEnds /\ Link /\ UNCHANGED wantVars
  BY Ends, Submits DEF AbortCalibration, Link

\* What a handler leaves alone, what it may submit, and what becomes of the run.
HandlerEffect ==
  /\ UNCHANGED <<othersVars, ring, completions, pendingNeutralization>>
  /\ Link
  /\ RunKept \/ RunEnds
  /\ neutralized' \in {neutralized, <<>>}
  /\ \/ stopping' = stopping /\ {uiPc, uiPc'} \cap {"join", "gone"} = {}
     \/ stopping' = TRUE /\ uiPc' = "join" /\ uiPc = "idle" /\ neutralizationHeld' = FALSE
  /\ frameDriverSession' \in {frameDriverSession, 0}

HandlerTypes ==
  /\ profile' \in Wanted /\ frames' \in Frames /\ frameDriverSession' \in {0} \cup Sessions
  /\ frameRecoveryPending' \in BOOLEAN /\ preserveTrackerFrames' \in BOOLEAN
  /\ crossed' \in BOOLEAN /\ choices' \in Nat
  /\ state' \in {"None", "Begin", "Neutralizing", "Collecting"}
  /\ uiPc' \in {"idle", "monitor", "state", "join", "gone"}

LEMMA Handles ==
  ASSUME TypeOK, Numbered, Handler
  PROVE  HandlerEffect /\ HandlerTypes
  <1> USE DEF othersVars, HandlerEffect, HandlerTypes
  <1>1. CASE StartFrameSession
    <2>1. Link
      BY <1>1, Submits DEF StartFrameSession, Link
    <2>2. crossed' = FALSE /\ frameRecoveryPending' = TRUE
      BY <1>1, ZenonT(20) DEF StartFrameSession
    <2>3. HandlerTypes
      BY <1>1, <2>2, IdentityFrame DEF StartFrameSession, Monitored, TypeOK, UITypes, DriverTypes, runVars
    <2>4. HandlerEffect
      BY <1>1, <2>1, <2>2 DEF StartFrameSession, Monitored, RunKept, TypeOK, UITypes, DriverTypes, runVars
    <2> QED
      BY <2>3, <2>4
  <1>2. CASE FollowMove
    <2>1. Link
      BY <1>2, Submits DEF FollowMove, Link
    <2>2. frames' \in Frames
      BY <1>2, BoundsAssumption DEF FollowMove, ShouldRun, TypeOK, DriverTypes, Frames, Mixed, Identity, Sessions
    <2> QED
      BY <1>2, <2>1, <2>2 DEF FollowMove, Monitored, RunKept, TypeOK, UITypes, DriverTypes, runVars
  <1>3. CASE MovesOverflow
    <2>1. Link /\ RunEnds
      BY <1>3, Submits, Ends DEF MovesOverflow, Link
    <2> QED
      BY <1>3, <2>1 DEF MovesOverflow, Monitored, RunEnds, TypeOK, UITypes, DriverTypes, Wanted
  <1>4. CASE QuietMonitor
    BY <1>4 DEF QuietMonitor, Monitored, Link, RunKept, runVars, wantVars, TypeOK, UITypes, DriverTypes
  <1>5. CASE NothingDue
    BY <1>5 DEF NothingDue, Waits, Step, EndStep, hubVars, Link, RunKept, runVars, wantVars, TypeOK,
       UITypes, DriverTypes
  <1>6. CASE Scan
    <2>1. Link
      BY <1>6, Submits DEF Scan, Link
    <2> QED
      BY <1>6, <2>1 DEF Scan, Step, EndStep, hubVars, RunKept, runVars, wantVars, TypeOK, UITypes,
         DriverTypes
  <1>7. CASE CollectFromRing
    <2>1. preserveTrackerFrames' \in BOOLEAN
      BY <1>7, ZenonT(20) DEF CollectFromRing, BeginCollection
    <2>2. neutralizationSequence = 0
      BY <1>7 DEF CollectFromRing, Numbered
    <2> QED
      BY <1>7, <2>1, <2>2 DEF CollectFromRing, BeginCollection, Step, EndStep, hubVars, Link, RunKept,
         wantVars, TypeOK, UITypes, DriverTypes
  <1>8. CASE Neutralized
    <2>1. CASE Head(neutralized).ok
      <3>1. preserveTrackerFrames' \in BOOLEAN
        BY <1>8, <2>1, ZenonT(20) DEF Neutralized, BeginCollection
      <3> QED
        BY <1>8, <2>1, <3>1 DEF Neutralized, BeginCollection, TakeCalibrationNeutralization, Step, EndStep,
           hubVars, Link, RunKept, wantVars, TypeOK, UITypes, DriverTypes
    <2>2. CASE ~Head(neutralized).ok
      <3>1. RunEnds /\ Link /\ UNCHANGED wantVars
        BY <1>8, <2>2, Aborts DEF Neutralized
      <3> QED
        BY <1>8, <2>2, <3>1 DEF Neutralized, Step, EndStep, hubVars, RunEnds, wantVars, TypeOK, UITypes,
           DriverTypes
    <2> QED
      BY <2>1, <2>2
  <1>9. CASE MeasurementFails
    <2>1. RunEnds /\ Link /\ UNCHANGED wantVars
      BY <1>9, Aborts DEF MeasurementFails
    <2> QED
      BY <1>9, <2>1 DEF MeasurementFails, Step, EndStep, hubVars, RunEnds, wantVars, TypeOK, UITypes,
         DriverTypes
  <1>10. CASE FinishCalibration
    <2>1. Link /\ RunEnds
      BY <1>10, Submits, Ends DEF FinishCalibration, Link
    <2>2. HandlerTypes
      BY <1>10, <2>1, IdentityFrame DEF FinishCalibration, Step, EndStep, hubVars, RunEnds, TypeOK,
         UITypes, DriverTypes, Wanted
    <2>3. HandlerEffect
      BY <1>10, <2>1 DEF FinishCalibration, Step, EndStep, hubVars, TypeOK, UITypes, DriverTypes
    <2> QED
      BY <2>2, <2>3
  <1>11. CASE StartCalibration
    <2>1. neutralizationSequence = 0
      BY <1>11 DEF StartCalibration, Numbered
    <2> QED
      BY <1>11, <2>1 DEF StartCalibration, hubVars, queueVars, Link, linkVars, RunKept, wantVars,
         TypeOK, UITypes, DriverTypes
  <1>12. CASE CancelCalibration
    <2>1. RunEnds /\ Link /\ UNCHANGED wantVars
      BY <1>12, Aborts DEF CancelCalibration
    <2> QED
      BY <1>12, <2>1 DEF CancelCalibration, hubVars, RunEnds, wantVars, TypeOK, UITypes, DriverTypes
  <1>13. CASE Quit
    <2>1. Link
      BY <1>13, Submits DEF Quit, Link
    <2>2. stopping' = TRUE /\ neutralizationHeld' = FALSE /\ preserveTrackerFrames' \in BOOLEAN
      BY <1>13, ZenonT(20) DEF Quit
    <2>3. RunEnds
      BY <1>13, ZenonT(20) DEF Quit, RunEnds
    <2>4. HandlerTypes
      BY <1>13, <2>2 DEF Quit, hubVars, wantVars, TypeOK, UITypes, DriverTypes
    <2>5. HandlerEffect
      BY <1>13, <2>1, <2>2, <2>3 DEF Quit, hubVars, wantVars, TypeOK, UITypes, DriverTypes
    <2> QED
      BY <2>4, <2>5
  <1> QED
    BY <1>1, <1>2, <1>3, <1>4, <1>5, <1>6, <1>7, <1>8, <1>9, <1>10, <1>11, <1>12, <1>13 DEF Handler

-----------------------------------------------------------------------------
(* Types.                                                                   *)

LEMMA IdleType ==
  /\ Idle \in Workers
  /\ Idle.pc = "wait" /\ Idle.sequence = 0 /\ Idle.request = "none" /\ ~Idle.ok /\ Idle.session = 0
  BY IdentityFrame DEF Idle, Workers, Jobs, Wanted

LEMMA FailedType ==
  ASSUME TypeOK, worker.pc = "send"
  PROVE  /\ Failed \in Workers /\ Failed.pc = "post" /\ ~Failed.ok
         /\ Failed.request = worker.request /\ Failed.request \in Requests
         /\ Failed.sequence = worker.sequence /\ Failed.job = worker.job
         /\ Failed.session = worker.session /\ Failed.frames = worker.frames
  BY DEF Failed, TypeOK, WorkerTypes, Workers

LEMMA FreshType ==
  ASSUME NEW s \in {0} \cup Sessions
  PROVE  Fresh(s) \in [session : {0} \cup Sessions, shown : Wanted, frames : Frames,
                      neutral : SUBSET Selected, saved : [key : Wanted, frames : Frames]]
  BY IdentityFrame DEF Fresh, Wanted

LEMMA HandledType ==
  ASSUME TypeOK
  PROVE  /\ Handled \in [session : {0} \cup Sessions, shown : Wanted, frames : Frames,
                         neutral : SUBSET Selected, saved : [key : Wanted, frames : Frames]]
         /\ Handled.session = driver.session
         /\ worker.request # "set" =>
              Handled.shown = driver.shown /\ Handled.neutral = driver.neutral \cup Disabled
         /\ worker.request = "set" => Handled \in {driver, TrySetRuntimeState}
  <1>1. Disabled \subseteq Selected
    BY DEF Disabled
  <1>2. CASE worker.request = "set" /\ Accepted
    <2>1. Handled = TrySetRuntimeState
      BY <1>2 DEF Handled
    <2> QED
      BY <1>2, <2>1 DEF TrySetRuntimeState, TypeOK, DriverTypes, WorkerTypes, Workers, Jobs
  <1>3. CASE ~(worker.request = "set" /\ Accepted)
    <2>1. Handled = [driver EXCEPT !.neutral = driver.neutral \cup Disabled]
      BY <1>3 DEF Handled
    <2>2. worker.request = "set" => Disabled = {}
      <3>1. /\ <<"disable reference", "disable target">>[1] # "set"
            /\ <<"disable reference", "disable target">>[2] # "set"
        OBVIOUS
      <3> QED
        BY <3>1 DEF Disabled, Selected
    <2>3. worker.request = "set" => Handled = driver
      BY <2>1, <2>2 DEF TypeOK, DriverTypes
    <2> QED
      BY <1>1, <2>1, <2>3 DEF TypeOK, DriverTypes
  <1> QED
    BY <1>2, <1>3

LEMMA TypeInit == Init => TypeOK
  <1> SUFFICES ASSUME Init PROVE TypeOK
    OBVIOUS
  <1>1. DriverTypes
    <2>1. crossed \in BOOLEAN
      BY ZenonT(20) DEF Init
    <2> QED
      BY <2>1, FreshType, BoundsAssumption DEF Init, DriverTypes
  <1>2. WorkerTypes
    <2>1. neutralizationHeld \in BOOLEAN /\ stopping \in BOOLEAN
      BY ZenonT(20) DEF Init
    <2>2. completions \in Seq(Verdicts)
      BY EmptySeq DEF Init
    <2> QED
      BY <2>1, <2>2, IdleType DEF Init, WorkerTypes, AtMostOne
  <1>3. UITypes
    <2>1. /\ preserveTrackerFrames \in BOOLEAN /\ enabled \in BOOLEAN /\ frameRecoveryPending \in BOOLEAN
          /\ lastVerdictRefused \in BOOLEAN /\ stateChangedSinceVerdict \in BOOLEAN
      BY ZenonT(20) DEF Init
    <2> QED
      BY <2>1, IdentityFrame DEF Init, UITypes, AtMostOne
  <1> QED
    BY <1>1, <1>2, <1>3 DEF TypeOK

LEMMA PostedTypes ==
  ASSUME TypeOK, worker.pc = "post"
  PROVE  /\ Completion \in Verdicts /\ Posted \in Seq(Verdicts)
         /\ Len(Posted) = Len(completions) + 1
         /\ \A i \in 1 .. Len(completions) : Posted[i] = completions[i]
         /\ Posted[Len(completions) + 1] = Completion
         /\ Completion.sequence = worker.sequence /\ Completion.session = worker.session
         /\ Completion.neutralize <=> worker.request \in Disables
         /\ Completion.ok <=> worker.ok
         /\ Completion.key = worker.job.profile
         /\ Completion.enabled <=> (worker.ok /\ worker.job.profile # Off)
  <1>1. (worker.request \in {"disable reference", "disable target"}) \in BOOLEAN
    OBVIOUS
  <1>2. (worker.ok /\ worker.job.profile # Off) \in BOOLEAN
    OBVIOUS
  <1>3. Completion \in Verdicts
    BY <1>1, <1>2 DEF Completion, Verdicts, TypeOK, WorkerTypes, Workers, Jobs
  <1>4. completions \in Seq(Verdicts)
    BY DEF TypeOK, WorkerTypes
  <1>5. /\ Posted \in Seq(Verdicts)
        /\ Len(Posted) = Len(completions) + 1
        /\ \A i \in 1 .. Len(completions) : Posted[i] = completions[i]
        /\ Posted[Len(completions) + 1] = Completion
    BY <1>3, <1>4, AppendProperties DEF Posted
  <1>6. /\ Completion.sequence = worker.sequence /\ Completion.session = worker.session
        /\ Completion.key = worker.job.profile
    BY DEF Completion
  <1>7. /\ Completion.neutralize <=> worker.request \in Disables
        /\ Completion.ok <=> worker.ok
        /\ Completion.enabled <=> (worker.ok /\ worker.job.profile # Off)
    BY DEF Completion, Disables
  <1> QED
    BY <1>3, <1>5, <1>6, <1>7

LEMMA CompletionTypes ==
  ASSUME TypeOK, NEW i \in 1 .. Len(completions)
  PROVE  /\ completions[i].sequence \in Nat /\ completions[i].session \in Nat
         /\ completions[i].key \in Wanted
  <1>1. completions \in Seq(Verdicts)
    BY DEF TypeOK, WorkerTypes
  <1>2. completions[i] \in Verdicts
    BY <1>1, ElementOfSeq
  <1> QED
    BY <1>2, BoundsAssumption DEF Verdicts, Sessions

LEMMA PolledTypes ==
  ASSUME TypeOK, completions # <<>>
  PROVE  /\ Head(completions) \in Verdicts /\ Tail(completions) \in Seq(Verdicts)
         /\ Len(completions) \in Nat /\ Len(completions) >= 1
         /\ Len(Tail(completions)) = Len(completions) - 1
         /\ \A i \in 1 .. Len(Tail(completions)) : Tail(completions)[i] = completions[i + 1]
         /\ Head(completions) = completions[1]
  BY HeadTailProperties, EmptySeq DEF TypeOK, WorkerTypes

LEMMA WorkerStep ==
  ASSUME TypeOK, WorkerAction
  PROVE  /\ DriverTypes' /\ WorkerTypes'
         /\ UNCHANGED <<uiVars, neutralizationHeld, stopping, lastSubmission, nextSequence, hubVars, started>>
  <1> USE DEF TypeOK, DriverTypes, WorkerTypes, uiVars, hubVars, queueVars, driverVars
  <1>1. CASE TakeNeutralization
    BY <1>1, IdleType DEF TakeNeutralization, AtMostOne, Requests, Workers
  <1>2. CASE TakeState
    BY <1>2, IdleType DEF TakeState, StateReady, AtMostOne, Requests, Jobs, Workers
  <1>3. CASE Exit
    BY <1>3 DEF Exit, Workers
  <1>4. CASE Connect
    BY <1>4 DEF Connect, Workers
  <1>5. CASE ConnectFails
    <2>1. flakes' \in Nat
      BY <1>5 DEF ConnectFails
    <2> QED
      BY <1>5, <2>1, FailedType DEF ConnectFails
  <1>6. ASSUME Broken, driver' \in {driver, Handled}, flakes' \in Nat, worker.pc = "send"
        PROVE  /\ DriverTypes' /\ WorkerTypes'
               /\ UNCHANGED <<uiVars, neutralizationHeld, stopping, lastSubmission, nextSequence,
                              hubVars, started>>
    <2>1. DriverTypes'
      BY <1>6, HandledType DEF Broken
    <2>2. worker' \in {Failed, [worker EXCEPT !.replay = TRUE]}
      BY <1>6 DEF Broken
    <2>3. worker' \in Workers /\ worker'.request \in Requests
      BY <1>6, <2>2, FailedType DEF Workers
    <2>4. WorkerTypes'
      BY <1>6, <2>3 DEF Broken
    <2> QED
      BY <1>6, <2>1, <2>4 DEF Broken
  <1>7. CASE PipeGone
    BY <1>6, <1>7 DEF PipeGone
  <1>8. CASE AnswerLost
    BY <1>6, <1>8 DEF AnswerLost
  <1>9. CASE Answered
    <2>1. DriverTypes'
      BY <1>9, HandledType DEF Answered
    <2>2. worker.pc = "send"
      BY <1>9 DEF Answered
    <2>3. (Accepted /\ ~worker.reconnected) \in BOOLEAN
      OBVIOUS
    <2>4. worker' \in Workers /\ worker'.request \in Requests
      <3>1. worker \in Workers /\ worker.request \in Requests
        BY <2>2
      <3>2. CASE worker.request = "handshake"
        <4> DEFINE begun == [worker EXCEPT !.session = driver.session, !.reconnected = FALSE,
                                           !.replay = FALSE]
        <4>1. begun \in Workers /\ begun.request \in Requests
          BY <3>1 DEF Workers
        <4>2. \/ worker' = [begun EXCEPT !.pc = "post"]
              \/ worker' = [begun EXCEPT !.request = "get"]
              \/ worker' = [begun EXCEPT !.request = "set"]
          BY <1>9, <3>2, AnswerCases DEF Answered
        <4> HIDE DEF begun
        <4> QED
          BY <4>1, <4>2 DEF Workers, Requests
      <3>3. CASE worker.request = "get"
        <4>1. CASE worker' = Failed
          BY <2>2, <4>1, FailedType
        <4>2. CASE \E found \in BOOLEAN, f \in Frames :
                    worker' = [worker EXCEPT !.request = "set", !.replay = FALSE, !.checked = TRUE,
                                             !.recovered = found, !.frames = f]
          BY <3>1, <4>2 DEF Workers, Requests
        <4> QED
          BY <1>9, <3>3, <4>1, <4>2, AnswerCases DEF Answered
      <3>4. CASE worker.request = "set"
        BY <1>9, <2>3, <3>1, <3>4, AnswerCases DEF Answered, Workers
      <3>5. CASE worker.request \in Disables
        BY <1>9, <3>1, <3>5, AnswerCases DEF Answered, Workers, Requests, Disables
      <3> QED
        BY <3>1, <3>2, <3>3, <3>4, <3>5 DEF Requests, Disables
    <2> QED
      BY <1>9, <2>1, <2>4 DEF Answered
  <1>10. CASE Post
    BY <1>10, IdleType, PostedTypes DEF Post
  <1> QED
    BY <1>1, <1>2, <1>3, <1>4, <1>5, <1>7, <1>8, <1>9, <1>10 DEF WorkerAction

LEMMA SubmittedTypes ==
  ASSUME TypeOK, NEW job, Submitted(job), HandlerTypes
  PROVE  /\ AtMostOne(pendingState, [sequence : Nat, job : Jobs])'
         /\ AtMostOne(lastSubmission, Jobs)' /\ nextSequence' \in Nat
         /\ latestStateChange' \in Nat /\ stateChangedSinceVerdict' \in BOOLEAN
         /\ lastVerdictRefused' \in BOOLEAN /\ enabled' \in BOOLEAN
  <1>1. (frameRecoveryPending' /\ profile' # Off) \in BOOLEAN
    OBVIOUS
  <1>2. job \in Jobs
    BY <1>1 DEF Submitted, HandlerTypes, Jobs
  <1>3. stateChangedSinceVerdict' \in BOOLEAN
    <2>1. CASE lastSubmission = <<job>>
      BY <2>1 DEF Submitted, TypeOK, UITypes
    <2>2. CASE lastSubmission # <<job>>
      <3>1. stateChangedSinceVerdict' = TRUE
        BY <2>2, ZenonT(20) DEF Submitted
      <3> QED
        BY <3>1
    <2> QED
      BY <2>1, <2>2
  <1>4. enabled' \in BOOLEAN
    <2>1. (profile' # Off /\ ~(lastVerdictRefused /\ ~stateChangedSinceVerdict')) \in BOOLEAN
      OBVIOUS
    <2> QED
      BY <2>1, ZenonT(20) DEF Submitted
  <1> QED
    BY <1>2, <1>3, <1>4 DEF Submitted, AtMostOne, TypeOK, WorkerTypes, UITypes

LEMMA TypeStep == TypeOK /\ Numbered /\ [Next]_vars => TypeOK'
  <1> SUFFICES ASSUME TypeOK, Numbered, [Next]_vars PROVE TypeOK'
    OBVIOUS
  <1> USE DEF TypeOK, driverVars, hubVars, queueVars, runVars, wantVars, trackerVars, uiVars, othersVars
  <1>1. CASE UNCHANGED vars
    BY <1>1 DEF vars, DriverTypes, WorkerTypes, UITypes, AtMostOne
  <1>2. CASE DriverStarts \/ DriverDies
    <2>1. DriverTypes'
      BY <1>2, FreshType, BoundsAssumption DEF DriverStarts, DriverDies, DriverTypes, Sessions
    <2> QED
      BY <1>2, <2>1 DEF DriverStarts, DriverDies, WorkerTypes, UITypes, AtMostOne
  <1>3. CASE HubOpens \/ HubSeesDeath \/ HubFails
    <2>1. crossed' \in BOOLEAN
      <3>1. CASE HubOpens
        BY <1>3, <3>1 DEF HubOpens, DriverTypes
      <3>2. CASE HubSeesDeath \/ HubFails
        <4>1. crossed' = TRUE
          BY <3>2, ZenonT(20) DEF HubSeesDeath, HubFails, HubBoundary
        <4> QED
          BY <4>1
      <3> QED
        BY <1>3, <3>1, <3>2
    <2>2. DriverTypes'
      BY <1>3, <2>1 DEF HubOpens, HubSeesDeath, HubFails, HubBoundary, DriverTypes
    <2> QED
      BY <1>3, <2>2 DEF HubOpens, HubSeesDeath, HubFails, HubBoundary, WorkerTypes, UITypes, AtMostOne
  <1>4. CASE WorkerAction
    <2>1. UITypes'
      BY <1>4, WorkerStep DEF UITypes, AtMostOne
    <2> QED
      BY <1>4, <2>1, WorkerStep
  <1>5. CASE BeginTick
    <2>1. WorkerTypes'
      BY <1>5 DEF BeginTick, WorkerTypes, AtMostOne
    <2> QED
      BY <1>5, <2>1 DEF BeginTick, DriverTypes, UITypes, AtMostOne
  <1>6. CASE PollOne
    <2> DEFINE done == Head(completions)
    <2>1. done \in Verdicts /\ completions' \in Seq(Verdicts)
      BY <1>6, PolledTypes DEF PollOne
    <2>2. WorkerTypes'
      BY <1>6, <2>1 DEF PollOne, WorkerTypes, AtMostOne
    <2>3. AtMostOne(neutralized, [sequence : Nat, ok : BOOLEAN])'
      BY <1>6, <2>1 DEF PollOne, UITypes, AtMostOne, Verdicts
    <2>4. CASE UNCHANGED <<wantVars, enabled, trackerVars>>
      BY <1>6, <2>2, <2>3, <2>4 DEF PollOne, DriverTypes, UITypes
    <2>5. CASE NoteVerdict(done) /\ ApplyCompletion(done)
      <3>1. lastVerdictRefused' \in BOOLEAN /\ stateChangedSinceVerdict' \in BOOLEAN
        BY <2>5, ZenonT(20) DEF NoteVerdict
      <3>2. frameRecoveryPending' \in BOOLEAN
        <4>1. (frameRecoveryPending /\ ~done.checked) \in BOOLEAN
          OBVIOUS
        <4> QED
          BY <2>5, <4>1 DEF ApplyCompletion, UITypes
      <3>3. /\ frames' \in Frames /\ frameDriverSession' \in {0} \cup Sessions /\ enabled' \in BOOLEAN
            /\ UNCHANGED <<latestStateChange, profile>>
        BY <2>1, <2>5 DEF ApplyCompletion, NoteVerdict, Verdicts, UITypes
      <3> QED
        BY <1>6, <2>2, <2>3, <3>1, <3>2, <3>3 DEF PollOne, DriverTypes, UITypes
    <2> QED
      BY <1>6, <2>4, <2>5 DEF PollOne
  <1>7. CASE NeutralizeCalibrationDevices
    <2>1. neutralizationHeld' \in BOOLEAN
      BY <1>7, ZenonT(20) DEF NeutralizeCalibrationDevices, Neutralize
    <2>2. WorkerTypes'
      BY <1>7, <2>1 DEF NeutralizeCalibrationDevices, Neutralize, WorkerTypes, AtMostOne
    <2> QED
      BY <1>7, <2>2 DEF NeutralizeCalibrationDevices, Neutralize, DriverTypes, UITypes, WorkerTypes,
         AtMostOne, Step
  <1>8. CASE Handler
    <2>1. HandlerEffect /\ HandlerTypes
      BY <1>8, Handles
    <2>2. DriverTypes'
      BY <2>1 DEF HandlerEffect, HandlerTypes, DriverTypes
    <2>3. /\ AtMostOne(pendingState, [sequence : Nat, job : Jobs])'
          /\ AtMostOne(lastSubmission, Jobs)' /\ nextSequence' \in Nat
          /\ latestStateChange' \in Nat /\ stateChangedSinceVerdict' \in BOOLEAN
          /\ lastVerdictRefused' \in BOOLEAN /\ enabled' \in BOOLEAN
      <3>1. CASE UNCHANGED linkVars
        BY <3>1 DEF linkVars, WorkerTypes, UITypes, AtMostOne
      <3>2. CASE \E job : Submitted(job)
        BY <2>1, <3>2, SubmittedTypes
      <3> QED
        BY <2>1, <3>1, <3>2 DEF HandlerEffect, Link
    <2>4. stopping' \in BOOLEAN
      <3>1. CASE stopping' = stopping
        BY <3>1 DEF WorkerTypes
      <3>2. CASE stopping' = TRUE
        BY <3>2
      <3> QED
        BY <2>1, <3>1, <3>2 DEF HandlerEffect
    <2>5. neutralizationHeld' \in BOOLEAN /\ neutralizationSequence' \in Nat
      <3>1. CASE RunKept
        BY <3>1 DEF RunKept, WorkerTypes, UITypes
      <3>2. CASE RunEnds
        <4>1. neutralizationHeld' \in BOOLEAN
          <5>1. CASE neutralizationHeld' = neutralizationHeld
            BY <5>1 DEF WorkerTypes
          <5>2. CASE neutralizationHeld' = FALSE
            BY <5>2
          <5> QED
            BY <3>2, <5>1, <5>2 DEF RunEnds
        <4> QED
          BY <3>2, <4>1 DEF RunEnds
      <3> QED
        BY <2>1, <3>1, <3>2 DEF HandlerEffect
    <2>6. AtMostOne(neutralized, [sequence : Nat, ok : BOOLEAN])'
      BY <2>1 DEF HandlerEffect, UITypes, AtMostOne
    <2>7. WorkerTypes'
      BY <2>1, <2>3, <2>4, <2>5 DEF HandlerEffect, WorkerTypes, AtMostOne
    <2>8. UITypes'
      BY <2>1, <2>3, <2>5, <2>6 DEF HandlerTypes, UITypes
    <2> QED
      BY <2>2, <2>7, <2>8
  <1>9. CASE Ended /\ flakes' \in {flakes, flakes + 1}
    <2>1. /\ crossed' \in BOOLEAN /\ neutralizationHeld' \in BOOLEAN /\ stopping' \in BOOLEAN
          /\ preserveTrackerFrames' \in BOOLEAN /\ enabled' \in BOOLEAN
          /\ frameRecoveryPending' \in BOOLEAN /\ lastVerdictRefused' \in BOOLEAN
          /\ stateChangedSinceVerdict' \in BOOLEAN
      BY <1>9, ZenonT(20) DEF Ended
    <2>2. flakes' \in Nat
      BY <1>9 DEF DriverTypes
    <2>3. DriverTypes'
      BY <1>9, <2>1, <2>2 DEF Ended, DriverTypes
    <2>4. WorkerTypes'
      BY <1>9, <2>1, IdleType, EmptySeq DEF Ended, WorkerTypes, AtMostOne
    <2>5. UITypes'
      BY <1>9, <2>1, IdentityFrame DEF Ended, UITypes, AtMostOne
    <2> QED
      BY <2>3, <2>4, <2>5
  <1>10. CASE Launch
    BY <1>10 DEF Launch, DriverTypes, WorkerTypes, UITypes, AtMostOne
  <1> QED
    BY <1>1, <1>2, <1>3, <1>4, <1>5, <1>6, <1>7, <1>8, <1>9, <1>10, NextCases

-----------------------------------------------------------------------------
(* A measurement's devices stay neutral.                                    *)

LEMMA Neutralizes ==
  ASSUME TypeOK, worker.request \in Disables
  PROVE  /\ Handled.shown = driver.shown
         /\ driver.neutral \subseteq Handled.neutral /\ Handled.neutral \subseteq Selected
         /\ worker.request = "disable reference" => 1 \in Handled.neutral
         /\ worker.request = "disable target" => 2 \in Handled.neutral
  <1>1. Disabled \subseteq Selected
    BY DEF Disabled
  <1>2. /\ worker.request = "disable reference" => 1 \in Disabled
        /\ worker.request = "disable target" => 2 \in Disabled
    BY DEF Disabled, Selected
  <1>3. Handled.shown = driver.shown /\ Handled.neutral = driver.neutral \cup Disabled
    BY HandledType DEF Disables
  <1> QED
    BY <1>1, <1>2, <1>3 DEF TypeOK, DriverTypes

\* What the worker does with the pipe under a request.
Sends ==
  /\ worker.pc = "send" /\ worker'.pc \in {"send", "post"}
  /\ worker'.sequence = worker.sequence /\ worker'.job = worker.job
  /\ worker.request \in Disables <=> worker'.request \in Disables
  /\ worker'.request \in Requests
  /\ driver' \in {driver, Handled}
  /\ UNCHANGED <<completions, pendingState, pendingNeutralization>>
  /\ worker'.pc = "send" => ~worker'.ok
  /\ worker'.pc = "send" /\ worker'.request = "disable target" =>
       \/ worker.request = "disable target"
       \/ worker.request = "disable reference" /\ driver' = Handled
  /\ worker'.pc = "post" /\ worker'.request \in Disables /\ worker'.ok =>
       worker.request = "disable target" /\ driver' = Handled

LEMMA SendCases ==
  ASSUME TypeOK, HalfClear, Connect \/ ConnectFails \/ PipeGone \/ AnswerLost \/ Answered
  PROVE  Sends
  <1>1. worker.pc = "send" /\ worker.request \in Requests /\ ~worker.ok /\ worker \in Workers
    BY DEF Connect, ConnectFails, PipeGone, AnswerLost, Answered, TypeOK, WorkerTypes, HalfClear
  <1>2. CASE Connect
    BY <1>1, <1>2 DEF Connect, Sends, queueVars, driverVars, Workers
  <1>3. CASE ConnectFails
    BY <1>1, <1>3, FailedType DEF ConnectFails, Sends, queueVars, driverVars
  <1>4. CASE PipeGone \/ AnswerLost
    <2>1. /\ driver' \in {driver, Handled} /\ UNCHANGED <<completions, pendingState, pendingNeutralization>>
          /\ worker' \in {Failed, [worker EXCEPT !.replay = TRUE]}
      BY <1>4 DEF PipeGone, AnswerLost, Broken, queueVars
    <2>2. CASE worker' = Failed
      BY <1>1, <2>1, <2>2, FailedType DEF Sends
    <2>3. CASE worker' = [worker EXCEPT !.replay = TRUE]
      BY <1>1, <2>1, <2>3 DEF Sends, Workers
    <2> QED
      BY <2>1, <2>2, <2>3
  <1>5. CASE Answered
    <2>1. driver' = Handled /\ UNCHANGED <<completions, pendingState, pendingNeutralization>>
      BY <1>5 DEF Answered, queueVars
    <2>2. CASE worker.request = "handshake"
      <3> DEFINE begun == [worker EXCEPT !.session = driver.session, !.reconnected = FALSE,
                                         !.replay = FALSE]
      <3>1. /\ begun.sequence = worker.sequence /\ begun.job = worker.job /\ ~begun.ok
            /\ begun.pc = "send" /\ begun.request = "handshake" /\ begun \in Workers
        BY <1>1, <2>2 DEF Workers, TypeOK, DriverTypes
      <3>2. \/ worker' = [begun EXCEPT !.pc = "post"]
            \/ worker' = [begun EXCEPT !.request = "get"]
            \/ worker' = [begun EXCEPT !.request = "set"]
        BY <1>5, <2>2, AnswerCases DEF Answered
      <3> HIDE DEF begun
      <3> QED
        BY <1>1, <2>1, <2>2, <3>1, <3>2 DEF Sends, Workers, Requests, Disables
    <2>3. CASE worker.request = "get"
      <3>1. CASE worker' = Failed
        BY <1>1, <2>1, <2>3, <3>1, FailedType DEF Sends, Disables
      <3>2. CASE \E found \in BOOLEAN, f \in Frames :
                   worker' = [worker EXCEPT !.request = "set", !.replay = FALSE, !.checked = TRUE,
                                            !.recovered = found, !.frames = f]
        BY <1>1, <2>1, <2>3, <3>2 DEF Sends, Workers, Requests, Disables
      <3> QED
        BY <1>5, <2>3, <3>1, <3>2, AnswerCases DEF Answered
    <2>4. CASE worker.request = "set"
      BY <1>1, <1>5, <2>1, <2>4, AnswerCases DEF Answered, Sends, Workers, Requests, Disables
    <2>5. CASE worker.request \in Disables
      BY <1>1, <1>5, <2>1, <2>5, AnswerCases DEF Answered, Sends, Workers, Requests, Disables
    <2> QED
      BY <1>1, <2>2, <2>3, <2>4, <2>5 DEF Requests, Disables
  <1> QED
    BY <1>2, <1>3, <1>4, <1>5

LEMMA ClearKept ==
  ASSUME TypeOK, Sends, worker.request \in Disables, Clear
  PROVE  Clear'
  <1>1. CASE driver' = driver
    BY <1>1 DEF Clear
  <1>2. CASE driver' = Handled
    <2>1. driver'.shown = driver.shown
      BY <1>2, Neutralizes
    <2>2. driver.neutral = Selected => driver'.neutral = Selected
      BY <1>2, Neutralizes
    <2> QED
      BY <2>1, <2>2 DEF Clear
  <1> QED
    BY <1>1, <1>2 DEF Sends

LEMMA SendMeasures ==
  ASSUME TypeOK, TypeOK', MeasureInv, Sends, UNCHANGED uiVars,
         UNCHANGED <<neutralizationHeld, stopping, nextSequence>>
  PROVE  MeasureInv'
  <1> USE DEF MeasureInv, uiVars, runVars
  <1>1. Numbered'
    BY DEF Numbered, Sends, trackerVars
  <1>2. Exclusive'
    BY DEF Exclusive, Waiting, Sends, SendingState, States, Disables, TypeOK, WorkerTypes, Requests
  <1>3. HalfClear'
    <2>1. worker.pc = "send" /\ (worker.pc = "send" => ~worker.ok)
      BY DEF Sends, HalfClear
    <2>2. worker'.pc = "send" => ~worker'.ok
      BY DEF Sends
    <2>3. worker'.pc = "send" /\ worker'.request = "disable target" =>
            driver'.shown = Off \/ 1 \in driver'.neutral
      BY Neutralizes DEF Sends, HalfClear, Disables
    <2>4. worker'.pc = "post" /\ worker'.request \in Disables /\ worker'.ok => Clear'
      <3> SUFFICES ASSUME worker'.pc = "post", worker'.request \in Disables, worker'.ok PROVE Clear'
        OBVIOUS
      <3>1. worker.request = "disable target" /\ driver' = Handled
        BY DEF Sends
      <3>2. driver.shown = Off \/ 1 \in driver.neutral
        BY <3>1 DEF Sends, HalfClear
      <3> QED
        BY <3>1, <3>2, Neutralizes DEF Clear, Disables, Selected
    <2> QED
      BY <2>2, <2>3, <2>4 DEF HalfClear
  <1>4. Told'
    <2>1. CASE neutralizationSequence = 0
      BY <2>1 DEF Told
    <2>2. CASE neutralizationSequence # 0 /\ Waiting
      BY <2>2 DEF Told, Exclusive, Sends
    <2>3. CASE neutralizationSequence # 0 /\ ~Waiting
      <3>1. worker.request \in Disables
        BY <2>3 DEF Exclusive, SendingState, Sends, States, Disables, TypeOK, WorkerTypes, Requests
      <3>2. Clear => Clear'
        BY <3>1, ClearKept
      <3> QED
        BY <2>3, <3>2 DEF Told, Sends
    <2> QED
      BY <2>1, <2>2, <2>3
  <1>5. Stopping'
    <2>1. worker'.pc # "exited"
      BY DEF Sends
    <2> QED
      BY <2>1, ZenonT(20) DEF Stopping
  <1> QED
    BY <1>1, <1>2, <1>3, <1>4, <1>5

LEMMA MeasureStep == TypeOK /\ TypeOK' /\ MeasureInv /\ [Next]_vars => MeasureInv'
  <1> SUFFICES ASSUME TypeOK, TypeOK', MeasureInv, [Next]_vars PROVE MeasureInv'
    OBVIOUS
  <1> USE DEF MeasureInv
  <1>1. ASSUME UNCHANGED <<worker, completions, queueVars, uiPc, state, neutralizationSequence, neutralized>>,
               UNCHANGED latestStateChange,
               UNCHANGED driver \/ driver'.shown = Off
        PROVE  MeasureInv'
    <2>1. Numbered'
      BY <1>1 DEF Numbered, queueVars
    <2>2. Exclusive'
      BY <1>1 DEF Exclusive, Waiting, SendingState, queueVars
    <2>3. Clear => Clear'
      BY <1>1 DEF Clear
    <2>4. HalfClear'
      BY <1>1, <2>3 DEF HalfClear
    <2>5. Told'
      BY <1>1, <2>3 DEF Told
    <2>6. Stopping'
      BY <1>1, ZenonT(20) DEF Stopping, queueVars
    <2> QED
      BY <2>1, <2>2, <2>4, <2>5, <2>6
  <1>2. CASE UNCHANGED vars
    BY <1>1, <1>2 DEF vars, uiVars, runVars, trackerVars, driverVars
  <1>3. CASE DriverStarts \/ DriverDies
    <2>1. driver'.shown = Off
      BY <1>3 DEF DriverStarts, DriverDies, Fresh
    <2> QED
      BY <1>1, <1>3, <2>1 DEF DriverStarts, DriverDies, uiVars, runVars, trackerVars
  <1>4. CASE HubOpens \/ HubSeesDeath \/ HubFails
    BY <1>1, <1>4 DEF HubOpens, HubSeesDeath, HubFails, HubBoundary, uiVars, runVars, trackerVars, driverVars
  <1>5. CASE WorkerAction
    <2> DEFINE now == neutralizationSequence
    <2>1. UNCHANGED <<uiVars, neutralizationHeld, stopping, nextSequence>>
      BY <1>5, WorkerStep
    <2>2. CASE Connect \/ ConnectFails \/ PipeGone \/ AnswerLost \/ Answered
      BY <2>1, <2>2, SendCases, SendMeasures
    <2>3. CASE TakeNeutralization
      <3>1. /\ worker.pc = "wait" /\ pendingNeutralization # <<>>
            /\ Head(pendingNeutralization) = worker'.sequence
            /\ pendingNeutralization = <<worker'.sequence>>
            /\ worker'.pc = "send" /\ worker'.request = "disable reference" /\ ~worker'.ok
            /\ pendingNeutralization' = <<>> /\ UNCHANGED <<driver, completions, pendingState>>
        BY <2>3, IdleType DEF TakeNeutralization, TypeOK, WorkerTypes, AtMostOne, driverVars, Workers
      <3>2. Numbered'
        BY <2>1, <3>1 DEF Numbered, uiVars, runVars, trackerVars
      <3>3. Exclusive'
        BY <2>1, <3>1 DEF Exclusive, Waiting, SendingState, States, uiVars, runVars
      <3>4. HalfClear' /\ Told'
        BY <2>1, <3>1 DEF HalfClear, Told, Clear, uiVars, runVars
      <3>5. Stopping'
        BY <2>1, <3>1 DEF Stopping, uiVars
      <3> QED
        BY <3>2, <3>3, <3>4, <3>5
    <2>4. CASE TakeState
      <3>1. /\ worker.pc = "wait" /\ Head(pendingState).sequence = worker'.sequence
            /\ pendingState # <<>> /\ pendingNeutralization = <<>> /\ ~neutralizationHeld
            /\ worker'.pc = "send" /\ worker'.request = "handshake" /\ ~worker'.ok
            /\ pendingState' = <<>> /\ UNCHANGED <<driver, completions, pendingNeutralization>>
        BY <2>4, IdleType DEF TakeState, StateReady, TypeOK, WorkerTypes, AtMostOne, driverVars, Workers
      <3>2. now = 0
        BY <3>1 DEF Numbered
      <3>3. Numbered'
        BY <2>1, <3>1 DEF Numbered, uiVars, runVars, trackerVars
      <3>4. Exclusive' /\ Told'
        BY <2>1, <3>2 DEF Exclusive, Told, uiVars, runVars
      <3>5. HalfClear'
        BY <3>1 DEF HalfClear, Disables
      <3>6. Stopping'
        BY <2>1, <3>1 DEF Stopping, uiVars
      <3> QED
        BY <3>3, <3>4, <3>5, <3>6
    <2>5. CASE Exit
      <3>1. /\ worker.pc = "wait" /\ stopping /\ pendingNeutralization = <<>>
            /\ pendingState = <<>> \/ neutralizationHeld
            /\ worker' = [worker EXCEPT !.pc = "exited"]
            /\ UNCHANGED <<driver, completions, pendingState, pendingNeutralization>>
        BY <2>5, ZenonT(20) DEF Exit, StateReady, driverVars, queueVars
      <3>2. worker = Idle /\ worker' = [Idle EXCEPT !.pc = "exited"]
        BY <3>1, IdleType DEF Numbered, Workers
      <3>3. ~neutralizationHeld /\ pendingState = <<>>
        BY <3>1 DEF Stopping
      <3>4. now = 0
        BY <3>3 DEF Numbered
      <3>5. worker'.pc = "exited" /\ worker'.sequence = 0
        BY <3>2, IdleType DEF Workers
      <3>6. Numbered'
        BY <2>1, <3>1, <3>2, <3>5 DEF Numbered, uiVars, runVars, trackerVars, TypeOK, WorkerTypes
      <3>7. Exclusive' /\ Told'
        BY <2>1, <3>4 DEF Exclusive, Told, uiVars, runVars
      <3>8. HalfClear'
        BY <3>5 DEF HalfClear
      <3>9. Stopping'
        BY <2>1, <3>1, <3>3 DEF Stopping, uiVars
      <3> QED
        BY <3>6, <3>7, <3>8, <3>9
    <2>6. CASE Post
      <3>1. /\ worker.pc = "post" /\ worker' = Idle /\ completions' = Posted
            /\ UNCHANGED <<driver, pendingState, pendingNeutralization>>
        BY <2>6 DEF Post, driverVars, queueVars
      <3>2. \A i \in 1 .. Len(completions') :
              \/ i \in 1 .. Len(completions) /\ completions'[i] = completions[i]
              \/ completions'[i] = Completion
        BY <3>1, PostedTypes DEF TypeOK, WorkerTypes
      <3>3. Numbered'
        BY <2>1, <3>1, <3>2, PostedTypes, IdleType DEF Numbered, uiVars, runVars, trackerVars, TypeOK, WorkerTypes
      <3>4. Exclusive'
        BY <2>1, <3>1, <3>2, PostedTypes, IdleType DEF Exclusive, Waiting, SendingState, uiVars, runVars,
           Numbered
      <3>5. HalfClear'
        BY <3>1, IdleType DEF HalfClear
      <3>6. Told'
        BY <2>1, <3>1, <3>2, PostedTypes DEF Told, HalfClear, Clear, uiVars, runVars
      <3>7. Stopping'
        BY <2>1, <3>1, IdleType DEF Stopping, uiVars
      <3> QED
        BY <3>3, <3>4, <3>5, <3>6, <3>7
    <2> QED
      BY <1>5, <2>2, <2>3, <2>4, <2>5, <2>6 DEF WorkerAction
  <1>6. CASE BeginTick
    <2>1. /\ uiPc = "idle" /\ uiPc' = "monitor" /\ completions = <<>>
          /\ UNCHANGED <<driver, worker, completions, pendingState, pendingNeutralization, neutralizationHeld,
                         stopping, state, neutralizationSequence>>
      BY <1>6 DEF BeginTick, othersVars, driverVars, runVars
    <2>2. \/ /\ Quiet /\ neutralizationSequence = 0
             /\ nextSequence' = 0 /\ latestStateChange' = 0 /\ neutralized' = <<>>
          \/ UNCHANGED <<nextSequence, latestStateChange, neutralized>>
      BY <1>6 DEF BeginTick
    <2>3. Numbered'
      <3>1. CASE UNCHANGED <<nextSequence, latestStateChange, neutralized>>
        BY <2>1, <3>1 DEF Numbered
      <3>2. CASE /\ Quiet /\ neutralizationSequence = 0
                 /\ nextSequence' = 0 /\ latestStateChange' = 0 /\ neutralized' = <<>>
        <4>1. worker.sequence = 0
          BY <3>2, IdleType DEF Numbered, Quiet, Workers
        <4>2. Len(completions') = 0
          BY <2>1
        <4> QED
          BY <2>1, <3>2, <4>1, <4>2 DEF Numbered, Quiet
      <3> QED
        BY <2>2, <3>1, <3>2
    <2>4. Exclusive' /\ Told'
      BY <2>1, <2>2 DEF Exclusive, Told, Waiting, SendingState, Clear
    <2>5. HalfClear'
      BY <2>1 DEF HalfClear, Clear
    <2>6. Stopping'
      BY <2>1 DEF Stopping
    <2> QED
      BY <2>3, <2>4, <2>5, <2>6
  <1>7. CASE PollOne
    <2> DEFINE done == Head(completions)
    <2>1. /\ uiPc = "idle" /\ completions # <<>> /\ completions' = Tail(completions)
          /\ UNCHANGED <<driver, worker, queueVars, uiPc, state, neutralizationSequence>>
      BY <1>7 DEF PollOne, othersVars, driverVars, runVars
    <2>2. \/ /\ done.neutralize /\ neutralized' = <<[sequence |-> done.sequence, ok |-> done.ok]>>
             /\ UNCHANGED latestStateChange
          \/ UNCHANGED <<neutralized, latestStateChange>>
      BY <1>7 DEF PollOne, NoteVerdict, trackerVars
    <2>3. /\ done = completions[1] /\ 1 \in 1 .. Len(completions)
          /\ \A i \in 1 .. Len(completions') : i + 1 \in 1 .. Len(completions) /\ completions'[i] = completions[i + 1]
      BY <2>1, PolledTypes
    <2>4. /\ neutralized' # <<>> =>
               \/ neutralized' = neutralized
               \/ /\ Head(neutralized').sequence = done.sequence /\ Head(neutralized').ok = done.ok
                  /\ done.neutralize
      BY <2>2
    <2>5. Numbered'
      BY <2>1, <2>2, <2>3, <2>4 DEF Numbered, queueVars
    <2>6. Exclusive'
      BY <2>1, <2>3, <2>4 DEF Exclusive, Waiting, SendingState, queueVars
    <2>7. HalfClear'
      BY <2>1 DEF HalfClear, Clear
    <2>8. Told'
      BY <2>1, <2>3, <2>4 DEF Told, Clear
    <2>9. Stopping'
      BY <2>1 DEF Stopping, queueVars
    <2> QED
      BY <2>5, <2>6, <2>7, <2>8, <2>9
  <1>8. CASE NeutralizeCalibrationDevices
    <2>1. /\ nextSequence' = nextSequence + 1 /\ neutralizationSequence' = nextSequence + 1
          /\ pendingNeutralization' = <<nextSequence + 1>> /\ neutralizationHeld'
          /\ uiPc = "state" /\ uiPc' = "idle" /\ state' = "Neutralizing"
          /\ UNCHANGED <<driver, worker, completions, neutralized, pendingState, stopping, latestStateChange>>
      BY <1>8 DEF NeutralizeCalibrationDevices, Neutralize, Step, othersVars, driverVars, trackerVars
    <2>2. ~stopping /\ worker.pc # "exited"
      BY <2>1 DEF Stopping
    <2>3. nextSequence \in Nat /\ worker.sequence \in Nat
      BY DEF TypeOK, WorkerTypes, Workers
    <2>4. \A i \in 1 .. Len(completions) : completions[i].sequence \in Nat
      BY CompletionTypes
    <2>5. /\ neutralized # <<>> => Head(neutralized).sequence \in Nat
          /\ pendingState # <<>> => Head(pendingState).sequence \in Nat
          /\ latestStateChange \in Nat
      BY DEF TypeOK, WorkerTypes, UITypes, AtMostOne
    <2>6. Numbered'
      BY <2>1, <2>3, <2>4, <2>5 DEF Numbered
    <2>7. Exclusive'
      BY <2>1, <2>3, <2>4, <2>5 DEF Exclusive, Waiting, Numbered
    <2>8. HalfClear'
      BY <2>1 DEF HalfClear, Clear
    <2>9. Told'
      <3>1. neutralized # <<>> => Head(neutralized).sequence # nextSequence + 1
        BY <2>3, <2>5 DEF Numbered
      <3>2. \A i \in 1 .. Len(completions) : completions[i].sequence # nextSequence + 1
        BY <2>3, <2>4 DEF Numbered
      <3> QED
        BY <2>1, <3>1, <3>2 DEF Told
    <2>10. Stopping'
      BY <2>1, <2>2 DEF Stopping
    <2> QED
      BY <2>6, <2>7, <2>8, <2>9, <2>10
  <1>9. CASE Handler
    <2>1. HandlerEffect /\ HandlerTypes
      BY <1>9, Handles
    <2>2. UNCHANGED <<driver, worker, completions, pendingNeutralization>>
      BY <2>1 DEF HandlerEffect, othersVars, driverVars
    <2>3. /\ nextSequence' >= nextSequence /\ latestStateChange' <= nextSequence'
          /\ pendingState' # <<>> => Head(pendingState').sequence <= nextSequence'
      <3>1. CASE UNCHANGED linkVars
        BY <3>1 DEF linkVars, trackerVars, Numbered, TypeOK, WorkerTypes
      <3>2. ASSUME NEW job, Submitted(job)
            PROVE  /\ nextSequence' >= nextSequence /\ latestStateChange' <= nextSequence'
                   /\ pendingState' # <<>> => Head(pendingState').sequence <= nextSequence'
        BY <3>2 DEF Submitted, Numbered, TypeOK, WorkerTypes, UITypes
      <3> QED
        BY <2>1, <3>1, <3>2 DEF HandlerEffect, Link
    <2>4. \/ neutralizationSequence' = 0
          \/ /\ UNCHANGED <<neutralizationSequence, neutralizationHeld>>
             /\ \/ UNCHANGED state
                \/ /\ state' = "Collecting" /\ neutralized # <<>>
                   /\ Head(neutralized).sequence = neutralizationSequence /\ Head(neutralized).ok
      BY <2>1 DEF HandlerEffect, RunKept, RunEnds
    <2>5. neutralized' \in {neutralized, <<>>}
      BY <2>1 DEF HandlerEffect
    <2>6. \A i \in 1 .. Len(completions) : completions[i].sequence \in Nat
      BY CompletionTypes
    <2>7. /\ nextSequence \in Nat /\ worker.sequence \in Nat /\ nextSequence' \in Nat
          /\ neutralized # <<>> => Head(neutralized).sequence \in Nat
          /\ pendingNeutralization # <<>> => Head(pendingNeutralization) \in Nat
          /\ neutralizationSequence \in Nat
      BY DEF TypeOK, WorkerTypes, UITypes, Workers, AtMostOne
    <2>8. Numbered'
      BY <2>2, <2>3, <2>4, <2>5, <2>6, <2>7 DEF Numbered
    <2>9. Exclusive'
      BY <2>2, <2>4, <2>5 DEF Exclusive, Waiting, SendingState
    <2>10. HalfClear'
      BY <2>2 DEF HalfClear, Clear
    <2>11. Told'
      BY <2>2, <2>4, <2>5 DEF Told, Clear
    <2>12. Stopping'
      <3>1. CASE stopping' = stopping /\ {uiPc, uiPc'} \cap {"join", "gone"} = {}
        <4>1. uiPc # "join" /\ uiPc' # "join"
          BY <3>1
        <4>2. ~stopping
          BY <4>1 DEF Stopping
        <4>3. ~stopping' /\ worker'.pc # "exited"
          BY <2>2, <3>1, <4>2 DEF Stopping
        <4> QED
          BY <4>1, <4>3 DEF Stopping
      <3>2. CASE stopping' = TRUE /\ uiPc' = "join" /\ uiPc = "idle" /\ neutralizationHeld' = FALSE
        <4>1. worker.pc # "exited"
          BY <3>2 DEF Stopping
        <4>2. worker'.pc # "exited"
          BY <2>2, <4>1
        <4> QED
          BY <3>2, <4>2, ZenonT(20) DEF Stopping
      <3> QED
        BY <2>1, <3>1, <3>2 DEF HandlerEffect
    <2> QED
      BY <2>8, <2>9, <2>10, <2>11, <2>12
  <1>10. CASE Ended
    <2>1. ~stopping' /\ uiPc' = "gone" /\ neutralizationSequence' = 0 /\ worker' = Idle
      BY <1>10 DEF Ended
    <2>2. Numbered'
      BY <1>10, IdleType, EmptySeq DEF Ended, Numbered
    <2>3. Exclusive' /\ Told' /\ HalfClear' /\ Stopping'
      BY <2>1, IdleType DEF Exclusive, Told, HalfClear, Stopping
    <2> QED
      BY <2>2, <2>3
  <1>11. CASE Launch
    <2>1. /\ uiPc = "gone" /\ uiPc' = "idle"
          /\ UNCHANGED <<driver, worker, completions, queueVars, state, neutralizationSequence, neutralized,
                         latestStateChange>>
      BY <1>11 DEF Launch, othersVars, driverVars, runVars, trackerVars
    <2>2. Numbered' /\ Exclusive' /\ HalfClear' /\ Told'
      BY <2>1 DEF Numbered, Exclusive, HalfClear, Told, Waiting, SendingState, Clear, queueVars
    <2>3. Stopping'
      BY <2>1 DEF Stopping, queueVars
    <2> QED
      BY <2>2, <2>3
  <1> QED
    BY <1>2, <1>3, <1>4, <1>5, <1>6, <1>7, <1>8, <1>9, <1>10, <1>11, NextCases

LEMMA MeasureInit == Init => MeasureInv
  <1> SUFFICES ASSUME Init PROVE MeasureInv
    OBVIOUS
  <1>1. ~stopping /\ ~neutralizationHeld
    BY ZenonT(20) DEF Init
  <1>2. Len(completions) = 0
    BY DEF Init
  <1>3. Numbered /\ Exclusive /\ HalfClear /\ Told
    BY <1>2, IdleType DEF Init, Numbered, Exclusive, HalfClear, Told
  <1>4. Stopping
    BY <1>1, IdleType DEF Init, Stopping
  <1> QED
    BY <1>3, <1>4 DEF MeasureInv

-----------------------------------------------------------------------------
(* A verdict is about what the driver shows.                                *)

\* What a request brings to the driver and to the worker's answer.
Delivers ==
  /\ worker'.session \in {worker.session, driver.session} /\ driver'.session = driver.session
  /\ worker.request \in Disables => driver'.shown = driver.shown /\ driver'.frames = driver.frames
  /\ worker.request \in States =>
       /\ driver' = driver \/ driver' = TrySetRuntimeState
       /\ worker.job.recover \/ (worker'.frames = worker.job.frames /\ worker'.request # "get")
  /\ worker'.pc = "post" /\ worker'.ok /\ worker'.request \in States =>
       driver' = TrySetRuntimeState /\ worker'.session = driver.session /\ driver.session # 0

LEMMA TrySetType ==
  ASSUME TypeOK
  PROVE  /\ TrySetRuntimeState.session = driver.session
         /\ TrySetRuntimeState.shown = worker.job.profile
         /\ TrySetRuntimeState.frames = worker.frames
  BY DEF TrySetRuntimeState, TypeOK, DriverTypes

LEMMA HandledDelivers ==
  ASSUME TypeOK
  PROVE  /\ Handled.session = driver.session
         /\ worker.request \in Disables => Handled.shown = driver.shown /\ Handled.frames = driver.frames
         /\ worker.request \in States => Handled = driver \/ Handled = TrySetRuntimeState
         /\ worker.request = "set" /\ Accepted => Handled = TrySetRuntimeState
  <1>1. worker.request \in {"handshake", "get"} => Disabled = {}
    <2>1. /\ <<"disable reference", "disable target">>[1] \notin {"handshake", "get"}
          /\ <<"disable reference", "disable target">>[2] \notin {"handshake", "get"}
      OBVIOUS
    <2> QED
      BY <2>1 DEF Disabled, Selected
  <1>2. worker.request # "set" => Handled = [driver EXCEPT !.neutral = driver.neutral \cup Disabled]
    BY DEF Handled
  <1>3. worker.request \in {"handshake", "get"} => Handled = driver
    BY <1>1, <1>2 DEF TypeOK, DriverTypes
  <1>4. worker.request \in Disables => Handled.shown = driver.shown /\ Handled.frames = driver.frames
    BY <1>2 DEF Disables, TypeOK, DriverTypes
  <1>5. worker.request = "set" => Handled = driver \/ Handled = TrySetRuntimeState
    BY HandledType
  <1>6. worker.request = "set" /\ Accepted => Handled = TrySetRuntimeState
    BY DEF Handled
  <1> QED
    BY <1>3, <1>4, <1>5, <1>6, HandledType DEF States

LEMMA DeliverCases ==
  ASSUME TypeOK, HalfClear, InOrder, Connect \/ ConnectFails \/ PipeGone \/ AnswerLost \/ Answered
  PROVE  Delivers
  <1>1. worker.pc = "send" /\ worker.request \in Requests /\ ~worker.ok /\ worker \in Workers
    BY DEF Connect, ConnectFails, PipeGone, AnswerLost, Answered, TypeOK, WorkerTypes, HalfClear
  <1>2. worker.request \in States =>
          worker.job.recover \/ (worker.frames = worker.job.frames /\ worker.request # "get")
    BY <1>1 DEF InOrder, HasState, InHand
  <1>3. CASE Connect
    <2>1. driver' = driver /\ worker' = [worker EXCEPT !.reconnected = TRUE]
      BY <1>3 DEF Connect, driverVars
    <2>2. /\ worker'.session = worker.session /\ worker'.frames = worker.frames
          /\ worker'.request = worker.request /\ worker'.pc = "send"
      BY <1>1, <2>1 DEF Workers
    <2> QED
      BY <1>2, <2>1, <2>2 DEF Delivers
  <1>4. CASE ConnectFails
    BY <1>1, <1>2, <1>4, FailedType DEF ConnectFails, Delivers, driverVars
  <1>5. CASE PipeGone \/ AnswerLost
    <2>1. (driver' = driver \/ driver' = Handled) /\ worker' \in {Failed, [worker EXCEPT !.replay = TRUE]}
      BY <1>5 DEF PipeGone, AnswerLost, Broken
    <2>2. /\ worker'.session = worker.session /\ worker'.frames = worker.frames
          /\ worker'.request = worker.request /\ ~worker'.ok
      <3>1. CASE worker' = Failed
        BY <1>1, <3>1, FailedType
      <3>2. CASE worker' = [worker EXCEPT !.replay = TRUE]
        BY <1>1, <3>2 DEF Workers
      <3> QED
        BY <2>1, <3>1, <3>2
    <2>3. /\ driver'.session = driver.session
          /\ worker.request \in Disables => driver'.shown = driver.shown /\ driver'.frames = driver.frames
          /\ worker.request \in States => driver' = driver \/ driver' = TrySetRuntimeState
      BY <2>1, HandledDelivers
    <2> QED
      BY <1>2, <2>2, <2>3 DEF Delivers
  <1>6. CASE Answered
    <2>1. driver' = Handled /\ driver.session # 0 /\ AfterAnswer
      BY <1>6 DEF Answered
    <2>2. CASE worker.request = "handshake"
      <3> DEFINE begun == [worker EXCEPT !.session = driver.session, !.reconnected = FALSE,
                                         !.replay = FALSE]
      <3>1. /\ begun.session = driver.session /\ begun.frames = worker.frames /\ ~begun.ok
            /\ begun.request = "handshake" /\ begun \in Workers
        BY <1>1, <2>2 DEF Workers, TypeOK, DriverTypes
      <3>2. \/ worker' = [begun EXCEPT !.pc = "post"]
            \/ worker.job.recover /\ worker' = [begun EXCEPT !.request = "get"]
            \/ ~worker.job.recover /\ worker' = [begun EXCEPT !.request = "set"]
        BY <2>1, <2>2, AnswerCases
      <3> HIDE DEF begun
      <3>3. /\ worker'.session = driver.session /\ worker'.frames = worker.frames /\ ~worker'.ok
            /\ worker'.request = "get" => worker.job.recover
        BY <3>1, <3>2 DEF Workers
      <3>4. /\ driver'.session = driver.session /\ worker.request \notin Disables
            /\ driver' = driver \/ driver' = TrySetRuntimeState
        BY <2>1, <2>2, HandledDelivers DEF States, Disables
      <3>5. worker.job.recover \/ (worker'.frames = worker.job.frames /\ worker'.request # "get")
        BY <1>2, <2>2, <3>3 DEF States
      <3> QED
        <4>1. worker'.session \in {worker.session, driver.session}
          BY <3>3
        <4> QED
          BY <3>3, <3>4, <3>5, <4>1, ZenonT(20) DEF Delivers
    <2>3. CASE worker.request = "get"
      <3>1. worker.job.recover
        BY <1>2, <2>3 DEF States
      <3>2. worker'.session = worker.session /\ ~worker'.ok
        <4>1. CASE worker' = Failed
          BY <1>1, <4>1, FailedType
        <4>2. CASE \E found \in BOOLEAN, f \in Frames :
                     worker' = [worker EXCEPT !.request = "set", !.replay = FALSE, !.checked = TRUE,
                                              !.recovered = found, !.frames = f]
          BY <1>1, <4>2 DEF Workers
        <4> QED
          BY <2>1, <2>3, <4>1, <4>2, AnswerCases
      <3>3. /\ driver'.session = driver.session /\ worker.request \notin Disables
            /\ driver' = driver \/ driver' = TrySetRuntimeState
        BY <2>1, <2>3, HandledDelivers DEF States, Disables
      <3> QED
        <4>1. worker'.session \in {worker.session, driver.session}
          BY <3>2
        <4> QED
          BY <3>1, <3>2, <3>3, <4>1, ZenonT(20) DEF Delivers
    <2>4. CASE worker.request = "set"
      <3>1. worker' = [worker EXCEPT !.pc = "post", !.ok = Accepted /\ ~worker.reconnected]
        BY <2>1, <2>4, AnswerCases
      <3>2. /\ worker'.session = worker.session /\ worker'.frames = worker.frames
            /\ worker'.request = "set"
        BY <1>1, <2>4, <3>1 DEF Workers
      <3>3. worker'.ok => Accepted
        BY <1>1, <3>1 DEF Workers
      <3>4. Accepted => worker.session = driver.session
        BY <2>4 DEF Accepted, StaleSession
      <3>5. /\ Handled.session = driver.session
            /\ Handled = driver \/ Handled = TrySetRuntimeState
            /\ Accepted => Handled = TrySetRuntimeState
        BY <2>4, HandledDelivers DEF States
      <3>6. worker.job.recover \/ (worker'.frames = worker.job.frames /\ worker'.request # "get")
        BY <1>2, <2>4, <3>2 DEF States
      <3> QED
        BY <2>1, <2>4, <3>2, <3>3, <3>4, <3>5, <3>6 DEF Delivers, Disables
    <2>5. CASE worker.request \in Disables
      <3>1. worker'.session = worker.session /\ worker'.request \in Disables
        BY <1>1, <2>1, <2>5, AnswerCases DEF Disables, Workers
      <3> QED
        BY <2>1, <2>5, <3>1, HandledDelivers DEF Delivers, States, Disables
    <2> QED
      BY <1>1, <2>2, <2>3, <2>4, <2>5 DEF Requests, Disables
  <1> QED
    BY <1>3, <1>4, <1>5, <1>6

LEMMA SendVerdicts ==
  ASSUME TypeOK, TypeOK', VerdictInv, Sends, Delivers,
         UNCHANGED <<uiVars, lastSubmission, started>>
  PROVE  VerdictInv'
  <1> USE DEF VerdictInv
  <1>1. HasState' <=> HasState
    <2>1. worker.request \in Requests /\ worker'.request \in Requests
      BY DEF Sends, TypeOK, WorkerTypes
    <2> QED
      BY <2>1 DEF Sends, HasState, InHand, States, Disables, Requests
  <1>2. /\ worker'.sequence = worker.sequence /\ worker'.job = worker.job
        /\ driver'.session = driver.session /\ worker'.session \in {worker.session, driver.session}
        /\ UNCHANGED <<completions, pendingState, latestStateChange, frameDriverSession, lastSubmission,
                       started, enabled, lastVerdictRefused, stateChangedSinceVerdict>>
    BY DEF Sends, Delivers, uiVars, wantVars, trackerVars
  <1>3. ASSUME lastSubmission # <<>>, Shows(Head(lastSubmission)),
               HasState => worker.sequence >= latestStateChange
        PROVE  Shows(Head(lastSubmission))'
    <2> DEFINE job == Head(lastSubmission)
    <2>1. driver'.shown = job.profile /\ (job.recover \/ driver'.frames = job.frames)
      <3>1. Wants(job)
        BY <1>3 DEF Wants, TypeOK, WorkerTypes, AtMostOne
      <3> HIDE DEF job
      <3>2. CASE driver' = driver
        BY <1>3, <3>2 DEF Shows, job
      <3>3. CASE worker.request \in Disables
        BY <1>3, <3>3 DEF Delivers, Shows, job
      <3>4. CASE worker.request \in States /\ driver' = TrySetRuntimeState
        <4>1. HasState
          BY <3>4 DEF Sends, HasState, InHand
        <4>2. worker.job = job /\ (worker.job.recover \/ worker.frames = worker.job.frames)
          BY <1>3, <3>1, <4>1 DEF InOrder, Wants
        <4>3. driver'.shown = worker.job.profile /\ driver'.frames = worker.frames
          BY <3>4, TrySetType
        <4> QED
          BY <4>2, <4>3
      <3>5. worker.request \in Disables \/ worker.request \in States
        BY DEF Sends, TypeOK, WorkerTypes, Requests, Disables, States
      <3> QED
        BY <3>2, <3>3, <3>4, <3>5 DEF Delivers
    <2> QED
      BY <1>2, <2>1 DEF Shows
  <1>4. Lives'
    BY <1>2 DEF Lives, TypeOK, DriverTypes, Sessions
  <1>5. InOrder'
    <2>1. HasState' => worker'.job.recover \/ (worker'.frames = worker'.job.frames /\ worker'.request # "get")
      BY <1>1, <1>2 DEF Delivers, HasState
    <2> QED
      BY <1>1, <1>2, <2>1 DEF InOrder, Wants
  <1>6. Answers'
    <2>1. worker'.pc = "post" /\ worker'.ok /\ worker'.request \in States =>
            worker'.session # 0 /\ (worker'.session = driver'.session => Shows(worker.job)')
      <3> SUFFICES ASSUME worker'.pc = "post", worker'.ok, worker'.request \in States
                   PROVE  worker'.session # 0 /\ Shows(worker.job)'
        OBVIOUS
      <3>1. driver' = TrySetRuntimeState /\ worker'.session # 0
        BY DEF Delivers
      <3>2. driver'.shown = worker.job.profile /\ driver'.frames = worker.frames
        BY <3>1, TrySetType
      <3>3. HasState
        BY <1>1 DEF HasState, InHand
      <3>4. worker.job.recover \/ worker.frames = worker.job.frames
        BY <3>3 DEF InOrder
      <3> QED
        BY <1>2, <3>1, <3>2, <3>4 DEF Shows
    <2>2. ASSUME NEW i \in 1 .. Len(completions), ~completions[i].neutralize,
                 completions[i].sequence >= latestStateChange,
                 completions[i].ok, completions[i].session = driver.session
          PROVE  Shows(Head(lastSubmission))'
      <3>1. lastSubmission # <<>> /\ Shows(Head(lastSubmission))
        BY <2>2 DEF Answers
      <3>2. HasState => worker.sequence >= latestStateChange
        <4>1. completions[i].sequence \in Nat /\ latestStateChange \in Nat /\ worker.sequence \in Nat
          BY CompletionTypes DEF TypeOK, WorkerTypes, Workers, UITypes
        <4> QED
          BY <2>2, <4>1 DEF InOrder
      <3> QED
        BY <1>3, <3>1, <3>2
    <2> QED
      BY <1>2, <2>1, <2>2 DEF Answers
  <1>7. Held'
    <2> SUFFICES ASSUME Satisfied
                 PROVE  /\ HasState' => worker'.sequence >= latestStateChange'
                        /\ frameDriverSession = driver.session /\ driver.session # 0 =>
                             Shows(Head(lastSubmission))'
      BY <1>2 DEF Held, Satisfied
    <2>1. HasState => worker.sequence >= latestStateChange
      BY DEF Held
    <2>2. lastSubmission # <<>>
      BY DEF Satisfied
    <2>3. frameDriverSession = driver.session /\ driver.session # 0 => Shows(Head(lastSubmission))
      BY DEF Held
    <2> QED
      BY <1>1, <1>2, <1>3, <2>1, <2>2, <2>3
  <1>8. OffBecause'
    BY <1>2 DEF OffBecause
  <1> QED
    BY <1>4, <1>5, <1>6, <1>7, <1>8

LEMMA VerdictStep == TypeOK /\ TypeOK' /\ MeasureInv /\ VerdictInv /\ [Next]_vars => VerdictInv'
  <1> SUFFICES ASSUME TypeOK, TypeOK', MeasureInv, VerdictInv, [Next]_vars PROVE VerdictInv'
    OBVIOUS
  <1> USE DEF VerdictInv
  <1>n. /\ started \in Nat /\ nextSequence \in Nat /\ latestStateChange \in Nat /\ worker.sequence \in Nat
        /\ worker.session \in Nat /\ frameDriverSession \in Nat /\ driver.session \in Nat
        /\ \A i \in 1 .. Len(completions) :
             completions[i].sequence \in Nat /\ completions[i].session \in Nat
        /\ Len(completions) \in Nat
    <2>1. completions \in Seq(Verdicts)
      BY DEF TypeOK, WorkerTypes
    <2>2. Len(completions) \in Nat
      BY <2>1, LenProperties
    <2>3. worker.session \in Nat /\ frameDriverSession \in Nat /\ driver.session \in Nat
      <3>1. {0} \cup Sessions \subseteq Nat
        BY BoundsAssumption DEF Sessions
      <3>2. worker.session \in {0} \cup Sessions
        BY DEF TypeOK, WorkerTypes, Workers
      <3>3. driver.session \in {0} \cup Sessions /\ frameDriverSession \in {0} \cup Sessions
        BY DEF TypeOK, DriverTypes, UITypes
      <3> QED
        BY <3>1, <3>2, <3>3
    <2>4. started \in Nat /\ nextSequence \in Nat /\ latestStateChange \in Nat /\ worker.sequence \in Nat
      BY BoundsAssumption DEF TypeOK, DriverTypes, WorkerTypes, UITypes, Workers
    <2> QED
      BY <2>2, <2>3, <2>4, CompletionTypes
  <1>l. lastSubmission = <<>> \/ Wants(Head(lastSubmission))
    BY DEF TypeOK, WorkerTypes, AtMostOne, Wants
  <1>1. ASSUME UNCHANGED <<worker, completions, pendingState, lastSubmission, enabled, trackerVars>>,
               driver' = driver \/ driver'.session = 0 \/ driver'.session = started + 1,
               driver'.session \in {0, started'}, started' \in Nat, started' >= started,
               frameDriverSession' \in {frameDriverSession, 0}
        PROVE  VerdictInv'
    <2>1. Lives'
      BY <1>n, <1>1 DEF Lives
    <2>2. InOrder'
      BY <1>1 DEF InOrder, HasState, InHand, Wants, trackerVars
    <2>3. Answers'
      <3>1. \/ driver' = driver
            \/ driver'.session = 0
            \/ /\ worker.session # driver'.session
               /\ \A i \in 1 .. Len(completions) : completions[i].session # driver'.session
        BY <1>n, <1>1 DEF Lives
      <3> QED
        BY <1>1, <3>1 DEF Answers, Shows, trackerVars
    <2>4. Held'
      BY <1>n, <1>1 DEF Held, Lives, Satisfied, Shows, HasState, InHand, trackerVars
    <2>5. OffBecause'
      BY <1>1 DEF OffBecause, trackerVars
    <2> QED
      BY <2>1, <2>2, <2>3, <2>4, <2>5
  <1>2. CASE UNCHANGED vars
    BY <1>1, <1>2, <1>n DEF vars, uiVars, wantVars, driverVars, queueVars, Lives
  <1>3. CASE DriverStarts
    <2>1. driver'.session = started + 1 /\ started' = started + 1
      BY <1>3 DEF DriverStarts, Fresh
    <2> QED
      BY <1>1, <1>3, <1>n, <2>1 DEF DriverStarts, uiVars, wantVars, queueVars
  <1>4. CASE DriverDies
    <2>1. driver'.session = 0 /\ started' = started
      BY <1>4 DEF DriverDies, Fresh
    <2> QED
      BY <1>1, <1>4, <1>n, <2>1 DEF DriverDies, uiVars, wantVars, queueVars
  <1>5. CASE HubOpens \/ HubSeesDeath \/ HubFails
    BY <1>1, <1>5, <1>n DEF HubOpens, HubSeesDeath, HubFails, HubBoundary, uiVars, wantVars, queueVars,
       driverVars, Lives
  <1>6. CASE WorkerAction
    <2>1. UNCHANGED <<uiVars, lastSubmission, started>>
      BY <1>6, WorkerStep
    <2>2. CASE Connect \/ ConnectFails \/ PipeGone \/ AnswerLost \/ Answered
      BY <2>1, <2>2, SendCases, DeliverCases, SendVerdicts DEF MeasureInv
    <2>3. UNCHANGED <<enabled, trackerVars, frameDriverSession>>
      BY <2>1 DEF uiVars, wantVars
    <2>4. ASSUME UNCHANGED <<driver, completions, pendingState>>, ~HasState', worker'.session = 0,
                 ~(worker'.pc = "post")
          PROVE  VerdictInv'
      <3>1. Lives'
        BY <1>n, <2>1, <2>3, <2>4 DEF Lives
      <3>2. InOrder'
        BY <2>1, <2>3, <2>4 DEF InOrder, Wants, trackerVars
      <3>3. Answers'
        BY <2>1, <2>3, <2>4 DEF Answers, Shows, trackerVars
      <3>4. Held'
        BY <2>1, <2>3, <2>4 DEF Held, Satisfied, Shows, trackerVars
      <3>5. OffBecause'
        BY <2>1, <2>3 DEF OffBecause, trackerVars
      <3> QED
        BY <3>1, <3>2, <3>3, <3>4, <3>5
    <2>5. CASE TakeNeutralization
      <3>1. /\ worker'.pc = "send" /\ worker'.request = "disable reference" /\ worker'.session = 0
            /\ UNCHANGED <<driver, completions, pendingState>>
        BY <2>5, IdleType DEF TakeNeutralization, driverVars, Workers
      <3> QED
        BY <2>4, <3>1 DEF HasState, States
    <2>6. CASE Exit
      <3>1. worker.pc = "wait" /\ worker' = [worker EXCEPT !.pc = "exited"]
            /\ UNCHANGED <<driver, completions, pendingState>>
        BY <2>6 DEF Exit, driverVars, queueVars
      <3>2. worker = Idle
        BY <3>1, IdleType DEF MeasureInv, Numbered, Workers
      <3>3. worker'.pc = "exited" /\ worker'.session = 0
        BY <3>1, <3>2, IdleType DEF Workers
      <3> QED
        BY <2>4, <3>1, <3>3 DEF HasState, InHand
    <2>7. CASE TakeState
      <3>1. /\ pendingState # <<>> /\ pendingState' = <<>> /\ UNCHANGED <<driver, completions>>
            /\ worker'.pc = "send" /\ worker'.request = "handshake" /\ worker'.session = 0
            /\ worker'.job = Head(pendingState).job /\ worker'.frames = worker'.job.frames
            /\ worker'.sequence = Head(pendingState).sequence
        BY <2>7, IdleType DEF TakeState, StateReady, driverVars, Workers
      <3>2. Lives'
        BY <1>n, <2>1, <2>3, <3>1 DEF Lives
      <3>3. InOrder'
        BY <2>1, <2>3, <3>1 DEF InOrder, Wants, trackerVars
      <3>4. Answers'
        BY <2>1, <2>3, <3>1 DEF Answers, Shows, trackerVars
      <3>5. Held'
        BY <2>1, <2>3, <3>1 DEF Held, InOrder, Satisfied, Shows, trackerVars
      <3>6. OffBecause'
        BY <2>1, <2>3 DEF OffBecause, trackerVars
      <3> QED
        BY <3>2, <3>3, <3>4, <3>5, <3>6
    <2>8. CASE Post
      <3>1. /\ worker.pc = "post" /\ worker' = Idle /\ completions' = Posted
            /\ UNCHANGED <<driver, pendingState>>
        BY <2>8 DEF Post, driverVars, queueVars
      <3> DEFINE last == Len(completions) + 1
      <3>2. /\ Len(completions') = last /\ last \in Nat
            /\ \A i \in 1 .. Len(completions') :
                 \/ i \in 1 .. Len(completions) /\ i < last /\ completions'[i] = completions[i]
                 \/ i = last /\ completions'[i] = Completion
        BY <1>n, <3>1, PostedTypes
      <3>3. ~HasState' /\ worker'.session = 0 /\ ~(worker'.pc = "post")
        BY <3>1, IdleType DEF HasState, InHand
      <3>4. ~Completion.neutralize => worker.request \in States /\ HasState
        BY <3>1, PostedTypes DEF HasState, InHand, States, Disables, Requests, TypeOK, WorkerTypes
      <3>5. Lives'
        BY <1>n, <2>1, <2>3, <3>1, <3>2, <3>3, PostedTypes DEF Lives
      <3> HIDE DEF last
      <3>6. InOrder'
        <4>1. pendingState' # <<>> =>
                /\ Wants(Head(pendingState).job)' /\ Head(pendingState').sequence >= latestStateChange'
                /\ \A i \in 1 .. Len(completions') :
                     ~completions'[i].neutralize => completions'[i].sequence < Head(pendingState').sequence
          BY <2>1, <2>3, <3>1, <3>2, <3>4, PostedTypes DEF InOrder, Wants, trackerVars
        <4>2. ASSUME NEW i \in 1 .. Len(completions'), NEW j \in 1 .. Len(completions'),
                     i < j, ~completions'[i].neutralize, ~completions'[j].neutralize
              PROVE  completions'[i].sequence < completions'[j].sequence
          <5>1. i \in 1 .. Len(completions) /\ completions'[i] = completions[i]
            BY <1>n, <3>2, <4>2
          <5>2. CASE j \in 1 .. Len(completions) /\ completions'[j] = completions[j]
            BY <4>2, <5>1, <5>2 DEF InOrder
          <5>3. CASE completions'[j] = Completion
            BY <3>1, <3>4, <4>2, <5>1, <5>3, PostedTypes DEF InOrder
          <5> QED
            BY <3>2, <5>2, <5>3
        <4> QED
          BY <3>3, <4>1, <4>2 DEF InOrder
      <3>7. Answers'
        <4> SUFFICES ASSUME NEW i \in 1 .. Len(completions'), ~completions'[i].neutralize,
                            completions'[i].sequence >= latestStateChange
                     PROVE  /\ lastSubmission # <<>> /\ completions'[i].key = Head(lastSubmission).profile
                            /\ completions'[i].ok => completions'[i].session # 0
                            /\ completions'[i].enabled <=> (completions'[i].ok /\ completions'[i].key # Off)
                            /\ completions'[i].ok /\ completions'[i].session = driver.session =>
                                 Shows(Head(lastSubmission))
          BY <2>1, <2>3, <3>1, <3>3 DEF Answers, Shows, trackerVars
        <4>1. CASE i \in 1 .. Len(completions) /\ completions'[i] = completions[i]
          BY <4>1 DEF Answers
        <4>2. CASE completions'[i] = Completion
          <5>1. HasState /\ worker.request \in States /\ worker.sequence >= latestStateChange
            BY <3>4, <4>2, PostedTypes, <3>1
          <5>2. lastSubmission = <<worker.job>>
            BY <5>1 DEF InOrder, Wants
          <5>3. Head(lastSubmission) = worker.job /\ lastSubmission # <<>>
            BY <5>2
          <5>4. worker.ok => worker.session # 0 /\ (worker.session = driver.session => Shows(worker.job))
            BY <3>1, <5>1 DEF Answers
          <5> QED
            BY <3>1, <4>2, <5>3, <5>4, PostedTypes
        <4> QED
          BY <3>2, <4>1, <4>2
      <3>8. Held'
        BY <2>1, <2>3, <3>1, <3>3 DEF Held, Satisfied, Shows, trackerVars
      <3>9. OffBecause'
        BY <2>1, <2>3 DEF OffBecause, trackerVars
      <3> QED
        BY <3>5, <3>6, <3>7, <3>8, <3>9
    <2> QED
      BY <1>6, <2>2, <2>5, <2>6, <2>7, <2>8 DEF WorkerAction
  <1>7. CASE BeginTick
    <2>1. /\ completions = <<>>
          /\ UNCHANGED <<driver, started, worker, completions, pendingState, lastSubmission, enabled,
                         frameDriverSession, lastVerdictRefused, stateChangedSinceVerdict>>
          /\ \/ /\ worker.pc = "wait" /\ pendingState = <<>> /\ latestStateChange' = 0
             \/ UNCHANGED latestStateChange
      BY <1>7 DEF BeginTick, Quiet, othersVars, driverVars, wantVars
    <2>2. CASE UNCHANGED latestStateChange
      BY <1>1, <1>n, <2>1, <2>2 DEF trackerVars, Lives
    <2>3. CASE worker.pc = "wait" /\ pendingState = <<>> /\ latestStateChange' = 0
      <3>1. Len(completions) = 0 /\ ~HasState
        BY <2>1, <2>3 DEF HasState, InHand
      <3>2. ~HasState'
        BY <2>1, <3>1 DEF HasState, InHand
      <3>3. Lives' /\ InOrder' /\ Answers'
        BY <2>1, <2>3, <3>1, <3>2 DEF Lives, InOrder, Answers
      <3>4. Held' /\ OffBecause'
        BY <2>1, <3>2 DEF Held, OffBecause, Satisfied, Shows
      <3> QED
        BY <3>3, <3>4
    <2> QED
      BY <2>1, <2>2, <2>3
  <1>8. CASE PollOne
    <2> DEFINE done == Head(completions)
    <2>1. /\ completions # <<>> /\ completions' = Tail(completions)
          /\ UNCHANGED <<driver, started, worker, pendingState, lastSubmission, latestStateChange>>
      BY <1>8 DEF PollOne, NoteVerdict, othersVars, driverVars, queueVars, trackerVars
    <2>2. /\ done = completions[1] /\ 1 \in 1 .. Len(completions)
          /\ \A i \in 1 .. Len(completions') :
               /\ i + 1 \in 1 .. Len(completions) /\ i \in Nat
               /\ completions'[i] = completions[i + 1]
      BY <2>1, PolledTypes
    <2>3. InOrder'
      <3>1. \A i, j \in 1 .. Len(completions') :
              i < j /\ ~completions'[i].neutralize /\ ~completions'[j].neutralize =>
                completions'[i].sequence < completions'[j].sequence
        BY <2>2 DEF InOrder
      <3> QED
        BY <2>1, <2>2, <3>1 DEF InOrder, Wants, HasState, InHand
    <2>4. Answers'
      BY <2>1, <2>2 DEF Answers, Shows
    <2>5. CASE UNCHANGED <<wantVars, enabled, trackerVars>>
      <3>1. Lives'
        BY <2>1, <2>2, <2>5 DEF Lives, wantVars
      <3>2. Held' /\ OffBecause'
        BY <2>1, <2>5 DEF Held, OffBecause, Satisfied, Shows, HasState, InHand, wantVars, trackerVars
      <3> QED
        BY <2>3, <2>4, <3>1, <3>2
    <2>6. CASE ~done.neutralize /\ ~Stale(done) /\ NoteVerdict(done) /\ ApplyCompletion(done)
      <3>1. /\ done.sequence >= latestStateChange /\ done.sequence \in Nat /\ done.session <= started
            /\ enabled' = done.enabled
            /\ done.ok => frameDriverSession' = done.session
            /\ ~done.ok => frameDriverSession' = frameDriverSession
        BY <1>n, <2>2, <2>6 DEF Stale, ApplyCompletion, Lives
      <3>2. stateChangedSinceVerdict' = FALSE /\ lastVerdictRefused' = ~done.ok
        BY <2>6 DEF NoteVerdict
      <3>3. /\ lastSubmission # <<>> /\ done.key = Head(lastSubmission).profile
            /\ done.enabled <=> (done.ok /\ done.key # Off)
            /\ done.ok /\ done.session = driver.session => Shows(Head(lastSubmission))
        BY <2>2, <2>6, <3>1 DEF Answers
      <3>4. Lives'
        BY <2>1, <2>2, <3>1 DEF Lives
      <3>5. Held'
        <4> SUFFICES ASSUME Satisfied'
                     PROVE  /\ HasState' => worker'.sequence >= latestStateChange'
                            /\ frameDriverSession' = driver'.session /\ driver'.session # 0 =>
                                 Shows(Head(lastSubmission))'
          BY DEF Held
        <4>1. done.ok
          BY <3>2 DEF Satisfied
        <4>2. HasState => worker.sequence >= latestStateChange
          BY <1>n, <2>2, <2>6, <3>1 DEF InOrder
        <4>3. frameDriverSession' = driver.session => Shows(Head(lastSubmission))
          BY <3>1, <3>3, <4>1
        <4> QED
          BY <2>1, <4>2, <4>3 DEF Shows, HasState, InHand
      <3>6. OffBecause'
        BY <2>1, <3>1, <3>2, <3>3 DEF OffBecause
      <3> QED
        BY <2>3, <2>4, <3>4, <3>5, <3>6
    <2> QED
      BY <1>8, <2>5, <2>6 DEF PollOne
  <1>9. CASE NeutralizeCalibrationDevices
    BY <1>1, <1>9, <1>n DEF NeutralizeCalibrationDevices, othersVars, driverVars, wantVars, Lives
  <1>10. CASE Handler
    <2>1. HandlerEffect
      BY <1>9, <1>10, Handles DEF MeasureInv
    <2>2. /\ UNCHANGED <<driver, started, worker, completions>>
          /\ frameDriverSession' \in {frameDriverSession, 0}
      BY <2>1 DEF HandlerEffect, othersVars, driverVars
    <2>3. CASE UNCHANGED linkVars
      BY <1>1, <1>n, <2>2, <2>3 DEF linkVars, trackerVars, Lives
    <2>4. ASSUME NEW job, Submitted(job) PROVE VerdictInv'
      <3>1. /\ pendingState' = <<[sequence |-> nextSequence + 1, job |-> job]>>
            /\ lastSubmission' = <<job>> /\ job.profile = profile'
            /\ lastVerdictRefused' = lastVerdictRefused
        BY <2>4 DEF Submitted
      <3>2. /\ Head(pendingState').sequence = nextSequence + 1 /\ Head(pendingState').job = job
            /\ Head(lastSubmission') = job /\ lastSubmission' # <<>>
        BY <3>1
      <3>3. \/ /\ lastSubmission = lastSubmission'
               /\ UNCHANGED <<latestStateChange, stateChangedSinceVerdict>>
            \/ latestStateChange' = nextSequence + 1 /\ stateChangedSinceVerdict'
        BY <2>4 DEF Submitted
      <3>4. /\ worker.sequence <= nextSequence /\ latestStateChange <= nextSequence
            /\ \A i \in 1 .. Len(completions) : completions[i].sequence <= nextSequence
        BY DEF MeasureInv, Numbered
      <3>5. Lives'
        BY <1>n, <2>2 DEF Lives
      <3>6. InOrder'
        BY <1>n, <2>2, <3>1, <3>2, <3>3, <3>4 DEF InOrder, Wants, HasState, InHand
      <3>7. Answers'
        BY <1>n, <2>2, <3>2, <3>3, <3>4 DEF Answers, Shows
      <3>8. Held'
        <4> SUFFICES ASSUME Satisfied'
                     PROVE  /\ HasState' => worker'.sequence >= latestStateChange'
                            /\ frameDriverSession' = driver'.session /\ driver'.session # 0 =>
                                 Shows(Head(lastSubmission))'
          BY DEF Held
        <4>1. ~stateChangedSinceVerdict' /\ ~lastVerdictRefused /\ lastSubmission # <<>>
          BY <3>1, <3>2, <3>3 DEF Satisfied
        <4>2. lastSubmission' = lastSubmission /\ UNCHANGED <<latestStateChange, stateChangedSinceVerdict>>
          BY <3>3, <4>1
        <4>3. Satisfied
          BY <4>1, <4>2 DEF Satisfied
        <4> QED
          BY <2>2, <4>2, <4>3 DEF Held, Shows, HasState, InHand
      <3>9. OffBecause'
        <4>1. enabled' = (profile' # Off /\ ~(lastVerdictRefused /\ ~stateChangedSinceVerdict'))
          BY <2>4 DEF Submitted
        <4> QED
          BY <3>1, <3>2, <4>1 DEF OffBecause
      <3> QED
        BY <3>5, <3>6, <3>7, <3>8, <3>9
    <2> QED
      BY <2>1, <2>3, <2>4 DEF HandlerEffect, Link
  <1>11. CASE Ended
    <2>1. /\ worker' = Idle /\ pendingState' = <<>> /\ lastSubmission' = <<>> /\ Len(completions') = 0
          /\ frameDriverSession' = 0 /\ UNCHANGED <<driver, started>>
      BY <1>11 DEF Ended, driverVars
    <2>2. ~HasState' /\ worker'.session = 0 /\ ~(worker'.pc = "post")
      BY <2>1, IdleType DEF HasState, InHand
    <2>3. Lives' /\ InOrder' /\ Answers'
      BY <1>n, <2>1, <2>2 DEF Lives, InOrder, Answers
    <2>4. Held' /\ OffBecause'
      BY <2>1 DEF Held, OffBecause, Satisfied
    <2> QED
      BY <2>3, <2>4
  <1>12. CASE Launch
    BY <1>1, <1>12, <1>n DEF Launch, othersVars, driverVars, queueVars, wantVars, trackerVars, Lives
  <1> QED
    BY <1>2, <1>3, <1>4, <1>5, <1>6, <1>7, <1>8, <1>9, <1>10, <1>11, <1>12, NextCases

LEMMA VerdictInit == Init => VerdictInv
  <1> SUFFICES ASSUME Init PROVE VerdictInv
    OBVIOUS
  <1>1. /\ worker = Idle /\ pendingState = <<>> /\ lastSubmission = <<>> /\ Len(completions) = 0
        /\ frameDriverSession = 0 /\ driver = Fresh(0) /\ started = 0
    BY DEF Init
  <1>2. ~HasState /\ worker.session = 0 /\ ~(worker.pc = "post") /\ driver.session = 0
    BY <1>1, IdleType DEF HasState, InHand, Fresh
  <1> QED
    BY <1>1, <1>2 DEF VerdictInv, Lives, InOrder, Answers, Held, OffBecause, Satisfied

-----------------------------------------------------------------------------
(* Theorems.                                                                *)

LEMMA Inductive == Spec => []IInv
  <1>1. Init => IInv
    BY TypeInit, MeasureInit, VerdictInit DEF IInv
  <1>2. IInv /\ [Next]_vars => IInv'
    BY TypeStep, MeasureStep, VerdictStep DEF IInv, MeasureInv
  <1> QED
    BY <1>1, <1>2, PTL DEF Spec

(* The queue, the worker's request, the verdicts and the driver keep their  *)
(* types, and the worker sends only what it has taken.                      *)
THEOREM TypeCorrect == Spec => []TypeOK
  <1>1. IInv => TypeOK
    BY DEF IInv
  <1> QED
    BY <1>1, Inductive, PTL

(* No state in flight, queued, retried or submitted later calibrates a      *)
(* device a run has neutralized, while the run measures it.                 *)
THEOREM Neutral == Spec => []NeutralWhileMeasured
  <1>1. IInv => NeutralWhileMeasured
    BY DEF IInv, MeasureInv, Told, Clear, NeutralWhileMeasured
  <1> QED
    BY <1>1, Inductive, PTL

(* The worker that Stop joins leaves nothing submitted behind.              *)
THEOREM Drained == Spec => []QuitDrains
  <1>1. IInv => QuitDrains
    BY DEF IInv, MeasureInv, Stopping, QuitDrains
  <1> QED
    BY <1>1, Inductive, PTL

(* A success the overlay holds is true of the driver it names, for any      *)
(* number of driver lives, replays and lost answers.                        *)
THEOREM Truthful == Spec => []VerdictMeansApplied
  <1>1. IInv => VerdictMeansApplied
    BY DEF IInv, VerdictInv, Held, Satisfied, Shows, VerdictMeansApplied
  <1> QED
    BY <1>1, Inductive, PTL

(* The calibration a driver refused is not shown as enabled because the     *)
(* scan submits it again.                                                   *)
THEOREM Refusals == Spec => RefusalHolds
  <1> DEFINE Change ==
        ~enabled /\ enabled' =>
          \/ lastSubmission' # lastSubmission
          \/ completions # <<>> /\ completions' = Tail(completions) /\ Head(completions).ok
  <1>1. IInv /\ [Next]_vars => [Change]_vars
    <2> SUFFICES ASSUME IInv, [Next]_vars, ~enabled, enabled', lastSubmission' = lastSubmission
                 PROVE  completions # <<>> /\ completions' = Tail(completions) /\ Head(completions).ok
      BY DEF Change
    <2> USE DEF IInv, MeasureInv, VerdictInv
    <2>1. ~(UNCHANGED enabled)
      OBVIOUS
    <2>2. \/ WorkerAction \/ PollOne \/ Handler \/ Ended
      BY <2>1, NextCases DEF vars, uiVars, DriverStarts, DriverDies, HubOpens, HubSeesDeath, HubFails,
         HubBoundary, BeginTick, NeutralizeCalibrationDevices, Launch
    <2>3. ~WorkerAction
      BY <2>1, WorkerStep DEF uiVars
    <2>4. ~Ended
      <3>1. Ended => enabled' = FALSE
        BY DEF Ended
      <3> QED
        BY <3>1
    <2>5. CASE PollOne
      <3>1. /\ completions # <<>> /\ completions' = Tail(completions)
            /\ ~Head(completions).neutralize /\ ~Stale(Head(completions))
            /\ enabled' = Head(completions).enabled
        BY <2>1, <2>5 DEF PollOne, ApplyCompletion
      <3>2. Head(completions) = completions[1] /\ 1 \in 1 .. Len(completions)
        BY <3>1, PolledTypes
      <3>3. completions[1].sequence >= latestStateChange
        BY <3>1, <3>2, CompletionTypes DEF Stale, TypeOK, UITypes
      <3> QED
        BY <3>1, <3>2, <3>3 DEF Answers
    <2>6. CASE Handler
      <3>1. \E job : Submitted(job)
        BY <2>1, <2>6, Handles DEF HandlerEffect, Link, linkVars
      <3>2. PICK job : Submitted(job)
        BY <3>1
      <3>3. /\ lastSubmission = <<job>> /\ job.profile = profile'
            /\ enabled' = (profile' # Off /\ ~(lastVerdictRefused /\ ~stateChangedSinceVerdict'))
            /\ stateChangedSinceVerdict' = stateChangedSinceVerdict
        BY <3>2 DEF Submitted
      <3>4. lastSubmission # <<>> /\ Head(lastSubmission) = job
        BY <3>3
      <3> QED
        BY <3>3, <3>4 DEF OffBecause
    <2> QED
      BY <2>2, <2>3, <2>4, <2>5, <2>6
  <1>2. Spec => [][Change]_vars
    BY <1>1, Inductive, PTL DEF Spec
  <1> QED
    BY <1>2 DEF RefusalHolds

=============================================================================
