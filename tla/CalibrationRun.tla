---------------------------- MODULE CalibrationRun --------------------------
(***************************************************************************)
(* A base calibration run over raw driver poses, beside the runtime        *)
(* monitors that follow the lighthouse frames.  Every tick the monitors    *)
(* drain the pose stream first (RuntimeMonitorTick), then the run drains   *)
(* the same stream for itself (CollectFromPoseRing): samples published in  *)
(* between are the run's one tick before they are the monitors'.  A run on *)
(* a live profile keeps every tracker's correction and measures C in the   *)
(* normalized space; any other starts the corrections over.                *)
(*                                                                         *)
(* Real positions, clocks and the solver are left out: a sample says which *)
(* frame it is in and whether the device went on along its trajectory, and *)
(* samples of one frame measure it exactly.  How a run begins is in        *)
(* DriverLink; field anchors and the runtime-pose source are not modelled. *)
(***************************************************************************)
EXTENDS TrackerFrames

CONSTANTS
  Target,         \* the tracker a run measures
  Headset,        \* the headset tracker, or a value outside Trackers
  Deltas,         \* the transforms SteamVR re-solves a station by
  MaxSamples,     \* bound: samples published
  MaxMoves,       \* bound: stations re-solved
  MaxChanges      \* bound: trackers changing station, jumping or switched off,
                  \* the profile switched on or off, runs begun

ASSUME TargetAssumption == Target \in Trackers
ASSUME DeltasAssumption == Deltas \subseteq [r : {1, -1}, t : Int]

VARIABLES
  err,          \* the stations' displacements, as SteamVR holds them now
  seat,         \* the station each tracker is reported in
  settingUp,    \* SteamVR is still placing its stations
  time, resolved, changes,
  toMonitor, toCollector,   \* what each consumer has not drained
  enabled,      \* the profile is applied, so the monitors run
  active,       \* MonitorActive
  watch,        \* the frame watch between drains
  stale,        \* FrameEpoch # trackerFrameEpoch: the watch starts over
  observed,     \* FrameObservedThrough of the target
  corrections,  \* N and usableAfter of each tracker; lost is history
  calibration,
  pc,           \* where the tick is
  run,          \* CalibrationRun, empty when state is None; unsettled is
                \* history: N was captured while a change of the target waited
  outcome       \* how the last run ended

worldVars == <<err, seat, settingUp, resolved>>
monitorVars == <<active, watch, stale, observed>>
profileVars == <<corrections, calibration>>
vars == <<worldVars, time, changes, toMonitor, toCollector, enabled, monitorVars,
          profileVars, pc, run, outcome>>

NoRun == [state |-> "None"]
Collecting == run.state = "Collecting"

FreshWatch ==
  [dev |-> [d \in Trackers \cup Stations |-> Unseen], known |-> <<>>,
   waiting |-> [d \in Trackers |-> Nothing], moves |-> <<>>, switches |-> <<>>, dropped |-> {}]

FreshCorrections ==
  [frames |-> [d \in Trackers |-> Identity], usableAfter |-> [d \in Trackers |-> 0], lost |-> {}]

FrameOf(station) == [station |-> station, err |-> err[station]]

\* A session under way: the calibration reads right on every tracker, and the
\* watch has seen each device in its frame.
Init ==
  /\ err = [b \in Stations |-> Identity]
  /\ seat \in [Trackers -> Stations]
  /\ settingUp \in BOOLEAN
  /\ time = 0 /\ resolved = 0 /\ changes = 0
  /\ toMonitor = <<>> /\ toCollector = <<>>
  /\ enabled = TRUE /\ active = TRUE
  /\ watch = [FreshWatch EXCEPT !.dev =
       [d \in Trackers \cup Stations |->
          [at |-> "here", mark |-> 0,
           frame |-> FrameOf(IF d \in Stations THEN d ELSE seat[d])]]]
  /\ stale = FALSE /\ observed = 0
  /\ corrections = FreshCorrections
  /\ calibration = Solve(Identity)
  /\ pc = "monitor" /\ run = NoRun /\ outcome = "none"

-----------------------------------------------------------------------------
(* SteamVR, its stations and trackers, and the stream they fill.            *)

Publish(sample) ==
  /\ time < MaxSamples
  /\ time' = time + 1
  /\ toMonitor' = Append(toMonitor, sample)
  /\ toCollector' = IF Collecting /\ sample.dev = Target THEN Append(toCollector, sample) ELSE toCollector

Sample(d, station, smooth, tracks) ==
  [dev |-> d, time |-> time + 1, frame |-> FrameOf(station), smooth |-> smooth,
   tracks |-> tracks, setup |-> settingUp]

Spend == changes < MaxChanges /\ changes' = changes + 1

\* A sample that repeats what the monitors already know changes nothing and
\* would only use the bound up, except the first one a run collects.
LastSaid(d) ==
  LET mine == SelectSeq(toMonitor, LAMBDA s : s.dev = d)
      last == IF mine # <<>> THEN Last(mine) ELSE [tracks |-> FALSE]
  IN IF mine = <<>> THEN IF watch.dev[d].at = "here" THEN watch.dev[d].frame ELSE Nothing
     ELSE IF last.tracks THEN last.frame ELSE Nothing

News(d, station) ==
  \/ stale \/ LastSaid(d) # FrameOf(station)
  \/ Collecting /\ d = Target /\ run.at = Nothing

\* "Moving base ... because of relationship with ...": every pose in the
\* station's frame moves by the same transform.
Move(b) ==
  /\ resolved < MaxMoves /\ resolved' = resolved + 1
  /\ \E f \in Deltas : err' = [err EXCEPT ![b] = Compose(f, @)]
  /\ UNCHANGED <<seat, settingUp, time, changes, toMonitor, toCollector, enabled,
                 monitorVars, profileVars, pc, run, outcome>>

SetupEnds ==
  /\ Spend /\ settingUp /\ settingUp' = FALSE
  /\ UNCHANGED <<err, seat, resolved, time, toMonitor, toCollector, enabled,
                 monitorVars, profileVars, pc, run, outcome>>

Track(d) ==
  /\ News(d, seat[d]) /\ Publish(Sample(d, seat[d], TRUE, TRUE))
  /\ UNCHANGED <<worldVars, changes, enabled, monitorVars, profileVars, pc, run, outcome>>

Jump(d) ==
  /\ Spend /\ News(d, seat[d]) /\ Publish(Sample(d, seat[d], FALSE, TRUE))
  /\ UNCHANGED <<worldVars, enabled, monitorVars, profileVars, pc, run, outcome>>

ChangeStation(d) ==
  /\ Spend
  /\ \E b \in Stations \ {seat[d]} : seat' = [seat EXCEPT ![d] = b]
  /\ UNCHANGED <<err, settingUp, resolved, time, toMonitor, toCollector, enabled,
                 monitorVars, profileVars, pc, run, outcome>>

SwitchOff(d) ==
  /\ Spend /\ LastSaid(d) # Nothing /\ Publish(Sample(d, seat[d], FALSE, FALSE))
  /\ UNCHANGED <<worldVars, enabled, monitorVars, profileVars, pc, run, outcome>>

StationTracks(b) ==
  /\ News(b, b) /\ Publish(Sample(b, b, TRUE, TRUE))
  /\ UNCHANGED <<worldVars, changes, enabled, monitorVars, profileVars, pc, run, outcome>>

-----------------------------------------------------------------------------
(* The runtime monitors' half of a tick.                                    *)

Measured == IF Collecting THEN {Target} ELSE {}

\* Some of the changes still waiting have waited inferSeconds.
Expired(w) == {d \in Trackers : w.waiting[d] # Nothing}

Drained(w, expired) ==
  Along(Note, Along(Expire, w, SetToSeq(expired)), toMonitor)

Observe(w, expired) ==
  LET seen == Drained(w, expired)
      moved == CompensateTrackerFrameMoves(corrections, seen)
      times == {toMonitor[i].time : i \in {i \in DOMAIN toMonitor : toMonitor[i].dev = Target}}
  IN /\ watch' = [seen EXCEPT !.moves = <<>>, !.switches = <<>>, !.dropped = {}]
     /\ corrections' = JoinTrackerFrames(moved, seen, Headset, Measured)
     /\ observed' = Max(times \cup {IF stale THEN 0 ELSE observed})

\* Samples are dropped while the profile is off: a device may have stayed on
\* its trajectory meanwhile, or gone too far for the next one to tell.
Skipped(d) == \E i \in DOMAIN toMonitor : toMonitor[i].dev = d
Parted(w, apart) ==
  [w EXCEPT !.dev = [d \in DOMAIN @ |-> IF d \in apart /\ @[d].at = "here"
                                          THEN [@[d] EXCEPT !.at = "apart"] ELSE @[d]]]

RuntimeMonitorTick ==
  /\ pc = "monitor"
  /\ pc' = IF Collecting THEN "collect" ELSE "monitor"
  /\ toMonitor # <<>> \/ stale \/ active # enabled \/ Collecting
  /\ toMonitor' = <<>>
  /\ stale' = FALSE
  /\ active' = enabled
  /\ LET w == IF stale THEN FreshWatch ELSE watch
     IN IF enabled /\ active /\ toMonitor # <<>>
          THEN \E expired \in SUBSET Expired(w) : Observe(w, expired)
          ELSE /\ \E apart \in SUBSET {d \in Trackers : Skipped(d)} : watch' = Parted(w, apart)
               /\ observed' = IF stale THEN 0 ELSE observed
               /\ UNCHANGED corrections
  /\ UNCHANGED <<worldVars, time, changes, toCollector, enabled, calibration, run, outcome>>

-----------------------------------------------------------------------------
(* The run.                                                                 *)

\* The target's frame: `at' the last sample's, toStart from it to the one the
\* run began in.  `spread' is where the carried samples lie.
BeginCollection ==
  /\ pc = "monitor" /\ ~Collecting /\ Spend
  /\ run' = [state |-> "Collecting", preserveTrackerFrames |-> enabled, captured |-> 0,
             normalization |-> Identity, at |-> Nothing, toStart |-> Identity, moves |-> 0,
             spread |-> {}, stopped |-> FALSE, unsettled |-> FALSE]
  /\ toCollector' = <<>>
  /\ outcome' = "none"
  /\ UNCHANGED <<worldVars, time, toMonitor, enabled, monitorVars, profileVars, pc>>

\* where the frame the run stands in moved the device, but not its pose in it
Accept(r, s) ==
  LET was == [at |-> "here", frame |-> r.at]
      kind == IF r.at = Nothing \/ r.at = s.frame THEN "same" ELSE Kind(was, s)
      f == Between(r.at.err, s.frame.err)
      next == [r EXCEPT !.at = s.frame,
                        !.toStart = IF kind = "moved" THEN BackToStart(@, f) ELSE @,
                        !.moves = IF kind = "moved" THEN @ + 1 ELSE @]
  IN IF kind = "unclear" THEN [r EXCEPT !.stopped = TRUE]
     ELSE [next EXCEPT !.spread = @ \cup {Compose(next.toStart, s.frame.err)}]

\* Whether the monitors have followed the frames up to this sample, and N
\* corrects the frame it is in.
MayCaptureAtOnce(s) == s.time >= corrections.usableAfter[Target]
MayCapture(s) == s.time <= observed /\ s.time >= corrections.usableAfter[Target]

Capture(r, s) ==
  IF ~r.preserveTrackerFrames \/ r.captured # 0 THEN r
  ELSE [r EXCEPT !.captured = s.time, !.normalization = corrections.frames[Target],
                 !.unsettled = watch.waiting[Target] # Nothing]

Collect(r, s) ==
  IF r.stopped \/ ~s.tracks THEN r
  ELSE IF r.preserveTrackerFrames /\ r.captured = 0 /\ ~MayCapture(s) THEN r
  ELSE Accept(Capture(r, s), s)

Collected == Along(Collect, run, toCollector)

End(how) == run' = NoRun /\ outcome' = how

CollectFromPoseRing ==
  /\ pc = "collect" /\ Collecting /\ pc' = "monitor"
  /\ toCollector' = <<>>
  /\ IF Collected.stopped THEN End("stopped") ELSE run' = Collected /\ UNCHANGED outcome
  /\ UNCHANGED <<worldVars, time, changes, toMonitor, enabled, monitorVars, profileVars>>

FollowedRunAlways(r) == TRUE

\* ExpressCalibration needs the target's N to have followed every move the
\* run carried back to its start.
FollowedRun(r) == corrections.frames[Target] = Compose(r.normalization, r.toStart)

\* A collection lasts ten seconds or more and stops after two without a
\* sample; a change waits five.  One that waited when N was captured does so
\* no longer.
Outlasted(r) ==
  r.preserveTrackerFrames =>
    watch.waiting[Target] = Nothing \/ watch.waiting[Target].time > r.captured

Aligned(r) == {d \in Trackers \ {Target} : LastFrameIs(watch, d, r.at)}

\* A tracker reported in the target's frame takes its correction.  Those left
\* as they were read right if the calibration is what it was; one given a
\* correction while a change of its own is still read may be corrected twice.
ApplyPreserved(r, solved) ==
  LET c == ExpressCalibration(solved, r.normalization)
      doubtful(d) ==
        \/ d = Target /\ watch.dev[d].frame # r.at
        \/ d \in Aligned(r) \cup {Target} /\ watch.waiting[d] # Nothing
        \/ d \notin Aligned(r) \cup {Target} /\ (calibration # c \/ d \in corrections.lost)
  IN /\ calibration' = c
     /\ corrections' = [corrections EXCEPT
          !.frames = [d \in Trackers |-> IF d \in Aligned(r) THEN @[Target] ELSE @[d]],
          !.lost = {d \in Trackers : doubtful(d)}]
     /\ UNCHANGED stale

ApplyFresh(r, solved) ==
  /\ calibration' = IF r.moves > 0 THEN CarryCalibration(solved, r.toStart) ELSE solved
  /\ corrections' = [FreshCorrections EXCEPT !.lost = Trackers \ {Target}]
  /\ stale' = TRUE

\* Ends in SynchronizeCalibrationDriver, which says anew whether the profile
\* may be on.
FinishCalibration ==
  /\ pc = "collect" /\ Collecting /\ pc' = "monitor"
  /\ toCollector' = <<>>
  /\ ~Collected.stopped /\ Collected.spread # {} /\ Outlasted(Collected)
  /\ LET r == Collected
     IN \E frame \in r.spread :
          IF ~r.preserveTrackerFrames
            THEN ApplyFresh(r, Solve(frame)) /\ End("applied") /\ enabled' \in BOOLEAN
          ELSE IF FollowedRun(r)
            THEN ApplyPreserved(r, Solve(frame)) /\ End("applied") /\ enabled' \in BOOLEAN
          ELSE UNCHANGED <<profileVars, stale, enabled>> /\ End("unfollowed")
  /\ UNCHANGED <<worldVars, time, changes, toMonitor, active, watch, observed>>

\* A stop no frame is the cause of: the player, silence, an identity lost, a
\* solve that fails.
CancelCalibration ==
  /\ Collecting /\ End("stopped") /\ pc' = "monitor"
  /\ toCollector' = <<>>
  /\ UNCHANGED <<worldVars, time, changes, toMonitor, enabled, monitorVars, profileVars>>

\* The headset is another one, or the driver's verdict comes in.
SetEnabled ==
  /\ Spend /\ enabled' = ~enabled
  /\ UNCHANGED <<worldVars, time, toMonitor, toCollector, monitorVars, profileVars, pc, run, outcome>>

Next ==
  \/ \E b \in Stations : Move(b) \/ StationTracks(b)
  \/ \E d \in Trackers : Track(d) \/ Jump(d) \/ ChangeStation(d) \/ SwitchOff(d)
  \/ SetupEnds \/ RuntimeMonitorTick \/ BeginCollection \/ CollectFromPoseRing
  \/ FinishCalibration \/ CancelCalibration \/ SetEnabled

Spec == Init /\ [][Next]_vars
-----------------------------------------------------------------------------
TypeOK ==
  /\ \A b \in Stations : err[b].r \in {1, -1} /\ err[b].t \in Int
  /\ seat \in [Trackers -> Stations]
  /\ settingUp \in BOOLEAN /\ enabled \in BOOLEAN /\ active \in BOOLEAN /\ stale \in BOOLEAN
  /\ time \in 0..MaxSamples /\ observed \in 0..time
  /\ corrections.lost \subseteq Trackers
  /\ \A d \in Trackers : corrections.frames[d].r \in {1, -1} /\ corrections.usableAfter[d] \in 0..time
  /\ pc \in {"monitor", "collect"}
  /\ outcome \in {"none", "stopped", "unfollowed", "applied"}

(* A tracker reads right in the frame the watch last saw it in, whatever    *)
(* stations moved, however moves, changes of station and disconnections     *)
(* interleave with drains, pauses and recalibrations -- unless the code     *)
(* could not follow its frame.  One whose change waits to be read off other *)
(* devices reads right in the frame it left.                                *)
TrackersReadRight ==
  \A d \in Trackers \ corrections.lost :
    watch.dev[d] # Unseen /\ ~stale =>
      ReadsRight(calibration, corrections.frames[d],
                 IF watch.waiting[d] = Nothing THEN watch.dev[d].frame.err
                 ELSE watch.waiting[d].from.err)

(* A calibration is applied only if it reads right on the last sample it    *)
(* was measured with, under the correction the target has then, however the *)
(* target's frame moved meanwhile.                                          *)
MeasuredRight ==
  [][Collecting /\ outcome' = "applied" =>
       ReadsRight(calibration', corrections'.frames[Target], Collected.at.err)]_vars

(* A run is stopped for a frame its target's correction did not follow only *)
(* when that is so, or when N was captured with a change still to be read:  *)
(* moves the monitors followed never cost a measurement.                    *)
StopsForCause ==
  [][Collecting /\ outcome' = "unfollowed" =>
       \/ Target \in corrections.lost
       \/ watch.waiting[Target] # Nothing
       \/ watch.dev[Target].frame # Collected.at
       \/ Collected.unsettled]_vars

=============================================================================
