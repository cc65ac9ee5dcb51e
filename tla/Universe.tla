------------------------------ MODULE Universe ------------------------------
(***************************************************************************)
(* Following the headset's raw universe.  The driver-side stream carries   *)
(* the headset's worldFromDriver (WFD) with every sample; when the Quest   *)
(* runtime re-centers, the WFD changes and the raw universe may move.  Two *)
(* consumers of the same stream see it.  The runtime monitors feed the     *)
(* jump detector, whose compensations move the calibration and the         *)
(* protected room (RuntimeMonitorTick, ApplyUniverseDelta).  Then, in the  *)
(* same tick, CalibrationSpace notes each WFD transition, and the verdict  *)
(* decides whether the profile may take the new WFD or is latched unsafe   *)
(* (ProfileUniverseTick), and whether the room may still be restored.      *)
(*                                                                         *)
(* A pose is one integer here: `w' is the WFD, `u' where the raw universe  *)
(* lies, and a device's driver-local pose is u - w.  A sample stands for a *)
(* stretch of adjacent samples of one WFD.  The universe moves only with   *)
(* the WFD: a step of the raw pose alone is the jump detector's business   *)
(* and the verdict never sees it.                                          *)
(***************************************************************************)
EXTENDS Integers, Sequences

CONSTANTS
  Worlds,        \* the values a WFD takes, as positions
  Kinds,         \* the kinds of sample an instance publishes
  MaxEvents,     \* bound: samples published, and incidents: session boundaries,
                 \* runs, captures and refused deltas
  Returns,       \* whether a WFD left behind may come back
  Hasty          \* whether the user may capture a room or end a run at a
                 \* moment when the headset's universe is not settled

\* good: adjacent to the one before; late: more than maxFrameGap after it;
\* bad: not tracking; the others follow a loss: one or two poses (drop), more
\* (hole), or a session boundary (session).
Lossy == {"drop", "hole", "session"}

ASSUME WorldsAssumption == Worlds \subseteq Int /\ 0 \in Worlds
ASSUME KindsAssumption == Kinds \subseteq {"good", "late", "bad", "drop", "hole"}
ASSUME FlagsAssumption == Returns \in BOOLEAN /\ Hasty \in BOOLEAN

VARIABLES
  stream,      \* history: the headset's samples published so far
  open,        \* RingOpen
  crossing,    \* the next sample follows a session boundary
  incidents,   \* the incidents of the bound so far
  newSession,  \* StreamBoundaries # FrameStreamBoundary
  recovering,  \* frameRecoveryPending
  active,      \* MonitorActive
  pc,          \* where the tick is
  mon, upto,   \* MonitorConsumer's position; the end of the batch in hand
  spc,         \* Space.consumer's position
  watch,       \* the detector's continuous history of the headset: first, last
  cands,       \* its live heuristic headset candidates
  lastAccept,  \* lastAcceptTime, as a sample
  deltas,      \* accepted, not yet polled
  hmd,         \* Space.hmd: its state and the sample of its endpoint
  trans,       \* the verdict's transitions
  comped,      \* and compensated samples
  grace,       \* mismatchSince and timedFrom: off, or running or over for a WFD
  waiting,     \* the verdict waits for a candidate
  seen,        \* the transitions this tick's batch held
  run,         \* the sample a run began at; 0 when state is None
  profile,     \* the profile and the calibration; from: history, whose WFD it first took
  room,        \* the protected chaperone; leapt: history, see RoomFollows
  missed       \* history: the monitors discarded a sample

streamVars == <<stream, crossing>>
linkVars == <<open, newSession, recovering, active>>
jumpVars == <<watch, cands, lastAccept, deltas>>
verdictVars == <<trans, comped, grace, waiting>>
vars == <<streamVars, incidents, linkVars, jumpVars, verdictVars, pc, mon, upto, spc,
          hmd, seen, run, profile, room, missed>>

Nowhere == [first |-> 0, last |-> 0]
Start == [w |-> 0, u |-> 0]
Pose(i) == IF i = 0 THEN Start ELSE [w |-> stream[i].w, u |-> stream[i].u]
Latest == Pose(Len(stream))

\* A loop over a sequence (a function, for the proofs to follow it step by step).
Along(step(_, _), start, s) ==
  LET after[k \in 0..Len(s)] == IF k = 0 THEN start ELSE step(after[k - 1], s[k])
  IN after[Len(s)]

\* What Drain hands out from position c: it stops in front of the next loss.
BatchEnd(c) ==
  CHOOSE k \in c..Len(stream) :
    /\ \A i \in (c + 2)..k : stream[i].kind \notin Lossy
    /\ k = Len(stream) \/ (k > c /\ stream[k + 1].kind \in Lossy)

Enabled == profile.has /\ ~profile.unsafe
Running == run.at # 0
Fresh == open /\ hmd.state = "usable"
Observed == stream[hmd.n].w
BaselineCurrent == room.ver /\ Fresh /\ room.w = Observed

\* A launch: a first one, one with a room alone, one with a profile and a room, where
\* the profile may be of a release that saved no WFD.  (A bound profile never looks at
\* the room; one with neither WFD nor room takes whatever universe it finds.)
Init ==
  /\ stream = <<>> /\ open = TRUE /\ crossing = FALSE
  /\ incidents = 0 /\ newSession = FALSE /\ recovering = TRUE
  /\ active = FALSE /\ pc = "idle" /\ mon = 0 /\ upto = 0 /\ spc = 0
  /\ watch = Nowhere /\ cands = {} /\ lastAccept = 0 /\ deltas = <<>>
  /\ hmd = [state |-> "empty", n |-> 0]
  /\ trans = <<>> /\ comped = {} /\ grace = [at |-> "off", from |-> 0] /\ waiting = FALSE
  /\ seen = <<>> /\ run = [at |-> 0, ticked |-> FALSE]
  /\ \E has, bound, kept \in BOOLEAN :
       /\ (bound => has) /\ (has => kept)
       /\ profile = [has |-> has, bound |-> bound, w |-> 0, cal |-> 0, unsafe |-> FALSE,
                     from |-> "own"]
       /\ room = [valid |-> kept, auto |-> kept, ver |-> FALSE, w |-> 0, at |-> 0, leapt |-> FALSE]
  /\ missed = FALSE

Spare == Len(stream) + incidents < MaxEvents
Incident == Spare /\ incidents' = incidents + 1

-----------------------------------------------------------------------------
(* The headset and the hub's drain thread.                                  *)

\* A sample reaches both consumers' backlogs.  The two drains of a tick are
\* the only readers, so publishing between ticks and between them is enough.
Publish(kind, w, u) ==
  /\ open /\ pc \in {"idle", "drain"} /\ Spare
  /\ stream' = Append(stream, [w |-> w, u |-> u,
                               kind |-> IF crossing THEN "session" ELSE kind])
  /\ crossing' = FALSE
  /\ UNCHANGED <<incidents, linkVars, jumpVars, verdictVars, pc, mon, upto, spc, hmd, seen,
                 run, profile, room, missed>>

\* What the runtime may do with the WFD: leave it, re-base it (the driver-local
\* pose continues), re-express the local pose (the raw pose continues), or
\* switch maps (neither does).
Still == \E kind \in Kinds : Publish(kind, Latest.w, Latest.u)

Change ==
  \E kind \in Kinds \ {"bad"}, w \in Worlds :
    /\ w # Latest.w
    /\ Returns \/ (w > Latest.w /\ \A i \in DOMAIN stream : stream[i].w # w)
    /\ \/ Publish(kind, w, Latest.u + w - Latest.w)
       \/ Publish(kind, w, Latest.u)
       \/ Publish(kind, w, Latest.u - w + Latest.w)

\* AppendSessionBoundaryLocked, and the ring lost or still open after it.
SessionBoundary ==
  /\ open /\ Incident /\ pc \in {"idle", "drain"}
  /\ open' \in BOOLEAN
  /\ newSession' = TRUE /\ crossing' = TRUE
  /\ mon' = Len(stream) /\ spc' = Len(stream)
  /\ UNCHANGED <<stream, recovering, active, jumpVars, verdictVars, pc,
                 upto, hmd, seen, run, profile, room, missed>>

Reopen ==
  /\ ~open /\ pc \in {"idle", "drain"} /\ open' = TRUE
  /\ UNCHANGED <<streamVars, incidents, newSession, recovering, active, jumpVars, verdictVars, pc,
                 mon, upto, spc, hmd, seen, run, profile, room, missed>>

\* The driver answered the recovery request (ApplyCompletion).
Recovered ==
  /\ recovering /\ pc = "idle" /\ recovering' = FALSE
  /\ UNCHANGED <<streamVars, incidents, open, newSession, active, jumpVars, verdictVars, pc,
                 mon, upto, spc, hmd, seen, run, profile, room, missed>>

GraceOver ==
  /\ grace.at = "running" /\ pc = "idle" /\ grace' = [grace EXCEPT !.at = "over"]
  /\ UNCHANGED <<streamVars, incidents, linkVars, jumpVars, trans, comped, waiting, pc,
                 mon, upto, spc, hmd, seen, run, profile, room, missed>>

-----------------------------------------------------------------------------
(* RuntimeMonitorTick and the jump detector.                                *)

ResetJumps == watch' = Nowhere /\ cands' = {} /\ lastAccept' = 0 /\ deltas' = <<>>

\* DiscardBacklog.
Discard == mon' = Len(stream) /\ missed' = (missed \/ mon < Len(stream))

Park ==
  /\ pc = "idle" /\ (newSession \/ recovering \/ ~Enabled \/ ~open)
  /\ recovering' = (recovering \/ newSession) /\ newSession' = FALSE
  /\ active' = FALSE /\ Discard /\ ResetJumps
  /\ run' = [run EXCEPT !.ticked = Running] /\ pc' = "drain"
  /\ UNCHANGED <<streamVars, incidents, open, verdictVars, upto, spc, hmd, seen,
                 profile, room>>

\* A drop too short to reset anything: only what was not fitted yet goes.
NoteStreamHole ==
  watch' = Nowhere /\ cands' = {c \in cands : c.ready} /\ UNCHANGED <<lastAccept, deltas>>

HoleInFront == IF mon < Len(stream) THEN stream[mon + 1].kind ELSE "good"

\* A hole in front of the batch reaches the detector before the batch does.
MonitorDrain ==
  /\ pc = "idle" /\ ~newSession /\ ~recovering /\ Enabled /\ open
  /\ active' = TRUE /\ pc' = "push"
  /\ \/ ~active /\ Discard /\ upto' = Len(stream) /\ UNCHANGED jumpVars
     \/ /\ active /\ upto' = BatchEnd(mon) /\ UNCHANGED <<mon, missed>>
        /\ \/ HoleInFront \in {"hole", "session"} /\ ResetJumps
           \/ HoleInFront = "drop" /\ NoteStreamHole
           \/ HoleInFront \notin Lossy /\ UNCHANGED jumpVars
  /\ UNCHANGED <<streamVars, incidents, open, newSession, recovering, verdictVars, spc, hmd,
                 seen, run, profile, room>>

BreakObservationContinuity == watch' = Nowhere /\ cands' = {} /\ UNCHANGED <<lastAccept, deltas>>

\* Exact and authoritative: accepted at once, in place of every candidate.
DetectWfdRebase(n) ==
  LET s == stream[n]
      p == stream[watch.last]
  IN
  /\ watch' = [first |-> n, last |-> n] /\ cands' = {} /\ lastAccept' = n
  /\ deltas' = Append(deltas, [n |-> n, exact |-> TRUE, prev |-> p.w, d |-> s.w - p.w])

\* A raw pose that leaves its trajectory may raise a candidate, whose history window
\* starts at `from' (a step below the thresholds, or inside another candidate's
\* window, raises none).
DetectDiscontinuity(n, near) ==
  \/ UNCHANGED cands
  \/ /\ near /\ stream[n].u # stream[watch.last].u
     /\ \E from \in watch.first..watch.last :
          cands' = cands \cup {[n |-> n, from |-> from, ready |-> FALSE]}

\* Push.  A change of WFD is a re-base if the local pose continues.
PushSample ==
  LET n == mon + 1
      s == stream[n]
      p == stream[watch.last]
      near == watch.last # 0 /\ s.kind = "good"
      rebased == near /\ s.w # p.w /\ s.u - s.w = p.u - p.w
  IN
  /\ pc = "push" /\ mon < upto /\ mon' = n
  /\ \/ Running /\ UNCHANGED jumpVars
     \/ ~Running /\ s.kind = "bad" /\ BreakObservationContinuity
     \/ ~Running /\ s.kind # "bad" /\ rebased /\ DetectWfdRebase(n)
     \/ /\ ~Running /\ s.kind # "bad" /\ ~rebased
        /\ watch' = [first |-> IF watch.last = 0 THEN n ELSE watch.first, last |-> n]
        /\ DetectDiscontinuity(n, near)
        /\ UNCHANGED <<lastAccept, deltas>>
  /\ UNCHANGED <<streamVars, incidents, linkVars, verdictVars, pc, upto, spc, hmd, seen, run,
                 profile, room, missed>>

\* EvaluatePendingCandidates: a fit is only clean when neither window holds
\* another step.
Ripen ==
  /\ pc = "push" /\ ~Running
  /\ \E c \in cands :
       /\ ~c.ready
       /\ \A i \in c.from..(c.n - 1) : stream[i].u = stream[c.n - 1].u
       /\ \A i \in c.n..(watch.last - 1) : stream[i].u = stream[c.n].u
       /\ cands' = (cands \ {c}) \cup {[c EXCEPT !.ready = TRUE]}
  /\ UNCHANGED <<streamVars, incidents, linkVars, watch, lastAccept, deltas, verdictVars, pc,
                 mon, upto, spc, hmd, seen, run, profile, room, missed>>

\* A fit that is not clean, a wait that ran out, a window that reaches back past
\* the last applied step.
DropCandidate ==
  /\ pc = "push" /\ ~Running
  /\ \E c \in cands : cands' = cands \ {c}
  /\ UNCHANGED <<streamVars, incidents, linkVars, watch, lastAccept, deltas, verdictVars, pc,
                 mon, upto, spc, hmd, seen, run, profile, room, missed>>

\* TryAccept's heuristic path: a controller agreed, or the step is taken alone.
\* Later candidates stay.
Confirm ==
  /\ pc = "push" /\ ~Running
  /\ \E c \in cands :
       /\ c.ready /\ c.from > lastAccept
       /\ deltas' = Append(deltas, [n |-> c.n, exact |-> FALSE, prev |-> stream[c.n - 1].w,
                                    d |-> stream[c.n].u - stream[c.n - 1].u])
       /\ lastAccept' = c.n
       /\ cands' = {o \in cands : o.n > c.n}
  /\ UNCHANGED <<streamVars, incidents, linkVars, watch, verdictVars, pc, mon, upto, spc, hmd,
                 seen, run, profile, room, missed>>

RebasesAnyProfile(d) == d.exact /\ profile.bound

ExactDeltaRebasesProfile(d) == d.exact /\ profile.bound /\ profile.w = d.prev

\* ApplyUniverseDelta.  An exact delta moves the profile's WFD only from the WFD
\* it started at; it moves the room's WFD from any.
ApplyDelta ==
  LET d == Head(deltas)
      to == stream[d.n].w
  IN
  /\ pc = "push" /\ mon = upto /\ deltas # <<>> /\ ~Running
  /\ profile' = [profile EXCEPT !.cal = @ + d.d,
                                !.w = IF ExactDeltaRebasesProfile(d) THEN to ELSE @]
  /\ room' = IF ~room.valid THEN room
             ELSE IF d.exact
               THEN [room EXCEPT !.at = @ + d.d, !.w = to, !.ver = TRUE,
                                 !.leapt = @ \/ room.w # d.prev]
             ELSE [room EXCEPT !.at = @ + d.d]
  /\ comped' = comped \cup {d.n}
  /\ deltas' = Tail(deltas)
  /\ UNCHANGED <<streamVars, incidents, linkVars, watch, cands, lastAccept, trans, grace,
                 waiting, pc, mon, upto, spc, hmd, seen, run, missed>>

\* ApplyCalibrationDelta refuses a delta beyond its limits, and moves nothing.
RefuseDelta ==
  /\ pc = "push" /\ mon = upto /\ deltas # <<>> /\ ~Running /\ Incident
  /\ deltas' = Tail(deltas)
  /\ UNCHANGED <<streamVars, linkVars, watch, cands, lastAccept,
                 verdictVars, pc, mon, upto, spc, hmd, seen, run, profile, room, missed>>

MonitorDone ==
  /\ pc = "push" /\ mon = upto /\ (deltas = <<>> \/ Running)
  /\ pc' = "drain" /\ upto' = 0
  /\ IF Running THEN ResetJumps ELSE UNCHANGED jumpVars
  /\ run' = [run EXCEPT !.ticked = Running]
  /\ UNCHANGED <<streamVars, incidents, linkVars, verdictVars, mon, spc, hmd, seen,
                 profile, room, missed>>

-----------------------------------------------------------------------------
(* CalibrationSpaceTick.                                                    *)

NoVerdict == trans' = <<>> /\ comped' = {} /\ grace' = [at |-> "off", from |-> 0]
             /\ waiting' = FALSE

Broken(h) == IF h.state = "empty" THEN h ELSE [h EXCEPT !.state = "endpoint"]

SpaceClosed ==
  /\ pc = "drain" /\ ~open
  /\ hmd' = [state |-> "empty", n |-> 0] /\ NoVerdict
  /\ room' = [room EXCEPT !.ver = FALSE]
  /\ seen' = <<>> /\ pc' = "judge"
  /\ UNCHANGED <<streamVars, incidents, linkVars, jumpVars, mon, upto, spc, run, profile, missed>>

\* CacheHmdWorldFromDriver for sample n.
CacheHmd(acc, n) ==
  LET s == stream[n]
      p == stream[acc.hmd.n]
      near == acc.hmd.state = "usable" /\ s.kind = "good"
      t == [n |-> n, from |-> p.w, to |-> s.w,
            local |-> near /\ s.u - s.w = p.u - p.w, composed |-> near /\ s.u = p.u]
      now == [acc EXCEPT !.hmd = [state |-> "usable", n |-> n]]
  IN IF s.kind = "bad" THEN [acc EXCEPT !.hmd = Broken(@), !.ver = FALSE]
     ELSE IF acc.hmd.state = "empty" \/ s.w = p.w THEN now
     ELSE [now EXCEPT !.seen = Append(@, t), !.ver = @ /\ t.local]

\* The batch in hand; a loss in front of it breaks continuity first.
Cached ==
  LET upto_ == BatchEnd(spc)
      lost == spc < Len(stream) /\ stream[spc + 1].kind \in Lossy
  IN Along(CacheHmd, [hmd |-> IF lost THEN Broken(hmd) ELSE hmd,
                         ver |-> room.ver /\ ~lost, seen |-> <<>>],
              [i \in 1..(upto_ - spc) |-> spc + i])

SpaceDrain ==
  /\ pc = "drain" /\ open
  /\ spc' = BatchEnd(spc) /\ pc' = "judge"
  /\ hmd' = Cached.hmd /\ seen' = Cached.seen /\ trans' = trans \o Cached.seen
  /\ room' = [room EXCEPT !.ver = Cached.ver /\ Cached.hmd.state = "usable"]
  /\ UNCHANGED <<streamVars, incidents, linkVars, jumpVars, comped, grace, waiting, mon, upto,
                 run, profile, missed>>

-----------------------------------------------------------------------------
(* The protected room, at the end of CalibrationSpaceTick.                  *)

ReanchorBlindly(acc, t) ==
  IF t.from # acc.w THEN acc
  ELSE IF t.composed THEN [acc EXCEPT !.w = t.to]
  ELSE [acc EXCEPT !.w = t.to, !.at = @ + t.to - t.from]

\* Without a profile the room follows the transitions itself.
Reanchor(acc, t) ==
  IF acc.lost \/ t.from # acc.w THEN acc
  ELSE IF t.composed THEN [acc EXCEPT !.w = t.to]
  ELSE IF t.local THEN [acc EXCEPT !.w = t.to, !.at = @ + t.to - t.from]
  ELSE [acc EXCEPT !.lost = TRUE]

Disarmed == [room EXCEPT !.valid = FALSE, !.auto = FALSE, !.ver = FALSE]

Pending == waiting \/ grace.at # "off"

\* What becomes of the room r, once the verdict of this tick is known.
RoomAfter(r) ==
  LET followed == Along(Reanchor, [w |-> r.w, at |-> r.at, lost |-> FALSE], seen) IN
  IF ~r.valid \/ ~Fresh THEN {r}
  ELSE IF r.w = Observed THEN {[r EXCEPT !.ver = TRUE]}
  ELSE IF profile.has THEN {[r EXCEPT !.ver = FALSE, !.auto = @ /\ Pending']}
  ELSE IF followed.lost \/ followed.w # Observed THEN {Disarmed}
  ELSE {[r EXCEPT !.w = followed.w, !.at = followed.at, !.ver = saved, !.auto = @ /\ saved] :
          saved \in BOOLEAN}

RoomTick(r) ==
  /\ room' \in RoomAfter(r)
  /\ pc' = "idle" /\ seen' = <<>>
  /\ UNCHANGED <<streamVars, incidents, linkVars, jumpVars, mon, upto, spc, hmd, run, missed>>

-----------------------------------------------------------------------------
(* ProfileUniverseTick and UniverseVerdict::Evaluate.                       *)

LiveOnceRaised(n) == stream[n].kind = "good"

\* HasLiveHeadsetCandidate.
LiveAt(n) == \E c \in cands : c.n = n

FollowSteadyOnly(acc, t) ==
  IF acc.stopped \/ t.from # acc.ref THEN [acc EXCEPT !.kept = Append(@, t)]
  ELSE IF t.composed THEN [acc EXCEPT !.ref = t.to]
  ELSE [acc EXCEPT !.stopped = TRUE, !.wait = LiveAt(t.n), !.kept = Append(@, t)]

\* Evaluate's walk: transitions out of the reference are followed in order up to
\* the first that nothing explains.
Follow(acc, t) ==
  IF acc.stopped \/ t.from # acc.ref THEN [acc EXCEPT !.kept = Append(@, t)]
  ELSE IF t.composed \/ t.n \in comped THEN [acc EXCEPT !.ref = t.to]
  ELSE [acc EXCEPT !.stopped = TRUE, !.wait = LiveAt(t.n), !.kept = Append(@, t)]

Walk(ref, ts) ==
  Along(Follow, [ref |-> ref, stopped |-> FALSE, wait |-> FALSE, kept |-> <<>>], ts)

\* Nothing to judge: a run, no profile or an unsafe one, or the WFD matches.
JudgeClear ==
  /\ pc = "judge"
  /\ (Running \/ ~Enabled) \/ (Fresh /\ profile.bound /\ profile.w = Observed)
  /\ NoVerdict /\ UNCHANGED profile /\ RoomTick(room)

JudgeStale ==
  /\ pc = "judge" /\ ~Running /\ Enabled /\ ~Fresh
  /\ UNCHANGED <<verdictVars, profile>> /\ RoomTick(room)

\* A profile with no universe of its own takes the room's, and is judged by it;
\* else the headset's.
JudgeBind ==
  /\ pc = "judge" /\ ~Running /\ Enabled /\ Fresh /\ ~profile.bound
  /\ profile' = [profile EXCEPT !.bound = TRUE, !.w = IF room.valid THEN room.w ELSE Observed,
                                !.from = IF ~room.valid THEN "own"
                                         ELSE IF room.leapt THEN "leapt" ELSE "room"]
  /\ NoVerdict
  /\ IF ~room.valid THEN RoomTick(room)
     ELSE UNCHANGED <<streamVars, incidents, linkVars, jumpVars, pc, mon, upto, spc, hmd, seen,
                      run, room, missed>>

Judge ==
  LET walk == Walk(profile.w, trans)
      matched == walk.ref = Observed
      adopted == walk.ref # profile.w
      timed == grace.at # "off" /\ grace.from = walk.ref
      expired == ~matched /\ ~walk.wait /\ timed /\ grace.at = "over"
      carried == IF adopted /\ room.valid
                 THEN [room EXCEPT !.w = walk.ref, !.ver = TRUE] ELSE room
  IN
  /\ pc = "judge" /\ ~Running /\ Enabled /\ Fresh /\ profile.bound /\ profile.w # Observed
  /\ profile' = [profile EXCEPT !.w = walk.ref, !.unsafe = expired]
  /\ IF matched \/ expired THEN NoVerdict
     ELSE /\ trans' = walk.kept /\ waiting' = walk.wait /\ UNCHANGED comped
          /\ grace' = IF walk.wait THEN [at |-> "off", from |-> 0]
                      ELSE IF timed THEN grace ELSE [at |-> "running", from |-> walk.ref]
  /\ RoomTick(IF matched THEN carried
              ELSE IF expired THEN [carried EXCEPT !.auto = FALSE, !.ver = FALSE]
              ELSE [carried EXCEPT !.ver = FALSE])

\* What ApplyChaperoneBounds, the 1 Hz check and the button, let SteamVR have.
RestoreAllowed == room.valid /\ BaselineCurrent

-----------------------------------------------------------------------------
(* The user, between two ticks.                                             *)

Settled == ~Pending /\ cands = {} /\ profile.w = Observed /\ mon = spc

\* LoadChaperoneBounds: SteamVR's walls as they stand around the headset.
Capture ==
  /\ pc = "idle" /\ Incident
  /\ ~profile.unsafe /\ Fresh /\ (Hasty \/ ~profile.has \/ Settled)
  /\ \E saved \in BOOLEAN :
       room' = [valid |-> TRUE, auto |-> saved, ver |-> saved, w |-> Observed,
                at |-> stream[hmd.n].u, leapt |-> FALSE]
  /\ UNCHANGED <<streamVars, linkVars, jumpVars, verdictVars, pc,
                 mon, upto, spc, hmd, seen, run, profile, missed>>

\* A capture that is refused, or could not switch the old room off first.
CaptureFails ==
  /\ pc = "idle" /\ Incident /\ room.valid
  /\ room' = [room EXCEPT !.auto = FALSE, !.ver = FALSE]
  /\ UNCHANGED <<streamVars, linkVars, jumpVars, verdictVars, pc,
                 mon, upto, spc, hmd, seen, run, profile, missed>>

StartRun ==
  /\ pc = "idle" /\ ~Running /\ Incident /\ open
  /\ stream # <<>> /\ stream[Len(stream)].kind = "good"
  /\ run' = [at |-> Len(stream), ticked |-> FALSE]
  /\ UNCHANGED <<streamVars, linkVars, jumpVars, verdictVars,
                 pc, mon, upto, spc, hmd, seen, profile, room, missed>>

\* The measurement saw one WFD throughout and no boundary; RebindCalibrationUniverse.
FinishRun ==
  /\ pc = "idle" /\ Running /\ ~crossing /\ run.ticked /\ spc >= run.at /\ mon >= run.at
  /\ \A i \in run.at..Len(stream) :
       stream[i].kind = "bad" \/ (stream[i].w = stream[run.at].w /\ stream[i].kind # "session")
  /\ Hasty \/ Fresh
  /\ run' = [at |-> 0, ticked |-> FALSE]
  /\ profile' = [has |-> TRUE, bound |-> Fresh, w |-> IF Fresh THEN Observed ELSE 0,
                 cal |-> stream[run.at].u, unsafe |-> FALSE, from |-> "own"]
  /\ room' = IF room.valid /\ (profile.unsafe \/ ~BaselineCurrent) THEN Disarmed ELSE room
  /\ UNCHANGED <<streamVars, incidents, linkVars, jumpVars, verdictVars, pc, mon, upto, spc,
                 hmd, seen, missed>>

EndRun ==
  /\ pc = "idle" /\ Running /\ run' = [at |-> 0, ticked |-> FALSE]
  /\ UNCHANGED <<streamVars, incidents, linkVars, jumpVars, verdictVars, pc, mon, upto, spc,
                 hmd, seen, profile, room, missed>>

-----------------------------------------------------------------------------
Monitors == Park \/ MonitorDrain \/ PushSample \/ ApplyDelta \/ MonitorDone
Space == SpaceClosed \/ SpaceDrain
         \/ JudgeClear \/ JudgeStale \/ JudgeBind \/ Judge
Tick == Monitors \/ Space
Detector == Ripen \/ DropCandidate \/ Confirm \/ RefuseDelta
Headset == Still \/ Change \/ SessionBoundary \/ Reopen
User == Capture \/ CaptureFails \/ StartRun \/ FinishRun \/ EndRun

Next == Tick \/ Detector \/ Headset \/ User \/ Recovered \/ GraceOver

Spec == Init /\ [][Next]_vars

\* The main loop never blocks, so a tick's steps keep coming; the grace period ends
\* on the clock, whenever a tick looks.
FairSpec == Spec /\ WF_vars(Tick) /\ SF_vars(GraceOver)

-----------------------------------------------------------------------------
\* A profile that is in force in the WFD the headset has carries a calibration
\* moved by exactly what the raw universe moved: compensations that come before
\* the transition is noted, after it, after a held candidate or after the grace
\* period began neither lose a move nor apply one twice (RuntimeMonitorTick,
\* ApplyUniverseDelta, UniverseVerdict::Evaluate).  Not of a profile that had no WFD
\* and took that of a room that leapt (see RoomFollows).
CalibrationFollows ==
  (/\ pc = "idle" /\ ~Running /\ Enabled /\ profile.bound /\ profile.from # "leapt"
   /\ mon = Len(stream) /\ profile.w = Latest.w)
    => profile.cal = Latest.u

\* A restore the app may make, by itself or by the button, puts the walls where
\* they stand in the raw universe (ChaperoneBaselineIsCurrent).
RoomInPlace ==
  (pc = "idle" /\ RestoreAllowed /\ hmd.n = Len(stream)) => room.at = Latest.u

\* That holds unless ApplyUniverseDelta gave the room the endpoint of a re-base
\* that began at another WFD than the room's.
RoomFollows == room.leapt \/ RoomInPlace

\* What neither the detector nor the verdict can see happen, at sample i: a loss or a
\* bad sample, or a change of WFD that continues neither pose.
Unfollowable(i) ==
  LET s == stream[i]
      p == Pose(i - 1)
  IN s.kind # "good"
     \/ (s.w # p.w /\ (i = 1 \/ (s.u # p.u /\ s.u - s.w # p.u - p.w)))

\* A headset whose every change could be followed never has its calibration
\* latched off, in whatever order the two consumers meet the changes and however
\* closely these follow one another (UniverseVerdict::Evaluate).  Not of a profile that
\* took a room's WFD, which forgets the transitions noted before (ProfileUniverseTick).
FollowedNotLatched ==
  (profile.unsafe /\ profile.from = "own" /\ incidents = 0 /\ ~missed) => \E i \in DOMAIN stream : Unfollowable(i)

\* While no candidate is held, a calibration is not left in force in a universe the
\* headset is seen to have left: the change is followed or the profile latched.
MismatchSettles ==
  []<>~(Fresh /\ Enabled /\ ~Running /\ profile.bound /\ profile.w # Observed /\ cands = {})
=============================================================================
