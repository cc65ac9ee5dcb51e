---------------------------- MODULE TrackerFrames ---------------------------
(***************************************************************************)
(* The lighthouse side's frames: what LighthouseFrameWatch makes of a      *)
(* tracker's samples, and what TrackerFrameCorrections does about it.      *)
(* Operators only; CalibrationRun gives them a state.                      *)
(*                                                                         *)
(* A rigid transform is x |-> r*x + t with r in {1, -1} and t an integer:  *)
(* enough for rotations and translations that do not commute.  A sample's  *)
(* world-from-driver is the station the driver reports the device in and   *)
(* the displacement `err' of where SteamVR holds that station from where   *)
(* it stands: re-solving the station composes err with a transform, and a  *)
(* device's raw world pose is err of where it is.                          *)
(***************************************************************************)
EXTENDS Integers, Sequences, SequencesExt

CONSTANTS
  Trackers,    \* the calibrated target-side devices
  Stations,    \* the base stations
  Scale        \* the calibration's scale

ASSUME ScaleAssumption == Scale \in Nat \ {0}
ASSUME DevicesAssumption == Trackers \cap Stations = {} /\ IsFiniteSet(Trackers)

\* A loop over s, from start.
Along(step(_, _), start, s) ==
  LET after[k \in 0..Len(s)] == IF k = 0 THEN start ELSE step(after[k - 1], s[k])
  IN after[Len(s)]

-----------------------------------------------------------------------------
(* Transforms, each written as the code writes it.                          *)

Identity == [r |-> 1, t |-> 0]
Compose(f, g) == [r |-> f.r * g.r, t |-> f.r * g.t + f.t]

\* F with new = F o old
Between(old, new) ==
  LET r == new.r * old.r
  IN [r |-> r, t |-> new.t - r * old.t]

\* the inverse composed on the other side
UndoFirst(n, f) == [r |-> f.r * n.r, t |-> f.r * (n.t - f.t)]

\* N' with N' o F = N
Undo(n, f) ==
  LET r == n.r * f.r
  IN [r |-> r, t |-> n.t - r * f.t]

\* toStart o F^-1
BackToStart(toStart, f) ==
  [r |-> toStart.r * f.r, t |-> toStart.t - toStart.r * (f.r * f.t)]

\* A calibration is C(x) = r * (Scale * x) + t; C' with C' o N = C.
ExpressCalibration(c, n) ==
  LET r == c.r * n.r
  IN [r |-> r, t |-> c.t - Scale * (r * n.t)]

\* C o F
CarryCalibration(c, f) == [r |-> c.r * f.r, t |-> c.t + Scale * (c.r * f.t)]

(* What the engine measures from target samples that all lie in `frame'.    *)
Solve(frame) == [r |-> frame.r, t |-> -(Scale * (frame.r * frame.t))]

(* The calibration, after a device's correction, undoes its frame.          *)
ReadsRight(c, n, err) ==
  LET f == Compose(n, err)
  IN c.r * f.r = 1 /\ c.t + Scale * (c.r * f.t) = 0

-----------------------------------------------------------------------------
(* LighthouseFrameWatch: `dev' is each device's last frame, `known' the     *)
(* moves devices reported, `waiting' the change of a tracker that cannot    *)
(* vouch for it, `moves' and `switches' what one drain hands out.           *)
(* `dropped' is history: trackers whose waiting change a newer one ousted.  *)

Nothing == [time |-> 0]
Unseen == [at |-> "unseen"]

Hand(w, d, time, setup, f) ==
  [w EXCEPT !.moves = Append(@, [dev |-> d, time |-> time, setup |-> setup, f |-> f])]

Switched(w, d, time, cause) ==
  [w EXCEPT !.switches = Append(@, [dev |-> d, time |-> time, cause |-> cause])]

\* The moves reported since the device's last sample, followed from its old
\* frame, end on its new one.
Leads(known, change) ==
  FoldLeft(LAMBDA frame, k : IF k.from = frame THEN k.to ELSE frame,
           change.from, SubSeq(known, change.since + 1, Len(known))) = change.to

Resolve(w, d) ==
  LET change == w.waiting[d]
  IN [Hand(w, d, change.time, change.setup, Between(change.from.err, change.to.err))
        EXCEPT !.waiting[d] = Nothing]

\* Every device in a frame reports its move: only the first is kept.
AddTransition(w, from, to) ==
  IF \E i \in DOMAIN w.known : w.known[i] = [from |-> from, to |-> to] THEN w
  ELSE LET next == [w EXCEPT !.known = Append(@, [from |-> from, to |-> to])]
           led == {d \in Trackers : next.waiting[d] # Nothing /\ Leads(next.known, next.waiting[d])}
       IN Along(Resolve, next, SetToSeq(led))

\* A newer change of the same device supersedes one still waiting.
Infer(w, s, was, returned) ==
  LET change == [time |-> s.time, setup |-> s.setup, since |-> was.mark,
                 from |-> was.frame, to |-> s.frame, returned |-> returned]
      next == [w EXCEPT !.waiting[s.dev] = change,
                        !.dropped = IF w.waiting[s.dev] = Nothing THEN @ ELSE @ \cup {s.dev}]
  IN IF Leads(next.known, change) THEN Resolve(next, s.dev) ELSE next

\* What a device is taken for whose frame changed between two samples: its
\* raw pose went on where it was, its pose in the station's frame did, or
\* neither.  One last seen "apart" is too far from this sample for either.
Kind(was, s) ==
  IF was.at = "apart" THEN "unclear"
  ELSE IF s.smooth /\ was.frame.err = s.frame.err THEN "re-expressed"
  ELSE IF s.smooth /\ was.frame.station = s.frame.station THEN "moved"
  ELSE "unclear"

Changed(w, s, was) ==
  IF s.dev \in Stations
    THEN AddTransition(w, was.frame, s.frame)
  ELSE IF was.at = "away" \/ Kind(was, s) = "unclear"
    THEN Infer(w, s, was, was.at = "away")
  ELSE IF Kind(was, s) = "moved"
    THEN AddTransition(Hand(w, s.dev, s.time, s.setup, Between(was.frame.err, s.frame.err)),
                       was.frame, s.frame)
  ELSE Switched(w, s.dev, s.time, "re-expressed")

Note(w, s) ==
  LET was == w.dev[s.dev]
      gone == [w EXCEPT !.dev[s.dev] = IF was = Unseen THEN Unseen ELSE [was EXCEPT !.at = "away"]]
      next ==
        IF was = Unseen
          THEN IF s.dev \in Trackers THEN Switched(w, s.dev, s.time, "appeared") ELSE w
        ELSE IF was.frame = s.frame THEN w
        ELSE Changed(w, s, was)
      here == [at |-> "here", frame |-> s.frame, mark |-> Len(w.known)]
  IN IF s.tracks THEN [next EXCEPT !.dev[s.dev] = here] ELSE gone

\* No move led to the new frame within inferSeconds: the device switched.
Expire(w, d) ==
  LET change == w.waiting[d]
  IN [Switched(w, d, change.time, IF change.returned THEN "returned" ELSE "own jump")
        EXCEPT !.waiting[d] = Nothing]

LastFrameIs(w, d, frame) == w.dev[d] # Unseen /\ w.dev[d].frame = frame
Settled(w, d) == w.dev[d] # Unseen /\ w.waiting[d] = Nothing

-----------------------------------------------------------------------------
(* TrackerFrameCorrections: `frames' is each tracker's N, `usableAfter' the *)
(* time before which a sample is of a frame N no longer corrects.           *)
(* `lost' is history: the trackers whose frame the code could not follow.   *)

Lose(c, d) == [c EXCEPT !.lost = @ \cup {d}]

\* A move older than one already followed is refused.  One followed past a
\* change still waiting leaves that one to be refused when it is read.
Follow(c, w, move) ==
  IF move.time < c.usableAfter[move.dev] THEN Lose(c, move.dev)
  ELSE LET next == [c EXCEPT !.frames[move.dev] = Undo(@, move.f),
                             !.usableAfter[move.dev] = move.time]
       IN IF w.waiting[move.dev] # Nothing /\ w.waiting[move.dev].time < move.time
          THEN Lose(next, move.dev) ELSE next

\* A move SteamVR makes while it sets up its universe is left alone.
Compensate(c, w, move) == IF move.setup THEN Lose(c, move.dev) ELSE Follow(c, w, move)

\* Moves are followed in the order of their times, not in that of the proofs.
Insert(sorted, move) ==
  LET later == {i \in DOMAIN sorted : move.time < sorted[i].time}
  IN InsertAt(sorted, IF later = {} THEN Len(sorted) + 1 ELSE Min(later), move)

CompensateTrackerFrameMoves(c, w) ==
  LET CompensateNext(acc, move) == Compensate(acc, w, move)
  IN Along(CompensateNext, c, Along(Insert, <<>>, w.moves))

\* `to' takes the correction of `from', and stands as well as that does,
\* unless it is one of those to `keep' theirs.
Take(c, keep, to, from) ==
  IF to \in keep \/ c.frames[to] = c.frames[from] THEN c
  ELSE [c EXCEPT !.frames[to] = c.frames[from],
                 !.lost = IF from \in @ THEN @ \cup {to} ELSE @ \ {to}]

\* A device that came into a frame with no move to follow takes the headset
\* tracker's correction, or that of the devices there when they agree; the
\* headset tracker gives its own instead.
Join(c, w, headset, keep, switch) ==
  LET d == switch.dev
      mates == {e \in Trackers \ {d} : Settled(w, e) /\ LastFrameIs(w, e, w.dev[d].frame)}
      from == IF headset \in mates THEN headset ELSE CHOOSE e \in mates : TRUE
      agree == headset \in mates \/ \A e \in mates : c.frames[e] = c.frames[from]
      taken == Take(c, keep, d, from)
      Give(acc, mate) == Take(acc, keep, mate, d)
  IN IF ~Settled(w, d) \/ mates = {} THEN c
     ELSE IF d = headset
       THEN Along(Give, c, SetToSeq(mates))
     ELSE IF ~agree \/ taken = c THEN c
     ELSE [taken EXCEPT !.usableAfter[d] = IF @ < switch.time THEN switch.time ELSE @]

JoinTrackerFrames(c, w, headset, keep) ==
  LET unvouched == {w.switches[i].dev : i \in {i \in DOMAIN w.switches : w.switches[i].cause # "re-expressed"}}
      JoinNext(acc, switch) == Join(acc, w, headset, keep, switch)
  IN Along(JoinNext, [c EXCEPT !.lost = @ \cup unvouched \cup w.dropped], w.switches)

=============================================================================
