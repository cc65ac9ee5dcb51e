--------------------------- MODULE UniverseProof ---------------------------
(***************************************************************************)
(* What a re-center leaves behind, for any number of worlds, samples and   *)
(* incidents: the calibration in force and the room that may be restored   *)
(* stand where the raw universe stands.                                    *)
(*                                                                         *)
(* The invariant keeps an account for each of the two: a function g that   *)
(* says where it would stand had only the compensations up to a sample     *)
(* been applied.  g follows the universe at every sample that has the WFD  *)
(* the calibration (or the room) was told of last, and every change of the *)
(* stream since is composed already, still waits in the verdict or lies in *)
(* front of the consumer that will meet it.  The sections: loops over      *)
(* sequences, the stream and its accounts, the space's drain, the          *)
(* monitors' drain and the verdict, and one lemma for each action; then    *)
(* the same for a headset that nothing disturbs, whose calibration is      *)
(* never latched off.                                                      *)
(***************************************************************************)
EXTENDS Universe, WellFoundedInduction, TLAPS

-----------------------------------------------------------------------------
(* Loops over sequences, step by step.                                     *)

\* A nonempty set of naturals has a least element.
LEMMA LeastOf ==
  ASSUME NEW T \in SUBSET Nat, T # {}
  PROVE  \E x \in T : \A y \in T : x <= y
<1> DEFINE R == OpToRel(<, Nat)
<1>1. IsWellFoundedOn(R, Nat)  BY NatLessThanWellFounded
<1>2. \A a \in Nat, b \in Nat : a < b => <<a, b>> \in R  BY DEF OpToRel
<1> HIDE DEF R
<1>3. PICK x \in T : \A y \in T : ~(<<y, x>> \in R)  BY <1>1, WFMin
<1>4. T \subseteq Nat  OBVIOUS
<1>5. ASSUME NEW y \in T PROVE x <= y
  <2>1. y \in Nat /\ x \in Nat  BY <1>4
  <2>2. ~(y < x)  BY <1>2, <1>3, <2>1
  <2> QED  BY <2>1, <2>2
<1> QED  BY <1>5

\* What holds at the start and after every step holds all along.
LEMMA AllAlong ==
  ASSUME NEW n \in Nat, NEW Good, 0 \in Good,
         \A k \in 1 .. n : k - 1 \in Good => k \in Good
  PROVE  \A k \in 0 .. n : k \in Good
<1> DEFINE Bad == {k \in 0 .. n : k \notin Good}
<1>1. ASSUME Bad # {} PROVE FALSE
  <2>1. Bad \in SUBSET Nat  OBVIOUS
  <2>2. PICK x \in Bad : \A y \in Bad : x <= y  BY <1>1, <2>1, LeastOf
  <2>3. x \in 1 .. n /\ x \notin Good  BY <2>2
  <2>4. x - 1 \in 0 .. n /\ ~(x <= x - 1)  BY <2>3
  <2>5. x - 1 \in Good  BY <2>2, <2>4
  <2> QED  BY <2>3, <2>5
<1> QED  BY <1>1

\* What a loop of n steps accumulates, from a on.
Accumulates(t, S, n, a, f) ==
  /\ t \in [0 .. n -> S]
  /\ t[0] = a
  /\ \A k \in 1 .. n : t[k] = f[<<t[k - 1], k>>]

\* A loop over n steps has an outcome.
LEMMA LoopExists ==
  ASSUME NEW S, NEW n \in Nat, NEW a \in S, NEW f \in [S \X (1 .. n) -> S]
  PROVE  \E t : Accumulates(t, S, n, a, f)
<1> DEFINE Runs(m, t) == t[0] = a /\ \A k \in 1 .. m : t[k] = f[<<t[k - 1], k>>]
           Good == {m \in 0 .. n : \E t \in [0 .. m -> S] : Runs(m, t)}
<1>1. 0 \in Good
  <2> DEFINE first == [k \in 0 .. 0 |-> a]
  <2>1. first \in [0 .. 0 -> S] /\ first[0] = a /\ \A k \in 1 .. 0 : FALSE  OBVIOUS
  <2>2. \E t \in [0 .. 0 -> S] : Runs(0, t)  BY <2>1
  <2> QED  BY <2>2
<1>2. ASSUME NEW m \in 1 .. n, m - 1 \in Good PROVE m \in Good
  <2>1. PICK t \in [0 .. m - 1 -> S] : Runs(m - 1, t)  BY <1>2
  <2> DEFINE next == [k \in 0 .. m |-> IF k = m THEN f[<<t[m - 1], m>>] ELSE t[k]]
  <2>2. t[m - 1] \in S /\ f[<<t[m - 1], m>>] \in S
    <3>1. t[m - 1] \in S  OBVIOUS
    <3>2. <<t[m - 1], m>> \in S \X (1 .. n)  BY <3>1
    <3> QED  BY <3>1, <3>2
  <2>3. next \in [0 .. m -> S]
    <3> SUFFICES ASSUME NEW k \in 0 .. m PROVE next[k] \in S  OBVIOUS
    <3>1. CASE k = m  BY <2>2, <3>1
    <3>2. CASE k # m  BY <3>2
    <3> QED  BY <3>1, <3>2
  <2>4. Runs(m, next)
    <3>1. next[0] = a  BY <2>1
    <3>2. ASSUME NEW k \in 1 .. m PROVE next[k] = f[<<next[k - 1], k>>]
      <4>1. next[k - 1] = t[k - 1]  OBVIOUS
      <4>2. CASE k = m
        <5>1. next[k] = f[<<t[m - 1], m>>]  BY <4>2
        <5>2. next[k - 1] = t[m - 1]  BY <4>1, <4>2
        <5> QED  BY <4>2, <5>1, <5>2
      <4>3. CASE k # m
        <5>1. k \in 1 .. m - 1 /\ next[k] = t[k]  BY <4>3
        <5> QED  BY <2>1, <4>1, <5>1
      <4> QED  BY <4>2, <4>3
    <3> QED  BY <3>1, <3>2
  <2> HIDE DEF next
  <2> QED  BY <2>3, <2>4
<1> HIDE DEF Good
<1>3. n \in Good  BY <1>1, <1>2, AllAlong
<1> USE DEF Good
<1> QED  BY <1>3 DEF Accumulates

-----------------------------------------------------------------------------
(* Types.                                                                  *)

Samples == [w : Int, u : Int, kind : Kinds \cup {"session"}]
Deltas == [n : Nat, exact : BOOLEAN, prev : Int, d : Int]
Candidates == [n : Nat, from : Nat, ready : BOOLEAN]
Transitions == [n : Nat, from : Int, to : Int, local : BOOLEAN, composed : BOOLEAN]
Endpoints == [state : {"empty", "usable", "endpoint"}, n : Nat]

Profiles == [has : BOOLEAN, bound : BOOLEAN, w : Int, cal : Int, unsafe : BOOLEAN,
             from : {"own", "room", "leapt"}]
Rooms == [valid : BOOLEAN, auto : BOOLEAN, ver : BOOLEAN, w : Int, at : Int, leapt : BOOLEAN]

Placed(h) == h.state = "empty" \/ h.n \in 1 .. Len(stream)

StreamTypes ==
  /\ stream \in Seq(Samples) /\ open \in BOOLEAN /\ crossing \in BOOLEAN
  /\ incidents \in Nat /\ newSession \in BOOLEAN /\ recovering \in BOOLEAN
  /\ active \in BOOLEAN /\ pc \in {"idle", "push", "drain", "judge"}
  /\ mon \in 0 .. Len(stream) /\ upto \in 0 .. Len(stream) /\ spc \in 0 .. Len(stream)

JumpTypes ==
  /\ watch \in [first : Nat, last : Nat] /\ cands \subseteq Candidates
  /\ lastAccept \in Nat /\ deltas \in Seq(Deltas)

VerdictTypes ==
  /\ hmd \in Endpoints /\ Placed(hmd)
  /\ trans \in Seq(Transitions) /\ seen \in Seq(Transitions) /\ comped \subseteq Nat
  /\ grace \in [at : {"off", "running", "over"}, from : Int] /\ waiting \in BOOLEAN

ProfileTypes ==
  /\ run \in [at : 0 .. Len(stream), ticked : BOOLEAN] /\ missed \in BOOLEAN
  /\ profile \in Profiles /\ room \in Rooms

TypeOK == StreamTypes /\ JumpTypes /\ VerdictTypes /\ ProfileTypes

-----------------------------------------------------------------------------
(* Where the raw universe lies along the stream.                           *)

W(i) == Pose(i).w
U(i) == Pose(i).u

\* Worlds are visited in order, and the universe lies still in each.
StreamInv ==
  \A i, j \in 0 .. Len(stream) : i <= j => /\ W(i) <= W(j)
                                           /\ W(i) = W(j) => U(i) = U(j)

\* A change of WFD that the detector may take for a step.
StepAt(n) ==
  /\ n \in 2 .. Len(stream) /\ stream[n].kind = "good" /\ stream[n - 1].kind # "bad"
  /\ W(n) # W(n - 1)

\* The next sample after position p is, or will be, of another session.
Gapped(p) == IF p = Len(stream) THEN crossing ELSE stream[p + 1].kind = "session"

-----------------------------------------------------------------------------
(* The jump detector.                                                      *)

\* What the detector holds is of an active monitor, and its history ends where
\* the monitor stands.
WatchInv ==
  /\ ~active => watch = Nowhere /\ cands = {} /\ deltas = <<>> /\ lastAccept = 0
  /\ ~profile.has => ~active
  /\ pc = "push" => ~newSession /\ active /\ mon <= upto
  /\ pc # "push" => deltas = <<>>
  /\ watch.last # 0 =>
       /\ watch.first \in 1 .. watch.last /\ watch.last <= mon
       /\ stream[watch.last].kind # "bad"
       /\ watch.last = mon \/ newSession \/ (Running /\ pc = "push")

\* An accepted delta is the whole of one step.
DeltaOK(d) ==
  /\ StepAt(d.n) /\ d.n <= mon /\ d.n <= lastAccept
  /\ d.d = U(d.n) - U(d.n - 1) /\ U(d.n) # U(d.n - 1) /\ d.prev = W(d.n - 1)

\* A candidate is a step, and its window starts before it.
CandOK(c) == StepAt(c.n) /\ c.n <= mon /\ c.from \in 1 .. c.n - 1 /\ U(c.n) # U(c.n - 1)

\* Deltas are accepted in the order of their steps.
StepsInv ==
  /\ lastAccept <= mon
  /\ \A d \in Deltas : (\E k \in 1 .. Len(deltas) : deltas[k] = d) => DeltaOK(d)
  /\ \A k, l \in 1 .. Len(deltas) : k < l => deltas[k].n < deltas[l].n
  /\ \A c \in cands : CandOK(c)

\* A run starts on a sample that tracks, and the tick puts the detector and the
\* verdict away.
RunInv ==
  /\ Running => stream[run.at].kind = "good"
  /\ (Running /\ run.ticked /\ pc # "push") =>
       /\ watch = Nowhere /\ cands = {} /\ deltas = <<>>
       /\ pc = "idle" => comped = {}

JumpInv == WatchInv /\ StepsInv /\ RunInv

-----------------------------------------------------------------------------
(* CalibrationSpace.                                                       *)

\* A transition noted up to sample p: one the verdict may follow is a single
\* change of WFD.
Noted(t, p) ==
  /\ t.n \in 1 .. p /\ t.to = W(t.n)
  /\ (t.composed \/ t.local \/ StepAt(t.n)) =>
       t.n >= 2 /\ t.from = W(t.n - 1) /\ W(t.n) # W(t.n - 1)
  /\ t.composed => U(t.n) = U(t.n - 1)
  /\ t.local => U(t.n) - U(t.n - 1) = t.to - t.from

\* The endpoint of the headset's stream when it was read up to p.
HmdAt(h, p) ==
  /\ h.state # "empty" => h.n \in 1 .. p
  /\ h.state = "usable" => stream[h.n].kind # "bad" /\ (h.n = p \/ Gapped(p))
  /\ h.state = "endpoint" => h.n = p \/ stream[p].kind = "bad" \/ Gapped(p)

SpaceInv ==
  /\ HmdAt(hmd, spc)
  /\ \A t \in Transitions : (\E k \in 1 .. Len(trans) : trans[k] = t) => Noted(t, spc)
  /\ \A t \in Transitions : (\E k \in 1 .. Len(seen) : seen[k] = t) => Noted(t, spc)

-----------------------------------------------------------------------------
(* What the calibration and the room account for.                          *)

\* A step that may still be compensated.
Future(n) ==
  \/ n > mon /\ U(n) # U(n - 1)
  \/ \E k \in 1 .. Len(deltas) : deltas[k].n = n
  \/ \E c \in cands : c.n = n /\ c.from > lastAccept

\* The WFD the profile is of, or will be bound to.
Ref == IF profile.bound THEN profile.w ELSE room.w

Visited(w) == \E i \in 0 .. Len(stream) : W(i) = w

\* A step still to be compensated starts in the profile's world or later, and
\* no later step was compensated before it.
FutureInv ==
  /\ \A m \in comped : StepAt(m) /\ m <= mon
  /\ profile.has =>
       /\ Visited(Ref)
       /\ \A n \in 1 .. Len(stream) : Future(n) => W(n - 1) >= Ref /\ \A m \in comped : m < n

\* A profile without a WFD still has the room it was loaded with, and a room
\* that did not leap is of the profile's WFD.
BindInv ==
  /\ ~profile.has => comped = {} /\ ~profile.unsafe
  /\ profile.has /\ ~profile.bound => room.valid /\ profile.w = 0 /\ ~profile.unsafe
  /\ profile.has /\ profile.bound /\ room.valid /\ ~room.leapt => room.w = profile.w

\* A compensation the verdict has not used yet is of a profile that waits for it.
ClearInv ==
  /\ (pc = "idle" /\ hmd.state = "usable" /\ comped # {}) =>
       Enabled /\ profile.bound /\ profile.w # Observed
  /\ (pc = "judge" /\ hmd.state = "usable") => open

\* g says, for each sample, where a calibration (or a room) that stands at
\* `total' would stand with only the compensations up to that sample: it moves
\* with a compensated step, and is where the raw universe is in the worlds
\* `refs'.
Account(g, total, refs) ==
  /\ g[Len(stream)] = total
  /\ \A n \in 1 .. Len(stream) : Future(n) => \A i \in n - 1 .. Len(stream) : g[i] = total
  /\ \A i, j \in 0 .. Len(stream) : W(i) = W(j) => g[i] = g[j]
  /\ \A i \in 1 .. Len(stream) : U(i) = U(i - 1) => g[i] = g[i - 1]
  /\ \A m \in comped : g[m] - g[m - 1] = U(m) - U(m - 1)
  /\ \A i \in 0 .. Len(stream) : W(i) \in refs => g[i] = U(i)

Accounted(total, refs) ==
  \E g \in [0 .. Len(stream) -> Int] : Account(g, total, refs)

\* The profile's world, unless it was taken from a room that leapt; and the
\* launch's, while the profile has no WFD.
Sound == IF profile.bound THEN profile.from # "leapt" ELSE ~room.leapt
ProfileRefs == (IF Sound THEN {Ref} ELSE {}) \cup (IF profile.bound THEN {} ELSE {0})

CalInv == profile.has => Accounted(profile.cal, ProfileRefs)

RoomInv ==
  (room.valid /\ ~room.leapt) =>
    /\ Visited(room.w) /\ Accounted(room.at, {room.w})
    /\ ~profile.has => \A i \in 0 .. Len(stream) : W(i) = room.w => U(i) = room.at

BooksInv == FutureInv /\ BindInv /\ ClearInv /\ CalInv /\ RoomInv

UniverseInv == TypeOK /\ StreamInv /\ JumpInv /\ SpaceInv /\ BooksInv

-----------------------------------------------------------------------------
(* Facts about the stream.                                                 *)

LEMMA SampleFacts ==
  ASSUME StreamTypes
  PROVE  /\ Len(stream) \in Nat
         /\ \A i \in 1 .. Len(stream) :
              /\ stream[i] \in Samples
              /\ W(i) = stream[i].w /\ U(i) = stream[i].u
         /\ \A i \in 0 .. Len(stream) : W(i) \in Int /\ U(i) \in Int
         /\ W(0) = 0 /\ U(0) = 0
<1>1. Len(stream) \in Nat /\ \A i \in 1 .. Len(stream) : stream[i] \in Samples
  BY DEF StreamTypes
<1>2. \A i \in 1 .. Len(stream) : W(i) = stream[i].w /\ U(i) = stream[i].u
  BY <1>1 DEF W, U, Pose
<1>3. W(0) = 0 /\ U(0) = 0  BY DEF W, U, Pose, Start
<1>4. ASSUME NEW i \in 0 .. Len(stream) PROVE W(i) \in Int /\ U(i) \in Int
  <2>1. CASE i = 0  BY <1>3, <2>1
  <2>2. CASE i # 0
    <3>1. i \in 1 .. Len(stream)  BY <1>1, <2>2
    <3> QED  BY <1>1, <1>2, <3>1 DEF Samples
  <2> QED  BY <2>1, <2>2
<1> QED  BY <1>1, <1>2, <1>3, <1>4

\* A step that publishes nothing leaves every pose where it is.
LEMMA SamePoses ==
  ASSUME UNCHANGED stream
  PROVE  /\ \A i : W(i)' = W(i) /\ U(i)' = U(i)
         /\ \A n : StepAt(n)' <=> StepAt(n)
<1>1. \A i : W(i)' = W(i) /\ U(i)' = U(i)  BY DEF W, U, Pose
<1> QED  BY <1>1 DEF StepAt

LEMMA BatchEndFacts ==
  ASSUME StreamTypes, NEW c \in 0 .. Len(stream)
  PROVE  /\ BatchEnd(c) \in c .. Len(stream)
         /\ \A i \in c + 2 .. BatchEnd(c) : stream[i].kind \notin Lossy
<1> DEFINE Ends(k) == k = Len(stream) \/ (k > c /\ stream[k + 1].kind \in Lossy)
           Clean(k) == \A i \in c + 2 .. k : stream[i].kind \notin Lossy
           T == {k \in c .. Len(stream) : Ends(k)}
<1>1. Len(stream) \in Nat  BY DEF StreamTypes
<1>2. T \in SUBSET Nat /\ Len(stream) \in T  BY <1>1
<1>3. PICK x \in T : \A y \in T : x <= y
  <2> HIDE DEF T
  <2> QED  BY <1>2, LeastOf
<1>4. x \in c .. Len(stream) /\ Ends(x)  BY <1>3
<1>5. Clean(x)
  <2> SUFFICES ASSUME NEW i \in c + 2 .. x, stream[i].kind \in Lossy PROVE FALSE  OBVIOUS
  <2>1. PICK j \in Nat : i = j + 1 /\ j > c /\ j < x
    <3>1. i - 1 \in Nat /\ i = (i - 1) + 1 /\ i - 1 > c /\ i - 1 < x  BY <1>1, <1>4
    <3> QED  BY <3>1
  <2>2. j \in T  BY <1>1, <1>4, <2>1
  <2> QED  BY <1>1, <1>3, <1>4, <2>1, <2>2
<1> HIDE DEF T
<1>6. BatchEnd(c) = CHOOSE k \in c .. Len(stream) : Clean(k) /\ Ends(k)  BY DEF BatchEnd
<1>7. \E k \in c .. Len(stream) : Clean(k) /\ Ends(k)  BY <1>4, <1>5
<1> HIDE DEF Ends
<1>8. BatchEnd(c) \in c .. Len(stream) /\ Clean(BatchEnd(c))  BY <1>6, <1>7
<1> QED  BY <1>8

-----------------------------------------------------------------------------
(* What SpaceDrain caches.                                                 *)

Caches == [hmd : Endpoints, ver : BOOLEAN, seen : Seq(Transitions)]
CachedBy(acc, p) ==
  HmdAt(acc.hmd, p) /\ \A k \in 1 .. Len(acc.seen) : Noted(acc.seen[k], p)

LEMMA CacheTypes ==
  ASSUME StreamTypes, NEW acc \in Caches, Placed(acc.hmd), NEW n \in 1 .. Len(stream)
  PROVE  CacheHmd(acc, n) \in Caches /\ Placed(CacheHmd(acc, n).hmd)
<1> DEFINE s == stream[n]
           p == stream[acc.hmd.n]
           near == acc.hmd.state = "usable" /\ s.kind = "good"
           t == [n |-> n, from |-> p.w, to |-> s.w,
                 local |-> near /\ s.u - s.w = p.u - p.w, composed |-> near /\ s.u = p.u]
           now == [acc EXCEPT !.hmd = [state |-> "usable", n |-> n]]
<1>1. /\ Len(stream) \in Nat /\ n \in Nat /\ s \in Samples /\ acc.hmd \in Endpoints
      /\ acc.ver \in BOOLEAN /\ acc.seen \in Seq(Transitions)
  BY SampleFacts DEF Caches
<1>2. now \in Caches /\ Placed(now.hmd) /\ now.seen = acc.seen /\ now.ver = acc.ver
  <2>1. [state |-> "usable", n |-> n] \in Endpoints  BY <1>1 DEF Endpoints
  <2>2. now.hmd = [state |-> "usable", n |-> n] /\ now.seen = acc.seen /\ now.ver = acc.ver
    BY DEF Caches
  <2> QED  BY <1>1, <2>1, <2>2 DEF Placed, Caches
<1>3. CacheHmd(acc, n) = IF s.kind = "bad" THEN [acc EXCEPT !.hmd = Broken(@), !.ver = FALSE]
                         ELSE IF acc.hmd.state = "empty" \/ s.w = p.w THEN now
                         ELSE [now EXCEPT !.seen = Append(@, t), !.ver = @ /\ t.local]
  BY DEF CacheHmd
<1>4. CASE s.kind = "bad"
  <2>1. Broken(acc.hmd) \in Endpoints /\ Placed(Broken(acc.hmd))
    BY <1>1 DEF Broken, Endpoints, Placed
  <2>2. CacheHmd(acc, n) = [acc EXCEPT !.hmd = Broken(@), !.ver = FALSE]  BY <1>3, <1>4
  <2> QED  BY <2>1, <2>2 DEF Caches
<1>5. CASE s.kind # "bad" /\ (acc.hmd.state = "empty" \/ s.w = p.w)
  <2>1. CacheHmd(acc, n) = now  BY <1>3, <1>5
  <2> QED  BY <1>2, <2>1
<1>6. CASE s.kind # "bad" /\ ~(acc.hmd.state = "empty" \/ s.w = p.w)
  <2>1. p \in Samples  BY <1>1, <1>6, SampleFacts DEF Placed
  <2>2. t \in Transitions /\ t.local \in BOOLEAN
    <3>1. s.w \in Int /\ p.w \in Int  BY <1>1, <2>1 DEF Samples
    <3>2. (near /\ s.u - s.w = p.u - p.w) \in BOOLEAN /\ (near /\ s.u = p.u) \in BOOLEAN
      OBVIOUS
    <3> QED  BY <1>1, <3>1, <3>2 DEF Transitions
  <2>3. CacheHmd(acc, n) = [now EXCEPT !.seen = Append(@, t), !.ver = @ /\ t.local]
    BY <1>3, <1>6
  <2> HIDE DEF now, t
  <2>4. CacheHmd(acc, n).hmd = now.hmd  BY <1>2, <2>3 DEF Caches
  <2>5. Append(now.seen, t) \in Seq(Transitions) /\ (now.ver /\ t.local) \in BOOLEAN
    BY <1>1, <1>2, <2>2
  <2>6. CacheHmd(acc, n) \in Caches  BY <1>2, <2>3, <2>5 DEF Caches
  <2> QED  BY <1>2, <2>4, <2>6 DEF Placed
<1> QED  BY <1>4, <1>5, <1>6

LEMMA CacheStep ==
  ASSUME StreamTypes, NEW acc \in Caches, NEW n \in 1 .. Len(stream), CachedBy(acc, n - 1)
  PROVE  CachedBy(CacheHmd(acc, n), n)
<1> DEFINE s == stream[n]
           p == stream[acc.hmd.n]
           near == acc.hmd.state = "usable" /\ s.kind = "good"
           t == [n |-> n, from |-> p.w, to |-> s.w,
                 local |-> near /\ s.u - s.w = p.u - p.w, composed |-> near /\ s.u = p.u]
           now == [acc EXCEPT !.hmd = [state |-> "usable", n |-> n]]
<1>1. /\ Len(stream) \in Nat /\ n \in Nat /\ s \in Samples /\ acc.hmd \in Endpoints
      /\ acc.ver \in BOOLEAN /\ acc.seen \in Seq(Transitions)
      /\ W(n) = s.w /\ U(n) = s.u
  BY SampleFacts DEF Caches
<1>2. /\ now \in Caches /\ now.seen = acc.seen /\ now.hmd = [state |-> "usable", n |-> n]
  <2>1. [state |-> "usable", n |-> n] \in Endpoints  BY <1>1 DEF Endpoints
  <2> QED  BY <1>1, <2>1 DEF Caches
<1>3. CacheHmd(acc, n) = IF s.kind = "bad" THEN [acc EXCEPT !.hmd = Broken(@), !.ver = FALSE]
                         ELSE IF acc.hmd.state = "empty" \/ s.w = p.w THEN now
                         ELSE [now EXCEPT !.seen = Append(@, t), !.ver = @ /\ t.local]
  BY DEF CacheHmd
<1>4. HmdAt(acc.hmd, n - 1) /\ \A k \in 1 .. Len(acc.seen) : Noted(acc.seen[k], n)
  BY <1>1 DEF CachedBy, Noted
<1>5. s.kind # "bad" => HmdAt(now.hmd, n)
  BY <1>1, <1>2 DEF HmdAt
<1>6. CASE s.kind = "bad"
  <2>1. CacheHmd(acc, n) = [acc EXCEPT !.hmd = Broken(@), !.ver = FALSE]  BY <1>3, <1>6
  <2>2. CacheHmd(acc, n).hmd = Broken(acc.hmd) /\ CacheHmd(acc, n).seen = acc.seen
    BY <2>1 DEF Caches
  <2>3. HmdAt(Broken(acc.hmd), n)  BY <1>1, <1>4, <1>6 DEF HmdAt, Broken, Endpoints
  <2> QED  BY <1>4, <2>2, <2>3 DEF CachedBy
<1>7. CASE s.kind # "bad" /\ (acc.hmd.state = "empty" \/ s.w = p.w)
  <2>1. CacheHmd(acc, n) = now  BY <1>3, <1>7
  <2> QED  BY <1>2, <1>4, <1>5, <1>7, <2>1 DEF CachedBy
<1>8. CASE s.kind # "bad" /\ ~(acc.hmd.state = "empty" \/ s.w = p.w)
  <2>1. CacheHmd(acc, n) = [now EXCEPT !.seen = Append(@, t), !.ver = @ /\ t.local]
    BY <1>3, <1>8
  <2>2. acc.hmd.n \in 1 .. n - 1  BY <1>4, <1>8 DEF HmdAt
  <2>3. W(acc.hmd.n) = p.w /\ U(acc.hmd.n) = p.u  BY <1>1, <2>2, SampleFacts
  <2>4. ~Gapped(n - 1) \/ s.kind = "session"  BY <1>1 DEF Gapped
  <2>5. near => acc.hmd.n = n - 1  BY <1>1, <1>4, <2>4 DEF HmdAt
  <2>6. StepAt(n) => acc.hmd.n = n - 1
    BY <1>1, <1>4, <1>8, <2>4 DEF HmdAt, StepAt, Endpoints
  <2>7. Noted(t, n)
    <3>1. t.n = n /\ t.from = p.w /\ t.to = s.w  OBVIOUS
    <3>2. t.local => near /\ s.u - s.w = p.u - p.w  OBVIOUS
    <3>3. t.composed => near /\ s.u = p.u  OBVIOUS
    <3>4. p \in Samples  BY <1>1, <2>2, SampleFacts
    <3> HIDE DEF t, near
    <3>5. (t.composed \/ t.local \/ StepAt(n)) => acc.hmd.n = n - 1
      BY <2>5, <2>6, <3>2, <3>3
    <3>6. (t.composed \/ t.local \/ StepAt(n)) =>
            n >= 2 /\ t.from = W(n - 1) /\ W(n) # W(n - 1)
      BY <1>1, <1>8, <2>2, <2>3, <3>1, <3>5
    <3>7. t.composed => U(n) = U(n - 1)  BY <1>1, <2>3, <3>3, <3>5
    <3>8. t.local => U(n) - U(n - 1) = t.to - t.from
      <4> SUFFICES ASSUME t.local PROVE U(n) - U(n - 1) = t.to - t.from  OBVIOUS
      <4>1. U(n - 1) = p.u /\ s.u - s.w = p.u - p.w  BY <2>3, <3>2, <3>5
      <4>2. s.u \in Int /\ s.w \in Int /\ p.u \in Int /\ p.w \in Int
        BY <1>1, <3>4 DEF Samples
      <4>3. PICK a \in Int, b \in Int, c \in Int, e \in Int :
              a = s.u /\ b = s.w /\ c = p.u /\ e = p.w
        BY <4>2
      <4>4. a - b = c - e => a - c = b - e  OBVIOUS
      <4>5. U(n) = a /\ U(n - 1) = c /\ t.to = b /\ t.from = e  BY <1>1, <3>1, <4>1, <4>3
      <4>6. a - b = c - e  BY <4>1, <4>3
      <4> QED  BY <4>4, <4>5, <4>6
    <3> QED  BY <1>1, <3>1, <3>6, <3>7, <3>8 DEF Noted
  <2> HIDE DEF now, t, s, p, near
  <2>8. CacheHmd(acc, n).hmd = now.hmd /\ CacheHmd(acc, n).seen = Append(acc.seen, t)
    BY <1>2, <2>1 DEF Caches
  <2>9. \A k \in 1 .. Len(Append(acc.seen, t)) : Noted(Append(acc.seen, t)[k], n)
    <3> SUFFICES ASSUME NEW k \in 1 .. Len(acc.seen) + 1
                 PROVE  Noted(Append(acc.seen, t)[k], n)
      BY <1>1
    <3>1. CASE k = Len(acc.seen) + 1  BY <1>1, <2>7, <3>1
    <3>2. CASE k # Len(acc.seen) + 1
      <4>1. k \in 1 .. Len(acc.seen)  BY <1>1, <3>2
      <4>2. Append(acc.seen, t)[k] = acc.seen[k]  BY <1>1, <4>1
      <4> QED  BY <1>4, <4>1, <4>2
    <3> QED  BY <3>1, <3>2
  <2> QED  BY <1>5, <1>8, <2>8, <2>9 DEF CachedBy
<1> QED  BY <1>6, <1>7, <1>8

LEMMA CacheLoopExists ==
  ASSUME StreamTypes, NEW c \in Nat, NEW m \in Nat, c + m <= Len(stream),
         NEW acc \in Caches, Placed(acc.hmd)
  PROVE  \E g : g = [k \in 0 .. m |-> IF k = 0 THEN acc ELSE CacheHmd(g[k - 1], c + k)]
<1> DEFINE S == {a \in Caches : Placed(a.hmd)}
           f == [x \in S \X (1 .. m) |-> CacheHmd(x[1], c + x[2])]
<1>1. \A k \in 1 .. m : c + k \in 1 .. Len(stream)  BY SampleFacts
<1>2. acc \in S  OBVIOUS
<1>3. f \in [S \X (1 .. m) -> S]
  <2> SUFFICES ASSUME NEW a \in S, NEW k \in 1 .. m PROVE CacheHmd(a, c + k) \in S
    OBVIOUS
  <2> QED  BY <1>1, CacheTypes
<1>4. \A a \in S, k \in 1 .. m : f[<<a, k>>] = CacheHmd(a, c + k)  OBVIOUS
<1> HIDE DEF f, S
<1>5. PICK t : Accumulates(t, S, m, acc, f)
  <2>1. m \in Nat  OBVIOUS
  <2>2. acc \in S  BY <1>2
  <2>3. f \in [S \X (1 .. m) -> S]  BY <1>3
  <2> QED  BY ONLY <2>1, <2>2, <2>3, LoopExists
<1>6. /\ t \in [0 .. m -> S]
      /\ t[0] = acc
      /\ \A k \in 1 .. m : t[k] = f[<<t[k - 1], k>>]
  BY <1>5 DEF Accumulates
<1>7. ASSUME NEW k \in 0 .. m
      PROVE  t[k] = IF k = 0 THEN acc ELSE CacheHmd(t[k - 1], c + k)
  <2>1. CASE k = 0  BY <1>6, <2>1
  <2>2. CASE k # 0
    <3>1. k \in 1 .. m /\ k - 1 \in 0 .. m  BY <2>2
    <3>2. t[k - 1] \in S  BY <1>6, <3>1
    <3> QED  BY <1>4, <1>6, <3>1, <3>2
  <2> QED  BY <2>1, <2>2
<1>8. t = [k \in 0 .. m |-> t[k]]  BY <1>6
<1>9. t = [k \in 0 .. m |-> IF k = 0 THEN acc ELSE CacheHmd(t[k - 1], c + k)]
  BY <1>7, <1>8
<1> QED  BY <1>9

LEMMA CacheLoop ==
  ASSUME StreamTypes, NEW c \in Nat, NEW m \in Nat, c + m <= Len(stream),
         NEW acc \in Caches, HmdAt(acc.hmd, c), acc.seen = <<>>,
         NEW after, after[0] = acc,
         \A k \in 1 .. m : after[k] = CacheHmd(after[k - 1], c + k)
  PROVE  after[m] \in Caches /\ CachedBy(after[m], c + m)
<1> DEFINE Good == {k \in 0 .. m : /\ after[k] \in Caches /\ Placed(after[k].hmd)
                                   /\ CachedBy(after[k], c + k)}
<1>1. Len(stream) \in Nat /\ \A k \in 1 .. m : c + k \in 1 .. Len(stream)
  BY SampleFacts
<1>2. 0 \in Good  BY <1>1 DEF HmdAt, Placed, CachedBy
<1>3. ASSUME NEW k \in 1 .. m, k - 1 \in Good PROVE k \in Good
  <2>1. after[k - 1] \in Caches /\ Placed(after[k - 1].hmd) /\ CachedBy(after[k - 1], c + (k - 1))
    BY <1>3
  <2>2. c + k \in 1 .. Len(stream) /\ (c + k) - 1 = c + (k - 1)  BY <1>1
  <2>3. after[k] \in Caches /\ Placed(after[k].hmd)  BY <2>1, <2>2, CacheTypes
  <2>4. CachedBy(CacheHmd(after[k - 1], c + k), c + k)
    BY <2>1, <2>2, CacheStep
  <2>5. CachedBy(after[k], c + k)  BY <2>4
  <2> QED  BY <2>3, <2>5
<1> HIDE DEF Good
<1>4. \A k \in 1 .. m : k - 1 \in Good => k \in Good  BY ONLY <1>3
<1>5. m \in Good  BY ONLY m \in Nat, <1>2, <1>4, AllAlong
<1> USE DEF Good
<1> QED  BY <1>5

\* Where the loop over the batch starts, and its steps.
CacheStart ==
  LET lost == spc < Len(stream) /\ stream[spc + 1].kind \in Lossy
  IN [hmd |-> IF lost THEN Broken(hmd) ELSE hmd, ver |-> room.ver /\ ~lost, seen |-> <<>>]

LEMMA CacheSteps ==
  ASSUME StreamTypes, hmd \in Endpoints, Placed(hmd), room.ver \in BOOLEAN, HmdAt(hmd, spc),
         NEW m \in Nat, BatchEnd(spc) = spc + m, spc + m <= Len(stream)
  PROVE  /\ CacheStart \in Caches /\ CacheStart.seen = <<>>
         /\ HmdAt(CacheStart.hmd, spc) /\ Placed(CacheStart.hmd)
         /\ \E after : /\ after[0] = CacheStart
                       /\ \A k \in 1 .. m : after[k] = CacheHmd(after[k - 1], spc + k)
                       /\ Cached = after[m]
<1> DEFINE lost == spc < Len(stream) /\ stream[spc + 1].kind \in Lossy
           acc == [hmd |-> IF lost THEN Broken(hmd) ELSE hmd,
                   ver |-> room.ver /\ ~lost, seen |-> <<>>]
           s == [i \in 1 .. m |-> spc + i]
<1>1. /\ Len(stream) \in Nat /\ spc \in Nat /\ BatchEnd(spc) - spc = m
      /\ CacheStart = acc
  <2>1. Len(stream) \in Nat /\ spc \in Nat  BY DEF StreamTypes
  <2>2. CacheStart = acc  BY DEF CacheStart
  <2>3. BatchEnd(spc) - spc = m  BY <2>1
  <2> QED  BY <2>1, <2>2, <2>3
<1>2. acc \in Caches /\ acc.seen = <<>>
  <2>1. Broken(hmd) \in Endpoints  BY DEF Broken, Endpoints
  <2>2. (room.ver /\ ~lost) \in BOOLEAN  OBVIOUS
  <2>3. <<>> \in Seq(Transitions)  OBVIOUS
  <2> HIDE DEF lost
  <2> QED  BY <2>1, <2>2, <2>3 DEF Caches
<1>3. HmdAt(acc.hmd, spc) /\ Placed(acc.hmd)
  <2>1. Placed(Broken(hmd))  BY DEF Broken, Placed, Endpoints
  <2>2. HmdAt(Broken(hmd), spc)  BY <1>1 DEF Broken, HmdAt, Endpoints
  <2> HIDE DEF lost
  <2> QED  BY <2>1, <2>2
<1>4. Len(s) = m /\ \A k \in 1 .. m : s[k] = spc + k  BY <1>1
<1>5. Cached = Along(CacheHmd, acc, s)  BY <1>1 DEF Cached
<1> HIDE DEF acc, s
<1>6. PICK g : g = [k \in 0 .. m |-> IF k = 0 THEN acc ELSE CacheHmd(g[k - 1], spc + k)]
  BY ONLY <1>1, <1>2, <1>3, StreamTypes, m \in Nat, spc + m <= Len(stream), CacheLoopExists
<1>7. g = [k \in 0 .. Len(s) |-> IF k = 0 THEN acc ELSE CacheHmd(g[k - 1], s[k])]
  BY ONLY <1>1, <1>4, <1>6, m \in Nat
<1> DEFINE after == CHOOSE h : h = [k \in 0 .. Len(s) |-> IF k = 0 THEN acc
                                                        ELSE CacheHmd(h[k - 1], s[k])]
<1>8. Along(CacheHmd, acc, s) = after[Len(s)]  BY DEF Along
<1>9. after = [k \in 0 .. Len(s) |-> IF k = 0 THEN acc ELSE CacheHmd(after[k - 1], s[k])]
  BY ONLY <1>7
<1> HIDE DEF after
<1>10. after[0] = acc /\ \A k \in 1 .. m : after[k] = CacheHmd(after[k - 1], spc + k)
  BY ONLY <1>1, <1>4, <1>9, m \in Nat
<1>11. after[0] = CacheStart /\ Cached = after[m]  BY ONLY <1>1, <1>4, <1>5, <1>8, <1>10
<1> QED  BY ONLY <1>1, <1>2, <1>3, <1>10, <1>11

\* The batch's last endpoint and its transitions.
LEMMA CachedFacts ==
  ASSUME StreamTypes, hmd \in Endpoints, Placed(hmd), room.ver \in BOOLEAN, HmdAt(hmd, spc)
  PROVE  Cached \in Caches /\ CachedBy(Cached, BatchEnd(spc))
<1>1. Len(stream) \in Nat /\ spc \in 0 .. Len(stream) /\ spc \in Nat  BY DEF StreamTypes
<1>2. PICK m \in Nat : m = BatchEnd(spc) - spc
  <2>1. BatchEnd(spc) - spc \in Nat  BY <1>1, BatchEndFacts
  <2> QED  BY <2>1
<1>3. BatchEnd(spc) = spc + m /\ spc + m <= Len(stream)  BY <1>1, <1>2, BatchEndFacts
<1>4. PICK acc : acc = CacheStart  OBVIOUS
<1>5. acc \in Caches /\ acc.seen = <<>> /\ HmdAt(acc.hmd, spc)
  BY <1>3, <1>4, CacheSteps
<1>6. PICK after : /\ after[0] = acc
                   /\ \A k \in 1 .. m : after[k] = CacheHmd(after[k - 1], spc + k)
                   /\ Cached = after[m]
  BY <1>3, <1>4, CacheSteps
<1>7. after[m] \in Caches /\ CachedBy(after[m], spc + m)
  BY ONLY m \in Nat, <1>1, <1>3, <1>5, <1>6, StreamTypes, CacheLoop
<1> QED  BY ONLY <1>3, <1>6, <1>7

-----------------------------------------------------------------------------
(* The verdict's walk and the room's own.                                  *)

Walks == [ref : Int, stopped : BOOLEAN, wait : BOOLEAN, kept : Seq(Transitions)]
WalkStart(ref) == [ref |-> ref, stopped |-> FALSE, wait |-> FALSE, kept |-> <<>>]

LEMMA FollowTypes ==
  ASSUME NEW acc \in Walks, NEW t \in Transitions
  PROVE  Follow(acc, t) \in Walks
<1>1. /\ acc.kept \in Seq(Transitions) /\ Append(acc.kept, t) \in Seq(Transitions)
      /\ t.to \in Int /\ LiveAt(t.n) \in BOOLEAN
  BY DEF Walks, Transitions, LiveAt
<1>2. CASE acc.stopped \/ t.from # acc.ref
  BY <1>1, <1>2 DEF Follow, Walks
<1>3. CASE ~(acc.stopped \/ t.from # acc.ref) /\ (t.composed \/ t.n \in comped)
  BY <1>1, <1>3 DEF Follow, Walks
<1>4. CASE ~(acc.stopped \/ t.from # acc.ref) /\ ~(t.composed \/ t.n \in comped)
  BY <1>1, <1>4 DEF Follow, Walks
<1> QED  BY <1>2, <1>3, <1>4

\* The walk takes the transitions one by one.
LEMMA WalkSteps ==
  ASSUME NEW ref \in Int, NEW ts \in Seq(Transitions)
  PROVE  \E after : /\ after \in [0 .. Len(ts) -> Walks]
                    /\ after[0] = WalkStart(ref)
                    /\ \A k \in 1 .. Len(ts) : after[k] = Follow(after[k - 1], ts[k])
                    /\ Walk(ref, ts) = after[Len(ts)]
<1> DEFINE m == Len(ts)
           f == [x \in Walks \X (1 .. m) |-> Follow(x[1], ts[x[2]])]
<1>1. m \in Nat /\ \A k \in 1 .. m : ts[k] \in Transitions  OBVIOUS
<1>2. WalkStart(ref) \in Walks  BY DEF WalkStart, Walks
<1>3. f \in [Walks \X (1 .. m) -> Walks]
  <2> SUFFICES ASSUME NEW a \in Walks, NEW k \in 1 .. m PROVE Follow(a, ts[k]) \in Walks
    OBVIOUS
  <2> QED  BY <1>1, FollowTypes
<1>4. \A a \in Walks, k \in 1 .. m : f[<<a, k>>] = Follow(a, ts[k])  OBVIOUS
<1> HIDE DEF f
<1>5. PICK t : Accumulates(t, Walks, m, WalkStart(ref), f)
  BY ONLY <1>1, <1>2, <1>3, LoopExists
<1>6. /\ t \in [0 .. m -> Walks]
      /\ t[0] = WalkStart(ref)
      /\ \A k \in 1 .. m : t[k] = f[<<t[k - 1], k>>]
  BY <1>5 DEF Accumulates
<1>7. ASSUME NEW k \in 1 .. m PROVE t[k] = Follow(t[k - 1], ts[k])
  <2>1. t[k - 1] \in Walks  BY <1>6
  <2> QED  BY <1>4, <1>6, <2>1
<1>8. t = [k \in 0 .. m |-> IF k = 0 THEN WalkStart(ref) ELSE Follow(t[k - 1], ts[k])]
  <2>1. t = [k \in 0 .. m |-> t[k]]  BY <1>6
  <2>2. \A k \in 0 .. m : t[k] = IF k = 0 THEN WalkStart(ref) ELSE Follow(t[k - 1], ts[k])
    BY <1>6, <1>7
  <2> QED  BY <2>1, <2>2
<1>9. Walk(ref, ts) = Along(Follow, WalkStart(ref), ts)  BY DEF Walk, WalkStart
<1> DEFINE after == CHOOSE h : h = [k \in 0 .. Len(ts) |-> IF k = 0 THEN WalkStart(ref)
                                                         ELSE Follow(h[k - 1], ts[k])]
<1>10. Along(Follow, WalkStart(ref), ts) = after[Len(ts)]  BY DEF Along
<1>11. after = [k \in 0 .. Len(ts) |-> IF k = 0 THEN WalkStart(ref)
                                       ELSE Follow(after[k - 1], ts[k])]
  BY ONLY <1>8
<1> HIDE DEF after
<1>12. after[0] = WalkStart(ref) /\ \A k \in 1 .. m : after[k] = Follow(after[k - 1], ts[k])
  BY ONLY <1>1, <1>11
<1>13. \A k \in 0 .. m : after[k] \in Walks
  <2> DEFINE Good == {k \in 0 .. m : after[k] \in Walks}
  <2>1. 0 \in Good  BY ONLY <1>1, <1>2, <1>12
  <2>2. ASSUME NEW k \in 1 .. m, k - 1 \in Good PROVE k \in Good
    BY ONLY <1>1, <1>12, <2>2, FollowTypes
  <2> HIDE DEF Good
  <2>3. \A k \in 1 .. m : k - 1 \in Good => k \in Good  BY ONLY <2>2
  <2>4. \A k \in 0 .. m : k \in Good  BY ONLY <1>1, <2>1, <2>3, AllAlong
  <2> USE DEF Good
  <2> QED  BY ONLY <2>4
<1>14. after \in [0 .. m -> Walks]  BY ONLY <1>11, <1>13
<1> QED  BY ONLY <1>9, <1>10, <1>12, <1>14

\* Whatever contains the reference and follows what the walk follows contains its end;
\* and the walk keeps only what it was given.
LEMMA WalkFacts ==
  ASSUME NEW ref \in Int, NEW ts \in Seq(Transitions), NEW R, ref \in R,
         \A k \in 1 .. Len(ts) :
           ts[k].from \in R /\ (ts[k].composed \/ ts[k].n \in comped) => ts[k].to \in R
  PROVE  /\ Walk(ref, ts) \in Walks /\ Walk(ref, ts).ref \in R
         /\ \A k \in 1 .. Len(Walk(ref, ts).kept) :
              \E l \in 1 .. Len(ts) : Walk(ref, ts).kept[k] = ts[l]
<1>1. PICK after \in [0 .. Len(ts) -> Walks] :
              /\ after[0] = WalkStart(ref)
              /\ \A k \in 1 .. Len(ts) : after[k] = Follow(after[k - 1], ts[k])
              /\ Walk(ref, ts) = after[Len(ts)]
  BY WalkSteps
<1> DEFINE m == Len(ts)
           Kept(s) == \A k \in 1 .. Len(s) : \E l \in 1 .. m : s[k] = ts[l]
           Good == {k \in 0 .. m : after[k].ref \in R /\ Kept(after[k].kept)}
<1>2. m \in Nat  OBVIOUS
<1>3. 0 \in Good  BY <1>1, <1>2 DEF WalkStart
<1>4. ASSUME NEW k \in 1 .. m, k - 1 \in Good PROVE k \in Good
  <2> DEFINE a == after[k - 1]
             t == ts[k]
  <2>1. /\ a \in Walks /\ t \in Transitions /\ a.ref \in R /\ Kept(a.kept)
        /\ a.kept \in Seq(Transitions) /\ after[k] = Follow(a, t)
    BY <1>1, <1>4 DEF Walks
  <2>2. Kept(Append(a.kept, t))
    <3> SUFFICES ASSUME NEW j \in 1 .. Len(a.kept) + 1
                 PROVE  \E l \in 1 .. m : Append(a.kept, t)[j] = ts[l]
      BY <2>1
    <3>1. CASE j = Len(a.kept) + 1  BY <2>1, <3>1
    <3>2. CASE j # Len(a.kept) + 1
      <4>1. j \in 1 .. Len(a.kept) /\ Append(a.kept, t)[j] = a.kept[j]  BY <2>1, <3>2
      <4> QED  BY <2>1, <4>1
    <3> QED  BY <3>1, <3>2
  <2>3. t.from \in R /\ (t.composed \/ t.n \in comped) => t.to \in R  OBVIOUS
  <2> HIDE DEF a, t, Kept
  <2>4. CASE a.stopped \/ t.from # a.ref
    <3>1. Follow(a, t) = [a EXCEPT !.kept = Append(@, t)]  BY <2>4 DEF Follow
    <3>2. after[k].ref = a.ref /\ after[k].kept = Append(a.kept, t)
      BY <2>1, <3>1 DEF Walks
    <3>3. Kept(after[k].kept)  BY ONLY <2>2, <3>2
    <3>4. k \in 0 .. m /\ after[k].ref \in R  BY <2>1, <3>2
    <3> QED  BY ONLY <3>3, <3>4
  <2>5. CASE ~(a.stopped \/ t.from # a.ref) /\ (t.composed \/ t.n \in comped)
    <3>1. Follow(a, t) = [a EXCEPT !.ref = t.to]  BY <2>5 DEF Follow
    <3>2. after[k].ref = t.to /\ after[k].kept = a.kept  BY <2>1, <3>1 DEF Walks
    <3> QED  BY <2>1, <2>3, <2>5, <3>2
  <2>6. CASE ~(a.stopped \/ t.from # a.ref) /\ ~(t.composed \/ t.n \in comped)
    <3>1. Follow(a, t) = [a EXCEPT !.stopped = TRUE, !.wait = LiveAt(t.n),
                                   !.kept = Append(@, t)]
      BY <2>6 DEF Follow
    <3>2. after[k].ref = a.ref /\ after[k].kept = Append(a.kept, t)
      BY <2>1, <3>1 DEF Walks
    <3>3. Kept(after[k].kept)  BY ONLY <2>2, <3>2
    <3>4. k \in 0 .. m /\ after[k].ref \in R  BY <2>1, <3>2
    <3> QED  BY ONLY <3>3, <3>4
  <2> QED  BY <2>4, <2>5, <2>6
<1> HIDE DEF Good
<1>5. \A k \in 1 .. m : k - 1 \in Good => k \in Good  BY ONLY <1>4
<1>6. \A k \in 0 .. m : k \in Good  BY ONLY <1>2, <1>3, <1>5, AllAlong
<1>7. m \in Good /\ after[m] \in Walks  BY <1>1, <1>2, <1>6
<1> QED  BY <1>1, <1>7 DEF Good

RoomWalks == [w : Int, at : Int, lost : BOOLEAN]

\* The room's own walk, the same way.
LEMMA ReanchorFacts ==
  ASSUME NEW w \in Int, NEW at \in Int, NEW ts \in Seq(Transitions), NEW R, <<w, at>> \in R,
         \A k \in 1 .. Len(ts), a \in Int : <<ts[k].from, a>> \in R =>
           /\ ts[k].composed => <<ts[k].to, a>> \in R
           /\ ts[k].local => <<ts[k].to, a + ts[k].to - ts[k].from>> \in R,
         NEW end, end = Along(Reanchor, [w |-> w, at |-> at, lost |-> FALSE], ts)
  PROVE  end \in RoomWalks /\ <<end.w, end.at>> \in R
<1> DEFINE m == Len(ts)
           acc == [w |-> w, at |-> at, lost |-> FALSE]
           S == {a \in RoomWalks : <<a.w, a.at>> \in R}
           f == [x \in S \X (1 .. m) |-> Reanchor(x[1], ts[x[2]])]
<1>1. m \in Nat /\ \A k \in 1 .. m : ts[k] \in Transitions  OBVIOUS
<1>2. acc \in S  BY DEF RoomWalks
<1>3. ASSUME NEW a \in S, NEW k \in 1 .. m PROVE Reanchor(a, ts[k]) \in S
  <2> DEFINE t == ts[k]
  <2>1. /\ a \in RoomWalks /\ <<a.w, a.at>> \in R /\ a.w \in Int /\ a.at \in Int
        /\ t \in Transitions /\ t.to \in Int /\ t.from \in Int
    BY <1>1 DEF RoomWalks, Transitions
  <2>2. <<t.from, a.at>> \in R =>
          /\ t.composed => <<t.to, a.at>> \in R
          /\ t.local => <<t.to, a.at + t.to - t.from>> \in R
    BY <2>1
  <2>3. a.at + t.to - t.from \in Int  BY ONLY <2>1
  <2> SUFFICES Reanchor(a, t) \in S  OBVIOUS
  <2> HIDE DEF t
  <2>4. CASE a.lost \/ t.from # a.w  BY <2>1, <2>4 DEF Reanchor
  <2>5. CASE ~(a.lost \/ t.from # a.w) /\ t.composed
    <3>1. Reanchor(a, t) = [a EXCEPT !.w = t.to]  BY <2>5 DEF Reanchor
    <3>2. Reanchor(a, t) \in RoomWalks /\ Reanchor(a, t).w = t.to /\ Reanchor(a, t).at = a.at
      BY <2>1, <3>1 DEF RoomWalks
    <3> QED  BY <2>1, <2>2, <2>5, <3>2
  <2>6. CASE ~(a.lost \/ t.from # a.w) /\ ~t.composed /\ t.local
    <3>1. Reanchor(a, t) = [a EXCEPT !.w = t.to, !.at = @ + t.to - t.from]
      BY <2>6 DEF Reanchor
    <3>2. /\ Reanchor(a, t) \in RoomWalks /\ Reanchor(a, t).w = t.to
          /\ Reanchor(a, t).at = a.at + t.to - t.from
      BY <2>1, <2>3, <3>1 DEF RoomWalks
    <3> QED  BY <2>1, <2>2, <2>6, <3>2
  <2>7. CASE ~(a.lost \/ t.from # a.w) /\ ~t.composed /\ ~t.local
    <3>1. Reanchor(a, t) = [a EXCEPT !.lost = TRUE]  BY <2>7 DEF Reanchor
    <3>2. Reanchor(a, t) \in RoomWalks /\ Reanchor(a, t).w = a.w /\ Reanchor(a, t).at = a.at
      BY <2>1, <3>1 DEF RoomWalks
    <3> QED  BY <2>1, <3>2
  <2> QED  BY <2>4, <2>5, <2>6, <2>7
<1>4. f \in [S \X (1 .. m) -> S]  BY <1>3
<1>5. \A a \in S, k \in 1 .. m : f[<<a, k>>] = Reanchor(a, ts[k])  OBVIOUS
<1>6. \A a \in S : a \in RoomWalks /\ <<a.w, a.at>> \in R  OBVIOUS
<1>7. end = Along(Reanchor, acc, ts)  OBVIOUS
<1> HIDE DEF f, S, acc
<1>8. PICK t : Accumulates(t, S, m, acc, f)  BY ONLY <1>1, <1>2, <1>4, LoopExists
<1>9. /\ t \in [0 .. m -> S]
      /\ t[0] = acc
      /\ \A k \in 1 .. m : t[k] = f[<<t[k - 1], k>>]
  BY <1>8 DEF Accumulates
<1>10. ASSUME NEW k \in 1 .. m PROVE t[k] = Reanchor(t[k - 1], ts[k])
  <2>1. t[k - 1] \in S  BY <1>9
  <2> QED  BY <1>5, <1>9, <2>1
<1>11. t = [k \in 0 .. m |-> IF k = 0 THEN acc ELSE Reanchor(t[k - 1], ts[k])]
  <2>1. t = [k \in 0 .. m |-> t[k]]  BY <1>9
  <2>2. \A k \in 0 .. m : t[k] = IF k = 0 THEN acc ELSE Reanchor(t[k - 1], ts[k])
    BY <1>9, <1>10
  <2> QED  BY <2>1, <2>2
<1> DEFINE after == CHOOSE h : h = [k \in 0 .. Len(ts) |-> IF k = 0 THEN acc
                                                         ELSE Reanchor(h[k - 1], ts[k])]
<1>12. Along(Reanchor, acc, ts) = after[Len(ts)]  BY DEF Along
<1>13. after = [k \in 0 .. Len(ts) |-> IF k = 0 THEN acc ELSE Reanchor(after[k - 1], ts[k])]
  BY ONLY <1>11
<1> HIDE DEF after
<1>14. after[0] = acc /\ \A k \in 1 .. m : after[k] = Reanchor(after[k - 1], ts[k])
  BY ONLY <1>1, <1>13
<1> DEFINE Good == {k \in 0 .. m : after[k] \in S}
<1>15. 0 \in Good  BY ONLY <1>1, <1>2, <1>14
<1>16. ASSUME NEW k \in 1 .. m, k - 1 \in Good PROVE k \in Good
  BY ONLY <1>1, <1>3, <1>14, <1>16
<1>17. m \in Good => after[m] \in S  OBVIOUS
<1> HIDE DEF Good
<1>18. \A k \in 1 .. m : k - 1 \in Good => k \in Good  BY ONLY <1>16
<1>19. m \in Good
  <2>1. m \in Nat  BY ONLY <1>1
  <2> HIDE DEF m
  <2>2. \A k \in 0 .. m : k \in Good  BY ONLY <2>1, <1>15, <1>18, AllAlong
  <2> QED  BY ONLY <2>1, <2>2
<1> QED  BY ONLY <1>6, <1>7, <1>12, <1>17, <1>19

-----------------------------------------------------------------------------
(* The steps.                                                              *)

\* A step that publishes, one of the others, or none.
Quiet ==
  \/ SessionBoundary \/ Reopen \/ Recovered \/ GraceOver
  \/ Park \/ MonitorDrain \/ PushSample \/ ApplyDelta \/ MonitorDone
  \/ Ripen \/ DropCandidate \/ Confirm \/ RefuseDelta
  \/ SpaceClosed \/ SpaceDrain \/ JudgeClear \/ JudgeStale \/ JudgeBind \/ Judge
  \/ Capture \/ CaptureFails \/ StartRun \/ FinishRun \/ EndRun

LEMMA NextCases ==
  ASSUME [Next]_vars
  PROVE  Still \/ Change \/ Quiet \/ UNCHANGED vars
BY DEF Next, Tick, Monitors, Space, Detector, Headset, User, Quiet

\* Only the headset publishes.
LEMMA QuietStream ==
  ASSUME Quiet
  PROVE  UNCHANGED stream
<1>1. CASE SessionBoundary  BY <1>1 DEF SessionBoundary
<1>2. CASE Reopen  BY <1>2 DEF Reopen, streamVars
<1>3. CASE Recovered  BY <1>3 DEF Recovered, streamVars
<1>4. CASE GraceOver  BY <1>4 DEF GraceOver, streamVars
<1>5. CASE Park  BY <1>5 DEF Park, streamVars
<1>6. CASE MonitorDrain  BY <1>6 DEF MonitorDrain, streamVars
<1>7. CASE PushSample  BY <1>7 DEF PushSample, streamVars
<1>8. CASE ApplyDelta  BY <1>8 DEF ApplyDelta, streamVars
<1>9. CASE MonitorDone  BY <1>9 DEF MonitorDone, streamVars
<1>10. CASE Ripen  BY <1>10 DEF Ripen, streamVars
<1>11. CASE DropCandidate  BY <1>11 DEF DropCandidate, streamVars
<1>12. CASE Confirm  BY <1>12 DEF Confirm, streamVars
<1>13. CASE RefuseDelta  BY <1>13 DEF RefuseDelta, streamVars
<1>14. CASE SpaceClosed  BY <1>14 DEF SpaceClosed, streamVars
<1>15. CASE SpaceDrain  BY <1>15 DEF SpaceDrain, streamVars
<1>16. CASE JudgeClear  BY <1>16 DEF JudgeClear, RoomTick, streamVars
<1>17. CASE JudgeStale  BY <1>17 DEF JudgeStale, RoomTick, streamVars
<1>18. CASE JudgeBind  BY <1>18 DEF JudgeBind, RoomTick, streamVars
<1>19. CASE Judge  BY <1>19 DEF Judge, RoomTick, streamVars
<1>20. CASE Capture  BY <1>20 DEF Capture, streamVars
<1>21. CASE CaptureFails  BY <1>21 DEF CaptureFails, streamVars
<1>22. CASE StartRun  BY <1>22 DEF StartRun, streamVars
<1>23. CASE FinishRun  BY <1>23 DEF FinishRun, streamVars
<1>24. CASE EndRun  BY <1>24 DEF EndRun, streamVars
<1> QED
  BY <1>1, <1>2, <1>3, <1>4, <1>5, <1>6, <1>7, <1>8, <1>9, <1>10, <1>11, <1>12, <1>13,
     <1>14, <1>15, <1>16, <1>17, <1>18, <1>19, <1>20, <1>21, <1>22, <1>23, <1>24
     DEF Quiet

\* What a published sample changes.
LEMMA Published ==
  ASSUME StreamTypes, ~Returns, Still \/ Change, NEW n \in Nat, n = Len(stream) + 1
  PROVE  /\ Len(stream') = n /\ Len(stream) \in Nat
         /\ \A i \in 1 .. Len(stream) : stream'[i] = stream[i]
         /\ stream' \in Seq(Samples)
         /\ stream'[n].kind \in Kinds \cup {"session"}
         /\ crossing => stream'[n].kind = "session"
         /\ crossing' = FALSE
         /\ \A i \in 0 .. Len(stream) : W(i)' = W(i) /\ U(i)' = U(i)
         /\ W(n)' \in Int /\ U(n)' \in Int
         /\ \/ W(n)' > W(Len(stream))
            \/ W(n)' = W(Len(stream)) /\ U(n)' = U(Len(stream))
         /\ open /\ pc \in {"idle", "drain"}
         /\ UNCHANGED <<incidents, linkVars, jumpVars, verdictVars, pc, mon, upto, spc, hmd,
                        seen, run, profile, room, missed>>
<1>1. /\ Len(stream) \in Nat /\ W(Len(stream)) \in Int /\ U(Len(stream)) \in Int
      /\ Latest.w = W(Len(stream)) /\ Latest.u = U(Len(stream))
  BY SampleFacts DEF W, U, Latest
<1>2. PICK kind \in Kinds, w \in Int, u \in Int :
        /\ Publish(kind, w, u)
        /\ w > W(Len(stream)) \/ (w = W(Len(stream)) /\ u = U(Len(stream)))
  <2>1. CASE Still
    <3>1. PICK kind \in Kinds : Publish(kind, Latest.w, Latest.u)  BY <2>1 DEF Still
    <3> QED  BY <1>1, <3>1
  <2>2. CASE Change
    <3>1. PICK kind \in Kinds, w \in Worlds :
            /\ w > Latest.w
            /\ \/ Publish(kind, w, Latest.u + w - Latest.w)
               \/ Publish(kind, w, Latest.u)
               \/ Publish(kind, w, Latest.u - w + Latest.w)
      BY <2>2 DEF Change
    <3>2. w \in Int  BY WorldsAssumption
    <3>3. /\ Latest.u + w - Latest.w \in Int /\ Latest.u - w + Latest.w \in Int
          /\ Latest.u \in Int
      BY <1>1, <3>2
    <3> QED  BY <1>1, <3>1, <3>2, <3>3
  <2> QED  BY <2>1, <2>2
<1> DEFINE s == [w |-> w, u |-> u, kind |-> IF crossing THEN "session" ELSE kind]
<1>3. /\ stream' = Append(stream, s) /\ crossing' = FALSE /\ open /\ pc \in {"idle", "drain"}
      /\ UNCHANGED <<incidents, linkVars, jumpVars, verdictVars, pc, mon, upto, spc, hmd,
                     seen, run, profile, room, missed>>
  BY <1>2 DEF Publish
<1>4. s \in Samples /\ s.w = w /\ s.u = u /\ s.kind = (IF crossing THEN "session" ELSE kind)
  <2>1. (IF crossing THEN "session" ELSE kind) \in Kinds \cup {"session"}  OBVIOUS
  <2> QED  BY <2>1 DEF Samples
<1> HIDE DEF s
<1>5. stream \in Seq(Samples)  BY DEF StreamTypes
<1>6. /\ Len(stream') = n /\ stream' \in Seq(Samples) /\ stream'[n] = s
      /\ \A i \in 1 .. Len(stream) : stream'[i] = stream[i]
  BY <1>3, <1>4, <1>5
<1>7. ASSUME NEW i \in 0 .. Len(stream) PROVE W(i)' = W(i) /\ U(i)' = U(i)
  BY <1>1, <1>6 DEF W, U, Pose, Start
<1>8. W(n)' = w /\ U(n)' = u  BY <1>1, <1>4, <1>6 DEF W, U, Pose
<1>9. stream'[n].kind \in Kinds \cup {"session"} /\ (crossing => stream'[n].kind = "session")
  BY <1>4, <1>6
<1> QED  BY <1>1, <1>2, <1>3, <1>6, <1>7, <1>8, <1>9

LEMMA QuietStreamTypes ==
  ASSUME StreamTypes, WatchInv, Quiet
  PROVE  StreamTypes'
<1>0. UNCHANGED stream  BY QuietStream
<1>a. Len(stream) \in Nat /\ stream' \in Seq(Samples) /\ Len(stream') = Len(stream)
  BY <1>0 DEF StreamTypes
<1> USE <1>0, <1>a
<1>1. CASE SessionBoundary
  BY <1>1 DEF StreamTypes, SessionBoundary, streamVars, linkVars, jumpVars, verdictVars, Incident
<1>2. CASE Reopen
  BY <1>2 DEF StreamTypes, Reopen, streamVars, linkVars, jumpVars, verdictVars
<1>3. CASE Recovered
  BY <1>3 DEF StreamTypes, Recovered, streamVars, linkVars, jumpVars, verdictVars
<1>4. CASE GraceOver
  BY <1>4 DEF StreamTypes, GraceOver, streamVars, linkVars, jumpVars, verdictVars
<1>5. CASE Park
  <2>1. recovering' \in BOOLEAN  BY <1>5, Zenon DEF Park
  <2>2. /\ newSession' \in BOOLEAN /\ active' \in BOOLEAN /\ pc' = "drain"
        /\ mon' = Len(stream) /\ UNCHANGED <<crossing, incidents, open, upto, spc>>
    BY <1>5 DEF Park, Discard, streamVars
  <2> QED  BY <2>1, <2>2 DEF StreamTypes
<1>6. CASE MonitorDrain
  <2>1. BatchEnd(mon) \in mon .. Len(stream)  BY BatchEndFacts DEF StreamTypes
  <2>2. mon' \in 0 .. Len(stream) /\ upto' \in 0 .. Len(stream)
    BY <1>6, <2>1 DEF StreamTypes, MonitorDrain, Discard
  <2> QED  BY <1>6, <2>2 DEF StreamTypes, MonitorDrain, streamVars, linkVars, jumpVars, verdictVars
<1>7. CASE PushSample
  BY <1>7 DEF StreamTypes, PushSample, BreakObservationContinuity, DetectWfdRebase,
     DetectDiscontinuity, streamVars, linkVars, jumpVars, verdictVars
<1>8. CASE ApplyDelta
  BY <1>8 DEF StreamTypes, ApplyDelta, streamVars, linkVars, jumpVars, verdictVars
<1>9. CASE MonitorDone
  BY <1>9 DEF StreamTypes, MonitorDone, ResetJumps, streamVars, linkVars, jumpVars, verdictVars
<1>10. CASE Ripen
  BY <1>10 DEF StreamTypes, Ripen, streamVars, linkVars, jumpVars, verdictVars
<1>11. CASE DropCandidate
  BY <1>11 DEF StreamTypes, DropCandidate, streamVars, linkVars, jumpVars, verdictVars
<1>12. CASE Confirm
  BY <1>12 DEF StreamTypes, Confirm, streamVars, linkVars, jumpVars, verdictVars
<1>13. CASE RefuseDelta
  BY <1>13 DEF StreamTypes, RefuseDelta, streamVars, linkVars, jumpVars, verdictVars, Incident
<1>14. CASE SpaceClosed
  BY <1>14 DEF StreamTypes, SpaceClosed, NoVerdict, streamVars, linkVars, jumpVars, verdictVars
<1>15. CASE SpaceDrain
  <2>1. BatchEnd(spc) \in spc .. Len(stream)  BY BatchEndFacts DEF StreamTypes
  <2>2. spc' \in 0 .. Len(stream)  BY <1>15, <2>1 DEF StreamTypes, SpaceDrain
  <2> QED  BY <1>15, <2>2 DEF StreamTypes, SpaceDrain, streamVars, linkVars, jumpVars, verdictVars
<1>16. CASE JudgeClear
  BY <1>16 DEF StreamTypes, JudgeClear, RoomTick, NoVerdict, streamVars, linkVars, jumpVars,
     verdictVars
<1>17. CASE JudgeStale
  BY <1>17 DEF StreamTypes, JudgeStale, RoomTick, streamVars, linkVars, jumpVars, verdictVars
<1>18. CASE JudgeBind
  BY <1>18 DEF StreamTypes, JudgeBind, RoomTick, NoVerdict, streamVars, linkVars, jumpVars,
     verdictVars
<1>19. CASE Judge
  BY <1>19 DEF StreamTypes, Judge, RoomTick, NoVerdict, streamVars, linkVars, jumpVars, verdictVars
<1>20. CASE Capture
  BY <1>20 DEF StreamTypes, Capture, streamVars, linkVars, jumpVars, verdictVars, Incident
<1>21. CASE CaptureFails
  BY <1>21 DEF StreamTypes, CaptureFails, streamVars, linkVars, jumpVars, verdictVars, Incident
<1>22. CASE StartRun
  BY <1>22 DEF StreamTypes, StartRun, streamVars, linkVars, jumpVars, verdictVars, Incident
<1>23. CASE FinishRun
  BY <1>23 DEF StreamTypes, FinishRun, streamVars, linkVars, jumpVars, verdictVars
<1>24. CASE EndRun
  BY <1>24 DEF StreamTypes, EndRun, streamVars, linkVars, jumpVars, verdictVars
<1> QED
  BY <1>1, <1>2, <1>3, <1>4, <1>5, <1>6, <1>7, <1>8, <1>9, <1>10, <1>11, <1>12, <1>13, <1>14,
     <1>15, <1>16, <1>17, <1>18, <1>19, <1>20, <1>21, <1>22, <1>23, <1>24 DEF Quiet

LEMMA QuietJumpTypes ==
  ASSUME TypeOK, JumpInv, Quiet
  PROVE  JumpTypes'
<1>0. /\ Len(stream) \in Nat /\ mon \in Nat /\ watch \in [first : Nat, last : Nat]
      /\ cands \subseteq Candidates /\ lastAccept \in Nat /\ deltas \in Seq(Deltas)
      /\ deltas # <<>> => Tail(deltas) \in Seq(Deltas)
  BY DEF TypeOK, StreamTypes, JumpTypes
<1>a. UNCHANGED jumpVars => JumpTypes'  BY <1>0 DEF jumpVars, JumpTypes
<1>b. ResetJumps => JumpTypes'  BY DEF ResetJumps, JumpTypes, Nowhere
<1>1. CASE SessionBoundary
  BY <1>a, <1>1 DEF SessionBoundary, jumpVars
<1>2. CASE Reopen
  BY <1>a, <1>2 DEF Reopen, jumpVars
<1>3. CASE Recovered
  BY <1>a, <1>3 DEF Recovered, jumpVars
<1>4. CASE GraceOver
  BY <1>a, <1>4 DEF GraceOver, jumpVars
<1>5. CASE Park  BY <1>a, <1>b, <1>5 DEF Park
<1>6. CASE MonitorDrain
  <2>1. UNCHANGED jumpVars \/ ResetJumps \/ NoteStreamHole  BY <1>6 DEF MonitorDrain
  <2>2. NoteStreamHole => JumpTypes'  BY <1>0 DEF NoteStreamHole, JumpTypes, Nowhere
  <2> QED  BY <1>a, <1>b, <2>1, <2>2
<1>7. CASE PushSample
  <2> DEFINE n == mon + 1
             s == stream[n]
             p == stream[watch.last]
             near == watch.last # 0 /\ s.kind = "good"
  <2>1. n \in 1 .. Len(stream) /\ s \in Samples
    BY <1>7 DEF PushSample, TypeOK, StreamTypes
  <2>2. near => p.w \in Int /\ s.w - p.w \in Int
    <3> SUFFICES ASSUME watch.last # 0 PROVE p.w \in Int /\ s.w - p.w \in Int  OBVIOUS
    <3>1. watch.last \in 1 .. Len(stream)
      BY <1>0, <2>1 DEF JumpInv, WatchInv, TypeOK, StreamTypes
    <3>2. p \in Samples  BY <3>1 DEF TypeOK, StreamTypes
    <3>3. p.w \in Int /\ s.w \in Int  BY <2>1, <3>2 DEF Samples
    <3> QED  BY <3>3
  <2>3. \/ UNCHANGED jumpVars
        \/ BreakObservationContinuity
        \/ near /\ DetectWfdRebase(n)
        \/ /\ watch' = [first |-> IF watch.last = 0 THEN n ELSE watch.first, last |-> n]
           /\ DetectDiscontinuity(n, near)
           /\ UNCHANGED <<lastAccept, deltas>>
    BY <1>7 DEF PushSample
  <2> HIDE DEF near
  <2>4. CASE BreakObservationContinuity
    BY <1>0, <2>4 DEF BreakObservationContinuity, JumpTypes, Nowhere
  <2>5. CASE near /\ DetectWfdRebase(n)
    <3>1. [n |-> n, exact |-> TRUE, prev |-> p.w, d |-> s.w - p.w] \in Deltas
      BY <2>1, <2>2, <2>5 DEF Deltas
    <3> HIDE DEF p, s
    <3>2. deltas' = Append(deltas, [n |-> n, exact |-> TRUE, prev |-> p.w, d |-> s.w - p.w])
      BY <2>5 DEF DetectWfdRebase, p, s
    <3>3. deltas' \in Seq(Deltas)  BY <1>0, <3>1, <3>2
    <3> QED  BY <2>1, <2>5, <3>3 DEF DetectWfdRebase, JumpTypes
  <2>6. CASE /\ watch' = [first |-> IF watch.last = 0 THEN n ELSE watch.first, last |-> n]
             /\ DetectDiscontinuity(n, near)
             /\ UNCHANGED <<lastAccept, deltas>>
    <3>1. watch' \in [first : Nat, last : Nat]  BY <1>0, <2>1, <2>6
    <3>2. cands' \subseteq Candidates
      <4>1. CASE UNCHANGED cands  BY <1>0, <4>1
      <4>2. CASE ~UNCHANGED cands
        <5>1. PICK from \in watch.first .. watch.last :
                cands' = cands \cup {[n |-> n, from |-> from, ready |-> FALSE]}
          BY <2>6, <4>2 DEF DetectDiscontinuity
        <5>2. [n |-> n, from |-> from, ready |-> FALSE] \in Candidates
          BY <1>0, <2>1 DEF Candidates
        <5> QED  BY <1>0, <5>1, <5>2
      <4> QED  BY <4>1, <4>2
    <3> QED  BY <1>0, <2>6, <3>1, <3>2 DEF JumpTypes
  <2> QED  BY <1>a, <2>3, <2>4, <2>5, <2>6
<1>8. CASE ApplyDelta
  BY <1>0, <1>8 DEF ApplyDelta, JumpTypes
<1>9. CASE MonitorDone  BY <1>a, <1>b, <1>9 DEF MonitorDone
<1>10. CASE Ripen
  BY <1>0, <1>10 DEF Ripen, JumpTypes, Candidates
<1>11. CASE DropCandidate
  BY <1>0, <1>11 DEF DropCandidate, JumpTypes, Candidates
<1>12. CASE Confirm
  <2>1. PICK c \in cands :
          /\ deltas' = Append(deltas, [n |-> c.n, exact |-> FALSE, prev |-> stream[c.n - 1].w,
                                      d |-> stream[c.n].u - stream[c.n - 1].u])
          /\ lastAccept' = c.n
          /\ cands' = {o \in cands : o.n > c.n}
    BY <1>12 DEF Confirm
  <2>2. StepAt(c.n)  BY DEF JumpInv, StepsInv, CandOK
  <2>3. stream[c.n] \in Samples /\ stream[c.n - 1] \in Samples /\ c.n \in Nat
    BY <1>0, <2>2 DEF StepAt, TypeOK, StreamTypes
  <2>4. stream[c.n - 1].w \in Int /\ stream[c.n].u - stream[c.n - 1].u \in Int
    BY <2>3 DEF Samples
  <2> DEFINE d == [n |-> c.n, exact |-> FALSE, prev |-> stream[c.n - 1].w,
                   d |-> stream[c.n].u - stream[c.n - 1].u]
  <2>5. d \in Deltas /\ deltas' = Append(deltas, d)  BY <2>1, <2>3, <2>4 DEF Deltas
  <2> HIDE DEF d
  <2>6. deltas' \in Seq(Deltas)  BY <1>0, <2>5
  <2> QED  BY <1>0, <1>12, <2>1, <2>3, <2>6 DEF Confirm, JumpTypes
<1>13. CASE RefuseDelta
  BY <1>0, <1>13 DEF RefuseDelta, JumpTypes
<1>14. CASE SpaceClosed
  BY <1>a, <1>14 DEF SpaceClosed, NoVerdict, jumpVars
<1>15. CASE SpaceDrain
  BY <1>a, <1>15 DEF SpaceDrain, jumpVars
<1>16. CASE JudgeClear
  BY <1>a, <1>16 DEF JudgeClear, RoomTick, NoVerdict, jumpVars
<1>17. CASE JudgeStale
  BY <1>a, <1>17 DEF JudgeStale, RoomTick, jumpVars
<1>18. CASE JudgeBind
  BY <1>a, <1>18 DEF JudgeBind, RoomTick, NoVerdict, jumpVars
<1>19. CASE Judge
  BY <1>a, <1>19 DEF Judge, RoomTick, NoVerdict, jumpVars
<1>20. CASE Capture
  BY <1>a, <1>20 DEF Capture, jumpVars
<1>21. CASE CaptureFails
  BY <1>a, <1>21 DEF CaptureFails, jumpVars
<1>22. CASE StartRun
  BY <1>a, <1>22 DEF StartRun, jumpVars
<1>23. CASE FinishRun
  BY <1>a, <1>23 DEF FinishRun, jumpVars
<1>24. CASE EndRun
  BY <1>a, <1>24 DEF EndRun, jumpVars
<1> QED
  BY <1>1, <1>2, <1>3, <1>4, <1>5, <1>6, <1>7, <1>8, <1>9, <1>10, <1>11, <1>12, <1>13, <1>14,
     <1>15, <1>16, <1>17, <1>18, <1>19, <1>20, <1>21, <1>22, <1>23, <1>24 DEF Quiet

-----------------------------------------------------------------------------
(* What becomes of the room at the end of a tick.                          *)

RoomEnd(r) == Along(Reanchor, [w |-> r.w, at |-> r.at, lost |-> FALSE], seen)

\* Its place and its world stay, unless there is no profile: then it is disarmed or
\* takes what its own walk came to.
LEMMA RoomAfterCases ==
  ASSUME NEW r \in Rooms, room \in Rooms, seen \in Seq(Transitions), NEW q \in RoomAfter(r)
  PROVE  /\ q \in Rooms
         /\ \/ q.valid = r.valid /\ q.w = r.w /\ q.at = r.at /\ q.leapt = r.leapt
            \/ ~profile.has /\ ~q.valid
            \/ /\ ~profile.has /\ r.valid /\ q.leapt = r.leapt
               /\ q.w = RoomEnd(r).w /\ q.at = RoomEnd(r).at
<1>1. /\ r.w \in Int /\ r.at \in Int /\ r.auto \in BOOLEAN /\ r.valid \in BOOLEAN
      /\ r.ver \in BOOLEAN /\ r.leapt \in BOOLEAN
  BY DEF Rooms
<1>2. RoomEnd(r) \in RoomWalks
  <2> DEFINE R == Int \X Int
             end == RoomEnd(r)
  <2>1. <<r.w, r.at>> \in R  BY <1>1
  <2>2. \A k \in 1 .. Len(seen), a \in Int : <<seen[k].from, a>> \in R =>
          /\ seen[k].composed => <<seen[k].to, a>> \in R
          /\ seen[k].local => <<seen[k].to, a + seen[k].to - seen[k].from>> \in R
    <3> SUFFICES ASSUME NEW k \in 1 .. Len(seen), NEW a \in Int
                 PROVE  <<seen[k].to, a>> \in R /\ <<seen[k].to, a + seen[k].to - seen[k].from>> \in R
      OBVIOUS
    <3>1. seen[k] \in Transitions  OBVIOUS
    <3>2. seen[k].to \in Int /\ seen[k].from \in Int  BY <3>1 DEF Transitions
    <3> QED  BY <3>2
  <2>3. end = Along(Reanchor, [w |-> r.w, at |-> r.at, lost |-> FALSE], seen)  BY DEF RoomEnd
  <2> HIDE DEF R, end
  <2>4. end \in RoomWalks  BY ONLY <1>1, <2>1, <2>2, <2>3, seen \in Seq(Transitions), ReanchorFacts
  <2> QED  BY <2>4 DEF end
<1>3. RoomAfter(r) =
        IF ~r.valid \/ ~Fresh THEN {r}
        ELSE IF r.w = Observed THEN {[r EXCEPT !.ver = TRUE]}
        ELSE IF profile.has THEN {[r EXCEPT !.ver = FALSE, !.auto = @ /\ Pending']}
        ELSE IF RoomEnd(r).lost \/ RoomEnd(r).w # Observed THEN {Disarmed}
        ELSE {[r EXCEPT !.w = RoomEnd(r).w, !.at = RoomEnd(r).at, !.ver = saved,
                        !.auto = @ /\ saved] : saved \in BOOLEAN}
  BY DEF RoomAfter, RoomEnd
<1>4. CASE ~r.valid \/ ~Fresh  BY <1>3, <1>4
<1>5. CASE ~(~r.valid \/ ~Fresh) /\ r.w = Observed
  <2>1. q = [r EXCEPT !.ver = TRUE]  BY <1>3, <1>5
  <2> QED  BY <2>1 DEF Rooms
<1>6. CASE ~(~r.valid \/ ~Fresh) /\ r.w # Observed /\ profile.has
  <2>1. q = [r EXCEPT !.ver = FALSE, !.auto = @ /\ Pending']  BY <1>3, <1>6
  <2>2. (r.auto /\ Pending') \in BOOLEAN  OBVIOUS
  <2> QED  BY <2>1, <2>2 DEF Rooms
<1>7. CASE /\ ~(~r.valid \/ ~Fresh) /\ r.w # Observed /\ ~profile.has
           /\ RoomEnd(r).lost \/ RoomEnd(r).w # Observed
  <2>1. q = Disarmed  BY <1>3, <1>7
  <2> QED  BY <1>7, <2>1 DEF Rooms, Disarmed
<1>8. CASE /\ ~(~r.valid \/ ~Fresh) /\ r.w # Observed /\ ~profile.has
           /\ ~(RoomEnd(r).lost \/ RoomEnd(r).w # Observed)
  <2>1. PICK saved \in BOOLEAN :
          q = [r EXCEPT !.w = RoomEnd(r).w, !.at = RoomEnd(r).at, !.ver = saved,
                        !.auto = @ /\ saved]
    BY <1>3, <1>8
  <2>2. (r.auto /\ saved) \in BOOLEAN /\ RoomEnd(r).w \in Int /\ RoomEnd(r).at \in Int
    BY <1>2 DEF RoomWalks
  <2> QED  BY <1>8, <2>1, <2>2 DEF Rooms
<1> QED  BY <1>4, <1>5, <1>6, <1>7, <1>8

-----------------------------------------------------------------------------
(* Types, the rest.                                                        *)

LEMMA QuietVerdictTypes ==
  ASSUME TypeOK, SpaceInv, Quiet
  PROVE  VerdictTypes'
<1>0. UNCHANGED stream  BY QuietStream
<1>a. /\ VerdictTypes /\ StreamTypes /\ ProfileTypes /\ Len(stream) \in Nat
      /\ trans \in Seq(Transitions) /\ comped \subseteq Nat
  BY DEF TypeOK, StreamTypes, VerdictTypes
<1>b. NoVerdict => /\ trans' \in Seq(Transitions) /\ comped' \subseteq Nat /\ waiting' \in BOOLEAN
                   /\ grace' \in [at : {"off", "running", "over"}, from : Int]
  <2>1. [at |-> "off", from |-> 0] \in [at : {"off", "running", "over"}, from : Int]  OBVIOUS
  <2>2. <<>> \in Seq(Transitions)  OBVIOUS
  <2> QED  BY <2>1, <2>2 DEF NoVerdict
<1>c. UNCHANGED hmd => hmd' \in Endpoints /\ Placed(hmd)'
  BY <1>0, <1>a DEF VerdictTypes, Placed
<1>1. CASE SessionBoundary
  BY <1>a, <1>b, <1>c, <1>1 DEF VerdictTypes, SessionBoundary, verdictVars
<1>2. CASE Reopen
  BY <1>a, <1>b, <1>c, <1>2 DEF VerdictTypes, Reopen, verdictVars
<1>3. CASE Recovered
  BY <1>a, <1>b, <1>c, <1>3 DEF VerdictTypes, Recovered, verdictVars
<1>4. CASE GraceOver
  BY <1>a, <1>c, <1>4 DEF VerdictTypes, GraceOver
<1>5. CASE Park
  BY <1>a, <1>b, <1>c, <1>5 DEF VerdictTypes, Park, Discard, ResetJumps, verdictVars
<1>6. CASE MonitorDrain
  BY <1>a, <1>b, <1>c, <1>6 DEF VerdictTypes, MonitorDrain, Discard, ResetJumps, NoteStreamHole,
     verdictVars
<1>7. CASE PushSample
  BY <1>a, <1>b, <1>c, <1>7 DEF VerdictTypes, PushSample, BreakObservationContinuity,
     DetectWfdRebase, DetectDiscontinuity, verdictVars
<1>8. CASE ApplyDelta
  <2>1. Head(deltas).n \in Nat
    <3>1. deltas \in Seq(Deltas) /\ deltas # <<>>
      BY <1>8 DEF ApplyDelta, TypeOK, JumpTypes
    <3>2. Head(deltas) \in Deltas  BY <3>1
    <3> QED  BY <3>2 DEF Deltas
  <2> QED  BY <1>a, <1>c, <1>8, <2>1 DEF VerdictTypes, ApplyDelta
<1>9. CASE MonitorDone
  BY <1>a, <1>b, <1>c, <1>9 DEF VerdictTypes, MonitorDone, ResetJumps, verdictVars
<1>10. CASE Ripen
  BY <1>a, <1>b, <1>c, <1>10 DEF VerdictTypes, Ripen, verdictVars
<1>11. CASE DropCandidate
  BY <1>a, <1>b, <1>c, <1>11 DEF VerdictTypes, DropCandidate, verdictVars
<1>12. CASE Confirm
  BY <1>a, <1>b, <1>c, <1>12 DEF VerdictTypes, Confirm, verdictVars
<1>13. CASE RefuseDelta
  BY <1>a, <1>b, <1>c, <1>13 DEF VerdictTypes, RefuseDelta, verdictVars
<1>14. CASE SpaceClosed
  BY <1>b, <1>14 DEF VerdictTypes, SpaceClosed, Endpoints, Placed
<1>15. CASE SpaceDrain
  <2>1. Cached \in Caches /\ CachedBy(Cached, BatchEnd(spc))
    <3>1. StreamTypes /\ hmd \in Endpoints /\ Placed(hmd) /\ HmdAt(hmd, spc)
      BY <1>a DEF VerdictTypes, SpaceInv
    <3>2. room.ver \in BOOLEAN  BY <1>a DEF ProfileTypes, Rooms
    <3> QED  BY <3>1, <3>2, CachedFacts
  <2>2. BatchEnd(spc) \in 0 .. Len(stream)
    <3>1. spc \in 0 .. Len(stream)  BY <1>a DEF StreamTypes
    <3>2. BatchEnd(spc) \in spc .. Len(stream)  BY <1>a, <3>1, BatchEndFacts
    <3> QED  BY <1>a, <3>1, <3>2
  <2>3. Cached.hmd \in Endpoints /\ Placed(Cached.hmd) /\ Cached.seen \in Seq(Transitions)
    BY <1>a, <2>1, <2>2 DEF Caches, CachedBy, HmdAt, Placed
  <2>4. trans \o Cached.seen \in Seq(Transitions)  BY <1>a, <2>3
  <2>5. /\ hmd' = Cached.hmd /\ seen' = Cached.seen /\ trans' = trans \o Cached.seen
        /\ UNCHANGED <<comped, grace, waiting>>
    BY <1>15 DEF SpaceDrain
  <2>6. Placed(hmd)'  BY <1>0, <2>3, <2>5 DEF Placed
  <2> QED  BY <1>a, <2>3, <2>4, <2>5, <2>6 DEF VerdictTypes
<1>16. CASE JudgeClear
  BY <1>a, <1>b, <1>c, <1>16 DEF VerdictTypes, JudgeClear, RoomTick, NoVerdict, verdictVars
<1>17. CASE JudgeStale
  BY <1>a, <1>b, <1>c, <1>17 DEF VerdictTypes, JudgeStale, RoomTick, verdictVars
<1>18. CASE JudgeBind
  BY <1>a, <1>b, <1>c, <1>18 DEF VerdictTypes, JudgeBind, RoomTick, NoVerdict, verdictVars
<1>19. CASE Judge
  <2> DEFINE walk == Walk(profile.w, trans)
  <2>1. walk \in Walks
    <3>1. profile.w \in Int  BY <1>a DEF ProfileTypes, Profiles
    <3> DEFINE R == Int
    <3>2. \A k \in 1 .. Len(trans) : trans[k].to \in R
      <4>1. \A k \in 1 .. Len(trans) : trans[k] \in Transitions  BY <1>a
      <4> QED  BY <4>1 DEF Transitions
    <3> HIDE DEF R
    <3>3. profile.w \in R  BY <3>1 DEF R
    <3> QED  BY <1>a, <3>1, <3>2, <3>3, WalkFacts
  <2>2. walk.ref \in Int /\ walk.wait \in BOOLEAN /\ walk.kept \in Seq(Transitions)
    BY <2>1 DEF Walks
  <2> DEFINE timed == grace.at # "off" /\ grace.from = walk.ref
  <2>3. \/ NoVerdict
        \/ /\ trans' = walk.kept /\ waiting' = walk.wait /\ UNCHANGED comped
           /\ grace' = IF walk.wait THEN [at |-> "off", from |-> 0]
                       ELSE IF timed THEN grace ELSE [at |-> "running", from |-> walk.ref]
    BY <1>19 DEF Judge
  <2>4. seen' = <<>> /\ UNCHANGED hmd  BY <1>19 DEF Judge, RoomTick
  <2> HIDE DEF walk, timed
  <2>5. grace \in [at : {"off", "running", "over"}, from : Int]  BY <1>a DEF VerdictTypes
  <2>6. /\ trans' \in Seq(Transitions) /\ comped' \subseteq Nat /\ waiting' \in BOOLEAN
        /\ grace' \in [at : {"off", "running", "over"}, from : Int]
    <3>1. CASE NoVerdict  BY <1>b, <3>1
    <3>2. CASE ~NoVerdict
      <4>1. /\ trans' = walk.kept /\ waiting' = walk.wait /\ UNCHANGED comped
            /\ \/ grace' = [at |-> "off", from |-> 0] \/ grace' = grace
               \/ grace' = [at |-> "running", from |-> walk.ref]
        BY <2>3, <3>2
      <4>2. grace' \in [at : {"off", "running", "over"}, from : Int]  BY <2>2, <2>5, <4>1
      <4> QED  BY <1>a, <2>2, <4>1, <4>2
    <3> QED  BY <3>1, <3>2
  <2> QED  BY <1>c, <2>4, <2>6 DEF VerdictTypes
<1>20. CASE Capture
  BY <1>a, <1>b, <1>c, <1>20 DEF VerdictTypes, Capture, verdictVars
<1>21. CASE CaptureFails
  BY <1>a, <1>b, <1>c, <1>21 DEF VerdictTypes, CaptureFails, verdictVars
<1>22. CASE StartRun
  BY <1>a, <1>b, <1>c, <1>22 DEF VerdictTypes, StartRun, verdictVars
<1>23. CASE FinishRun
  BY <1>a, <1>b, <1>c, <1>23 DEF VerdictTypes, FinishRun, verdictVars
<1>24. CASE EndRun
  BY <1>a, <1>b, <1>c, <1>24 DEF VerdictTypes, EndRun, verdictVars
<1> QED
  BY <1>1, <1>2, <1>3, <1>4, <1>5, <1>6, <1>7, <1>8, <1>9, <1>10, <1>11, <1>12, <1>13, <1>14,
     <1>15, <1>16, <1>17, <1>18, <1>19, <1>20, <1>21, <1>22, <1>23, <1>24 DEF Quiet

LEMMA QuietProfileTypes ==
  ASSUME TypeOK, JumpInv, SpaceInv, Quiet
  PROVE  ProfileTypes'
<1>0. UNCHANGED stream  BY QuietStream
<1>a. /\ run \in [at : 0 .. Len(stream), ticked : BOOLEAN] /\ missed \in BOOLEAN
      /\ profile \in Profiles /\ room \in Rooms /\ Len(stream) \in Nat
      /\ seen \in Seq(Transitions)
  BY DEF TypeOK, StreamTypes, VerdictTypes, ProfileTypes
<1>b. UNCHANGED stream /\ (run' \in [at : 0 .. Len(stream), ticked : BOOLEAN])
        /\ missed' \in BOOLEAN /\ profile' \in Profiles /\ room' \in Rooms => ProfileTypes'
  BY DEF ProfileTypes
<1>c. ASSUME NEW r \in Rooms, RoomTick(r)
      PROVE  room' \in Rooms /\ UNCHANGED <<run, missed>>
  <2>1. room' \in RoomAfter(r)  BY <1>c DEF RoomTick
  <2>2. room' \in Rooms
    <3>1. PICK q \in RoomAfter(r) : q = room'  BY <2>1
    <3>2. q \in Rooms  BY <1>a, RoomAfterCases
    <3> QED  BY <3>1, <3>2
  <2> QED  BY <1>c, <2>2 DEF RoomTick
<1>d. hmd.state = "usable" => stream[hmd.n] \in Samples /\ Observed \in Int
  <2> SUFFICES ASSUME hmd.state = "usable" PROVE stream[hmd.n] \in Samples /\ Observed \in Int
    OBVIOUS
  <2>1. hmd.n \in 1 .. Len(stream)  BY DEF TypeOK, VerdictTypes, Placed
  <2>2. stream[hmd.n] \in Samples  BY <2>1 DEF TypeOK, StreamTypes
  <2> QED  BY <2>2 DEF Observed, Samples
<1>1. CASE SessionBoundary
  BY <1>0, <1>a, <1>b, <1>1 DEF SessionBoundary
<1>2. CASE Reopen
  BY <1>0, <1>a, <1>b, <1>2 DEF Reopen
<1>3. CASE Recovered
  BY <1>0, <1>a, <1>b, <1>3 DEF Recovered
<1>4. CASE GraceOver
  BY <1>0, <1>a, <1>b, <1>4 DEF GraceOver
<1>5. CASE Park
  <2>1. run' \in [at : 0 .. Len(stream), ticked : BOOLEAN]
    <3>1. run' = [run EXCEPT !.ticked = Running] /\ Running \in BOOLEAN
      BY <1>5 DEF Park, Running
    <3> QED  BY <1>a, <3>1
  <2>2. missed' \in BOOLEAN  BY <1>a, <1>5, Zenon DEF Park, Discard
  <2>3. UNCHANGED <<profile, room>>  BY <1>5 DEF Park
  <2> QED  BY <1>0, <1>a, <1>b, <2>1, <2>2, <2>3
<1>6. CASE MonitorDrain
  <2>1. missed' \in BOOLEAN  BY <1>a, <1>6, Zenon DEF MonitorDrain, Discard
  <2>2. UNCHANGED <<run, profile, room>>  BY <1>6 DEF MonitorDrain
  <2> QED  BY <1>0, <1>a, <1>b, <2>1, <2>2
<1>7. CASE PushSample
  BY <1>0, <1>a, <1>b, <1>7 DEF PushSample
<1>8. CASE ApplyDelta
  <2> DEFINE d == Head(deltas)
             to == stream[d.n].w
  <2>1. d \in Deltas /\ d.d \in Int /\ d.exact \in BOOLEAN
    <3>1. deltas \in Seq(Deltas) /\ deltas # <<>>
      BY <1>8 DEF ApplyDelta, TypeOK, JumpTypes
    <3>2. d \in Deltas  BY <3>1
    <3> QED  BY <3>2 DEF Deltas
  <2>2. to \in Int
    <3>1. deltas \in Seq(Deltas) /\ deltas # <<>>
      BY <1>8 DEF ApplyDelta, TypeOK, JumpTypes
    <3>2. DeltaOK(d)
      <4>1. Len(deltas) \in Nat /\ 1 \in 1 .. Len(deltas) /\ deltas[1] = d /\ d \in Deltas
        BY <3>1
      <4> QED  BY <4>1 DEF JumpInv, StepsInv
    <3>3. stream[d.n] \in Samples  BY <1>a, <3>2 DEF DeltaOK, StepAt, TypeOK, StreamTypes
    <3> QED  BY <3>3 DEF Samples
  <2>3. /\ profile' = [profile EXCEPT !.cal = @ + d.d,
                                   !.w = IF ExactDeltaRebasesProfile(d) THEN to ELSE @]
        /\ room' = IF ~room.valid THEN room
                   ELSE IF d.exact
                     THEN [room EXCEPT !.at = @ + d.d, !.w = to, !.ver = TRUE,
                                       !.leapt = @ \/ room.w # d.prev]
                   ELSE [room EXCEPT !.at = @ + d.d]
        /\ UNCHANGED <<run, missed>>
    BY <1>8 DEF ApplyDelta
  <2> HIDE DEF d, to
  <2>4. profile.cal + d.d \in Int /\ room.at + d.d \in Int
    BY <1>a, <2>1 DEF Profiles, Rooms
  <2>5. (room.leapt \/ room.w # d.prev) \in BOOLEAN  OBVIOUS
  <2>6. profile' \in Profiles  BY <1>a, <2>2, <2>3, <2>4 DEF Profiles
  <2>7. room' \in Rooms  BY <1>a, <2>2, <2>3, <2>4, <2>5 DEF Rooms
  <2> QED  BY <1>0, <1>a, <1>b, <2>3, <2>6, <2>7
<1>9. CASE MonitorDone
  <2>1. run' \in [at : 0 .. Len(stream), ticked : BOOLEAN]
    <3>1. run' = [run EXCEPT !.ticked = Running] /\ Running \in BOOLEAN
      BY <1>9 DEF MonitorDone, Running
    <3> QED  BY <1>a, <3>1
  <2>2. missed' \in BOOLEAN  BY <1>a, <1>9, Zenon DEF MonitorDone, Discard
  <2>3. UNCHANGED <<profile, room>>  BY <1>9 DEF MonitorDone
  <2> QED  BY <1>0, <1>a, <1>b, <2>1, <2>2, <2>3
<1>10. CASE Ripen
  BY <1>0, <1>a, <1>b, <1>10 DEF Ripen
<1>11. CASE DropCandidate
  BY <1>0, <1>a, <1>b, <1>11 DEF DropCandidate
<1>12. CASE Confirm
  BY <1>0, <1>a, <1>b, <1>12 DEF Confirm
<1>13. CASE RefuseDelta
  BY <1>0, <1>a, <1>b, <1>13 DEF RefuseDelta
<1>14. CASE SpaceClosed
  <2>1. room' \in Rooms  BY <1>a, <1>14 DEF SpaceClosed, Rooms
  <2> QED  BY <1>0, <1>a, <1>b, <1>14, <2>1 DEF SpaceClosed
<1>15. CASE SpaceDrain
  <2>1. (Cached.ver /\ Cached.hmd.state = "usable") \in BOOLEAN
    <3>1. Cached \in Caches
      <4>1. StreamTypes /\ hmd \in Endpoints /\ Placed(hmd) /\ HmdAt(hmd, spc)
        BY DEF TypeOK, VerdictTypes, SpaceInv
      <4>2. room.ver \in BOOLEAN  BY <1>a DEF Rooms
      <4> QED  BY <4>1, <4>2, CachedFacts
    <3> QED  BY <3>1, Zenon DEF Caches
  <2>2. room' = [room EXCEPT !.ver = Cached.ver /\ Cached.hmd.state = "usable"]
        /\ UNCHANGED <<run, profile, missed>>
    BY <1>15 DEF SpaceDrain
  <2>3. room' \in Rooms  BY <1>a, <2>1, <2>2 DEF Rooms
  <2> QED  BY <1>0, <1>a, <1>b, <2>2, <2>3
<1>16. CASE JudgeClear
  <2>1. UNCHANGED profile /\ RoomTick(room)  BY <1>16 DEF JudgeClear
  <2>2. room' \in Rooms /\ UNCHANGED <<run, missed>>  BY <1>a, <1>c, <2>1
  <2> QED  BY <1>0, <1>a, <1>b, <2>1, <2>2
<1>17. CASE JudgeStale
  <2>1. UNCHANGED profile /\ RoomTick(room)  BY <1>17 DEF JudgeStale
  <2>2. room' \in Rooms /\ UNCHANGED <<run, missed>>  BY <1>a, <1>c, <2>1
  <2> QED  BY <1>0, <1>a, <1>b, <2>1, <2>2
<1>18. CASE JudgeBind
  <2>1. Observed \in Int  BY <1>d, <1>18 DEF JudgeBind, Fresh
  <2>2. profile' = [profile EXCEPT !.bound = TRUE, !.w = IF room.valid THEN room.w ELSE Observed,
                                !.from = IF ~room.valid THEN "own"
                                         ELSE IF room.leapt THEN "leapt" ELSE "room"]
    BY <1>18 DEF JudgeBind
  <2>3. profile' \in Profiles  BY <1>a, <2>1, <2>2 DEF Profiles, Rooms
  <2>4. RoomTick(room) \/ UNCHANGED <<run, room, missed>>  BY <1>18 DEF JudgeBind
  <2>5. room' \in Rooms /\ UNCHANGED <<run, missed>>  BY <1>a, <1>c, <2>4
  <2> QED  BY <1>0, <1>a, <1>b, <2>3, <2>5
<1>19. CASE Judge
  <2> DEFINE walk == Walk(profile.w, trans)
             matched == walk.ref = Observed
             adopted == walk.ref # profile.w
             timed == grace.at # "off" /\ grace.from = walk.ref
             expired == ~matched /\ ~walk.wait /\ timed /\ grace.at = "over"
             carried == IF adopted /\ room.valid
                        THEN [room EXCEPT !.w = walk.ref, !.ver = TRUE] ELSE room
  <2>1. walk.ref \in Int
    <3>1. profile.w \in Int /\ trans \in Seq(Transitions)
      BY <1>a DEF Profiles, TypeOK, VerdictTypes
    <3> DEFINE R == Int
    <3>2. \A k \in 1 .. Len(trans) : trans[k].to \in R
      <4>1. \A k \in 1 .. Len(trans) : trans[k] \in Transitions  BY <3>1
      <4> QED  BY <4>1 DEF Transitions
    <3> HIDE DEF R
    <3>3. profile.w \in R  BY <3>1 DEF R
    <3>4. walk \in Walks  BY <3>1, <3>2, <3>3, WalkFacts
    <3> QED  BY <3>4 DEF Walks
  <2>2. /\ profile' = [profile EXCEPT !.w = walk.ref, !.unsafe = expired]
        /\ RoomTick(IF matched THEN carried
                    ELSE IF expired THEN [carried EXCEPT !.auto = FALSE, !.ver = FALSE]
                    ELSE [carried EXCEPT !.ver = FALSE])
    BY <1>19 DEF Judge
  <2>3. expired \in BOOLEAN  OBVIOUS
  <2> HIDE DEF walk, expired
  <2>4. profile' \in Profiles  BY <1>a, <2>1, <2>2, <2>3 DEF Profiles
  <2>5. carried \in Rooms  BY <1>a, <2>1 DEF Rooms
  <2> HIDE DEF carried, matched
  <2>6. /\ [carried EXCEPT !.auto = FALSE, !.ver = FALSE] \in Rooms
        /\ [carried EXCEPT !.ver = FALSE] \in Rooms
    BY <2>5 DEF Rooms
  <2>7. room' \in Rooms /\ UNCHANGED <<run, missed>>  BY <1>c, <2>2, <2>5, <2>6
  <2> QED  BY <1>0, <1>a, <1>b, <2>4, <2>7
<1>20. CASE Capture
  <2>1. Observed \in Int /\ stream[hmd.n].u \in Int
    BY <1>d, <1>20 DEF Capture, Fresh, Samples
  <2>2. PICK saved \in BOOLEAN :
          room' = [valid |-> TRUE, auto |-> saved, ver |-> saved, w |-> Observed,
                   at |-> stream[hmd.n].u, leapt |-> FALSE]
    BY <1>20 DEF Capture
  <2>3. room' \in Rooms  BY <2>1, <2>2 DEF Rooms
  <2> QED  BY <1>0, <1>a, <1>b, <1>20, <2>3 DEF Capture
<1>21. CASE CaptureFails
  <2>1. room' \in Rooms  BY <1>a, <1>21 DEF CaptureFails, Rooms
  <2> QED  BY <1>0, <1>a, <1>b, <1>21, <2>1 DEF CaptureFails
<1>22. CASE StartRun
  <2>1. run' \in [at : 0 .. Len(stream), ticked : BOOLEAN]  BY <1>a, <1>22 DEF StartRun
  <2> QED  BY <1>0, <1>a, <1>b, <1>22, <2>1 DEF StartRun
<1>23. CASE FinishRun
  <2>1. Fresh => Observed \in Int  BY <1>d DEF Fresh
  <2>2. stream[run.at].u \in Int
    <3>1. stream[run.at] \in Samples
      BY <1>a, <1>23 DEF FinishRun, Running, TypeOK, StreamTypes
    <3> QED  BY <3>1 DEF Samples
  <2>3. Fresh \in BOOLEAN  BY DEF Fresh, TypeOK, StreamTypes
  <2>4. /\ profile' = [has |-> TRUE, bound |-> Fresh, w |-> IF Fresh THEN Observed ELSE 0,
                       cal |-> stream[run.at].u, unsafe |-> FALSE, from |-> "own"]
        /\ room' = Disarmed \/ room' = room
        /\ run' = [at |-> 0, ticked |-> FALSE] /\ UNCHANGED missed
    BY <1>23 DEF FinishRun
  <2> HIDE DEF Fresh, Observed
  <2>5. profile' \in Profiles  BY <2>1, <2>2, <2>3, <2>4 DEF Profiles
  <2>6. room' \in Rooms  BY <1>a, <2>4 DEF Rooms, Disarmed
  <2> QED  BY <1>0, <1>a, <1>b, <2>4, <2>5, <2>6
<1>24. CASE EndRun
  <2>1. run' \in [at : 0 .. Len(stream), ticked : BOOLEAN]  BY <1>a, <1>24 DEF EndRun
  <2> QED  BY <1>0, <1>a, <1>b, <1>24, <2>1 DEF EndRun
<1> QED
  BY <1>1, <1>2, <1>3, <1>4, <1>5, <1>6, <1>7, <1>8, <1>9, <1>10, <1>11, <1>12, <1>13, <1>14,
     <1>15, <1>16, <1>17, <1>18, <1>19, <1>20, <1>21, <1>22, <1>23, <1>24 DEF Quiet

-----------------------------------------------------------------------------
(* The jump detector's steps.                                              *)

LEMMA MonGrows ==
  ASSUME TypeOK, Quiet
  PROVE  mon' >= mon /\ mon' \in Nat /\ mon \in Nat
<1>0. mon \in 0 .. Len(stream) /\ Len(stream) \in Nat  BY DEF TypeOK, StreamTypes
<1>1. CASE SessionBoundary  BY <1>0, <1>1 DEF SessionBoundary
<1>2. CASE Reopen  BY <1>0, <1>2 DEF Reopen
<1>3. CASE Recovered  BY <1>0, <1>3 DEF Recovered
<1>4. CASE GraceOver  BY <1>0, <1>4 DEF GraceOver
<1>5. CASE Park  BY <1>0, <1>5 DEF Park, Discard
<1>6. CASE MonitorDrain  BY <1>0, <1>6 DEF MonitorDrain, Discard
<1>7. CASE PushSample  BY <1>0, <1>7 DEF PushSample
<1>8. CASE ApplyDelta  BY <1>0, <1>8 DEF ApplyDelta
<1>9. CASE MonitorDone  BY <1>0, <1>9 DEF MonitorDone
<1>10. CASE Ripen  BY <1>0, <1>10 DEF Ripen
<1>11. CASE DropCandidate  BY <1>0, <1>11 DEF DropCandidate
<1>12. CASE Confirm  BY <1>0, <1>12 DEF Confirm
<1>13. CASE RefuseDelta  BY <1>0, <1>13 DEF RefuseDelta
<1>14. CASE SpaceClosed  BY <1>0, <1>14 DEF SpaceClosed
<1>15. CASE SpaceDrain  BY <1>0, <1>15 DEF SpaceDrain
<1>16. CASE JudgeClear  BY <1>0, <1>16 DEF JudgeClear, RoomTick
<1>17. CASE JudgeStale  BY <1>0, <1>17 DEF JudgeStale, RoomTick
<1>18. CASE JudgeBind  BY <1>0, <1>18 DEF JudgeBind, RoomTick
<1>19. CASE Judge  BY <1>0, <1>19 DEF Judge, RoomTick
<1>20. CASE Capture  BY <1>0, <1>20 DEF Capture
<1>21. CASE CaptureFails  BY <1>0, <1>21 DEF CaptureFails
<1>22. CASE StartRun  BY <1>0, <1>22 DEF StartRun
<1>23. CASE FinishRun  BY <1>0, <1>23 DEF FinishRun
<1>24. CASE EndRun  BY <1>0, <1>24 DEF EndRun
<1> QED
  BY <1>1, <1>2, <1>3, <1>4, <1>5, <1>6, <1>7, <1>8, <1>9, <1>10, <1>11, <1>12, <1>13, <1>14,
     <1>15, <1>16, <1>17, <1>18, <1>19, <1>20, <1>21, <1>22, <1>23, <1>24 DEF Quiet

\* No new step: deltas and candidates at most leave.
LEMMA StepsKept ==
  ASSUME TypeOK, StepsInv, UNCHANGED stream, mon' >= mon, mon' \in Nat,
         UNCHANGED lastAccept, deltas' = deltas \/ (deltas # <<>> /\ deltas' = Tail(deltas)),
         \A c \in cands' : \E o \in cands : o.n = c.n /\ o.from = c.from
  PROVE  StepsInv' /\ \A n \in Nat : Future(n)' => Future(n)
<1>1. /\ lastAccept \in Nat /\ mon \in Nat /\ deltas \in Seq(Deltas) /\ cands \subseteq Candidates
      /\ Len(stream') = Len(stream)
  BY DEF TypeOK, StreamTypes, JumpTypes
<1>2. (\A i : W(i)' = W(i) /\ U(i)' = U(i)) /\ \A n : StepAt(n)' <=> StepAt(n)  BY SamePoses
<1>3. PICK z \in {0, 1} : /\ Len(deltas') = Len(deltas) - z /\ Len(deltas') \in Nat
                          /\ \A k \in 1 .. Len(deltas') : deltas'[k] = deltas[k + z]
  <2>1. CASE deltas' = deltas  BY <1>1, <2>1
  <2>2. CASE deltas # <<>> /\ deltas' = Tail(deltas)  BY <1>1, <2>2
  <2> QED  BY <2>1, <2>2
<1>4. \A k \in 1 .. Len(deltas') : k + z \in 1 .. Len(deltas)  BY <1>1, <1>3
<1>5. ASSUME NEW d \in Deltas, NEW k \in 1 .. Len(deltas'), deltas'[k] = d PROVE DeltaOK(d)'
  <2>1. DeltaOK(d) /\ d.n \in Nat  BY <1>3, <1>4, <1>5 DEF StepsInv, Deltas
  <2>2. /\ U(d.n)' = U(d.n) /\ U(d.n - 1)' = U(d.n - 1) /\ W(d.n - 1)' = W(d.n - 1)
        /\ (StepAt(d.n)' <=> StepAt(d.n))
    BY <1>2
  <2>3. d.n <= mon' /\ d.n <= lastAccept'  BY <1>1, <2>1 DEF DeltaOK
  <2> QED  BY <2>1, <2>2, <2>3 DEF DeltaOK
<1>6. ASSUME NEW k \in 1 .. Len(deltas'), NEW l \in 1 .. Len(deltas'), k < l
      PROVE  deltas'[k].n < deltas'[l].n
  <2>1. deltas'[k] = deltas[k + z] /\ deltas'[l] = deltas[l + z] /\ k + z < l + z
    BY <1>3, <1>6
  <2> QED  BY <1>4, <2>1 DEF StepsInv
<1>7. ASSUME NEW c \in cands' PROVE CandOK(c)'
  <2>1. PICK o \in cands : o.n = c.n /\ o.from = c.from  OBVIOUS
  <2>2. CandOK(o) /\ o.n \in Nat  BY <1>1 DEF StepsInv, Candidates
  <2> QED  BY <1>1, <1>2, <2>1, <2>2 DEF CandOK
<1>8. StepsInv'
  <2>1. lastAccept' <= mon'  BY <1>1 DEF StepsInv
  <2> QED  BY <1>5, <1>6, <1>7, <2>1 DEF StepsInv
<1>9. ASSUME NEW n \in Nat, Future(n)' PROVE Future(n)
  <2>1. CASE n > mon' /\ U(n)' # U(n - 1)'
    <3>1. U(n)' = U(n) /\ U(n - 1)' = U(n - 1) /\ n > mon  BY <1>1, <1>2, <2>1
    <3> QED  BY <2>1, <3>1 DEF Future
  <2>2. CASE \E k \in 1 .. Len(deltas') : deltas'[k].n = n
    BY <1>3, <1>4, <2>2 DEF Future
  <2>3. CASE \E c \in cands' : c.n = n /\ c.from > lastAccept'
    BY <2>3 DEF Future
  <2> QED  BY <1>9, <2>1, <2>2, <2>3 DEF Future
<1> QED  BY <1>8, <1>9

\* Steps are found, held and accepted as they are, and none is made up.
LEMMA QuietSteps ==
  ASSUME TypeOK, StreamInv, JumpInv, Quiet
  PROVE  StepsInv' /\ \A n \in Nat : Future(n)' => Future(n)
<1>0. UNCHANGED stream /\ mon' >= mon /\ mon' \in Nat /\ mon \in Nat  BY QuietStream, MonGrows
<1>e. /\ lastAccept \in Nat /\ deltas \in Seq(Deltas) /\ cands \subseteq Candidates
      /\ watch \in [first : Nat, last : Nat]
      /\ Len(stream) \in Nat /\ Len(stream') = Len(stream) /\ StepsInv /\ WatchInv
  BY <1>0 DEF TypeOK, StreamTypes, JumpTypes, JumpInv
<1>g. (\A i : W(i)' = W(i) /\ U(i)' = U(i)) /\ \A n : StepAt(n)' <=> StepAt(n)
  BY <1>0, SamePoses
<1>a. ASSUME UNCHANGED lastAccept, cands' \subseteq cands,
             deltas' = deltas \/ (deltas # <<>> /\ deltas' = Tail(deltas))
      PROVE  StepsInv' /\ \A n \in Nat : Future(n)' => Future(n)
  BY <1>0, <1>e, <1>a, StepsKept
<1>b. UNCHANGED jumpVars => StepsInv' /\ \A n \in Nat : Future(n)' => Future(n)
  BY <1>a DEF jumpVars
<1>c. ASSUME cands' = {}, lastAccept' = 0, deltas' = <<>>
      PROVE  StepsInv' /\ \A n \in Nat : Future(n)' => Future(n)
  <2>1. StepsInv'  BY <1>0, <1>c DEF StepsInv
  <2>2. ASSUME NEW n \in Nat, Future(n)' PROVE Future(n)
    <3>1. n > mon' /\ U(n)' # U(n - 1)'  BY <1>c, <2>2 DEF Future
    <3>2. U(n)' = U(n) /\ U(n - 1)' = U(n - 1)  BY <1>g
    <3> QED  BY <1>0, <3>1, <3>2 DEF Future
  <2> QED  BY <2>1, <2>2
<1>d. ResetJumps => StepsInv' /\ \A n \in Nat : Future(n)' => Future(n)
  BY <1>c DEF ResetJumps
<1>1. CASE SessionBoundary  BY <1>b, <1>1 DEF SessionBoundary, jumpVars
<1>2. CASE Reopen  BY <1>b, <1>2 DEF Reopen, jumpVars
<1>3. CASE Recovered  BY <1>b, <1>3 DEF Recovered, jumpVars
<1>4. CASE GraceOver  BY <1>b, <1>4 DEF GraceOver, jumpVars
<1>5. CASE Park  BY <1>b, <1>d, <1>5 DEF Park
<1>6. CASE MonitorDrain
  <2>1. UNCHANGED jumpVars \/ ResetJumps \/ NoteStreamHole  BY <1>6 DEF MonitorDrain
  <2>2. CASE NoteStreamHole
    <3>1. cands' \subseteq cands /\ UNCHANGED <<lastAccept, deltas>>  BY <2>2 DEF NoteStreamHole
    <3> QED  BY <1>a, <3>1
  <2> QED  BY <1>b, <1>d, <2>1, <2>2
<1>7. CASE PushSample
  <2> DEFINE n == mon + 1
             s == stream[n]
             p == stream[watch.last]
             near == watch.last # 0 /\ s.kind = "good"
             rebased == near /\ s.w # p.w /\ s.u - s.w = p.u - p.w
  <2>1. /\ n \in 1 .. Len(stream) /\ s \in Samples /\ mon' = n /\ W(n) = s.w /\ U(n) = s.u
    BY <1>7, SampleFacts DEF PushSample, TypeOK, StreamTypes
  <2>2. \/ UNCHANGED jumpVars
        \/ BreakObservationContinuity
        \/ ~Running /\ s.kind # "bad" /\ rebased /\ DetectWfdRebase(n)
        \/ /\ ~Running /\ s.kind # "bad"
           /\ watch' = [first |-> IF watch.last = 0 THEN n ELSE watch.first, last |-> n]
           /\ DetectDiscontinuity(n, near)
           /\ UNCHANGED <<lastAccept, deltas>>
    BY <1>7 DEF PushSample
  <2>3. ASSUME ~Running, near
        PROVE  /\ watch.last = n - 1 /\ watch.first \in 1 .. n - 1 /\ n \in 2 .. Len(stream)
               /\ p \in Samples /\ W(n - 1) = p.w /\ U(n - 1) = p.u
               /\ s.kind = "good" /\ stream[n - 1].kind # "bad"
    <3>1. /\ watch.last = mon /\ watch.first \in 1 .. watch.last
          /\ stream[watch.last].kind # "bad" /\ s.kind = "good"
      BY <1>e, <1>7, <2>3 DEF WatchInv, PushSample
    <3>2. n - 1 = mon /\ mon \in 1 .. Len(stream)  BY <1>0, <1>e, <2>1, <3>1
    <3>3. p \in Samples /\ W(mon) = p.w /\ U(mon) = p.u
      BY <3>1, <3>2, SampleFacts DEF TypeOK
    <3> QED  BY <1>0, <2>1, <3>1, <3>2, <3>3
  <2> HIDE DEF near
  <2>4. CASE BreakObservationContinuity
    BY <1>a, <2>4 DEF BreakObservationContinuity
  <2>5. CASE ~Running /\ s.kind # "bad" /\ rebased /\ DetectWfdRebase(n)
    <3>1. /\ watch.last = n - 1 /\ n \in 2 .. Len(stream)
          /\ p \in Samples /\ W(n - 1) = p.w /\ U(n - 1) = p.u
          /\ s.kind = "good" /\ stream[n - 1].kind # "bad"
          /\ s.w # p.w /\ s.u - s.w = p.u - p.w
      BY <2>3, <2>5
    <3>2. PICK a \in Int, b \in Int, c \in Int, e \in Int :
            a = s.u /\ b = s.w /\ c = p.u /\ e = p.w
      BY <2>1, <3>1 DEF Samples
    <3>3. a - b = c - e /\ b # e  BY <3>1, <3>2
    <3>4. a # c /\ b - e = a - c  BY <3>3
    <3>5. U(n) # U(n - 1) /\ s.w - p.w = U(n) - U(n - 1) /\ W(n) # W(n - 1)
      BY <2>1, <3>1, <3>2, <3>3, <3>4
    <3>6. PICK d \in Deltas :
            /\ d.n = n /\ d.prev = p.w /\ d.d = s.w - p.w
            /\ d = [n |-> n, exact |-> TRUE, prev |-> p.w, d |-> s.w - p.w]
      <4> DEFINE e0 == [n |-> n, exact |-> TRUE, prev |-> p.w, d |-> s.w - p.w]
      <4>1. e0 \in Deltas  BY <2>1, <3>2 DEF Deltas
      <4>2. e0.n = n /\ e0.prev = p.w /\ e0.d = s.w - p.w  OBVIOUS
      <4> QED  BY <4>1, <4>2
    <3>7. StepAt(n)  BY <3>1, <3>5 DEF StepAt
    <3>8. deltas' = Append(deltas, d) /\ cands' = {} /\ lastAccept' = n
      BY <2>5, <3>6 DEF DetectWfdRebase
    <3> HIDE DEF s, p, rebased
    <3>9. PICK m \in Nat : m = n /\ m = mon + 1 /\ m \in 1 .. Len(stream)  BY <2>1
    <3> HIDE DEF n
    <3>10. DeltaOK(d)'
      <4>1. DeltaOK(d)' <=> /\ StepAt(d.n)' /\ d.n <= mon' /\ d.n <= lastAccept'
                            /\ d.d = U(d.n)' - U(d.n - 1)' /\ U(d.n)' # U(d.n - 1)'
                            /\ d.prev = W(d.n - 1)'
        BY DEF DeltaOK
      <4>2. /\ StepAt(d.n)' <=> StepAt(n)
            /\ U(d.n)' = U(n) /\ U(d.n - 1)' = U(n - 1) /\ W(d.n - 1)' = W(n - 1)
        BY <1>g, <3>6
      <4> QED  BY <2>1, <3>1, <3>5, <3>6, <3>7, <3>8, <3>9, <4>1, <4>2
    <3>11. /\ Len(deltas') = Len(deltas) + 1 /\ deltas'[Len(deltas) + 1] = d
           /\ \A k \in 1 .. Len(deltas) : deltas'[k] = deltas[k]
      BY <1>e, <3>6, <3>8
    <3>12. \A k \in 1 .. Len(deltas) : /\ DeltaOK(deltas[k]) /\ deltas[k] \in Deltas
                                      /\ deltas[k].n \in Nat /\ deltas[k].n <= mon
      <4> SUFFICES ASSUME NEW k \in 1 .. Len(deltas)
                   PROVE  /\ DeltaOK(deltas[k]) /\ deltas[k] \in Deltas
                          /\ deltas[k].n \in Nat /\ deltas[k].n <= mon
        OBVIOUS
      <4>1. deltas[k] \in Deltas  BY <1>e
      <4>2. DeltaOK(deltas[k])  BY <1>e, <4>1 DEF StepsInv
      <4> QED  BY <4>1, <4>2 DEF DeltaOK, Deltas
    <3>13. ASSUME NEW e1 \in Deltas, NEW k \in 1 .. Len(deltas'), deltas'[k] = e1
           PROVE  DeltaOK(e1)'
      <4>1. CASE k = Len(deltas) + 1  BY <3>10, <3>11, <3>13, <4>1
      <4>2. CASE k # Len(deltas) + 1
        <5>1. DeltaOK(e1) /\ e1.n \in Nat  BY <1>e, <3>11, <3>12, <3>13, <4>2
        <5>2. /\ U(e1.n)' = U(e1.n) /\ U(e1.n - 1)' = U(e1.n - 1)
              /\ W(e1.n - 1)' = W(e1.n - 1) /\ (StepAt(e1.n)' <=> StepAt(e1.n))
          BY <1>g
        <5>3. e1.n <= mon' /\ e1.n <= lastAccept'
          BY <1>0, <2>1, <3>8, <3>9, <5>1 DEF DeltaOK
        <5> QED  BY <5>1, <5>2, <5>3 DEF DeltaOK
      <4> QED  BY <4>1, <4>2
    <3>14. ASSUME NEW k \in 1 .. Len(deltas'), NEW l \in 1 .. Len(deltas'), k < l
           PROVE  deltas'[k].n < deltas'[l].n
      <4>1. k \in 1 .. Len(deltas) /\ deltas'[k] = deltas[k]  BY <1>e, <3>11, <3>14
      <4>2. CASE l = Len(deltas) + 1
        BY <1>0, <3>6, <3>9, <3>11, <3>12, <4>1, <4>2
      <4>3. CASE l # Len(deltas) + 1
        <5>1. l \in 1 .. Len(deltas) /\ deltas'[l] = deltas[l]  BY <1>e, <3>11, <4>3
        <5> QED  BY <1>e, <3>14, <4>1, <5>1 DEF StepsInv
      <4> QED  BY <4>2, <4>3
    <3>15. StepsInv'
      <4>1. lastAccept' <= mon'  BY <2>1, <3>8, <3>9
      <4>2. \A c1 \in cands' : FALSE  BY <3>8
      <4> QED  BY <3>13, <3>14, <4>1, <4>2 DEF StepsInv
    <3>16. ASSUME NEW j \in Nat, Future(j)' PROVE Future(j)
      <4>1. U(j)' = U(j) /\ U(j - 1)' = U(j - 1)  BY <1>g
      <4>2. CASE j > mon' /\ U(j)' # U(j - 1)'  BY <1>0, <4>1, <4>2 DEF Future
      <4>3. CASE \E k \in 1 .. Len(deltas') : deltas'[k].n = j
        <5>1. PICK k \in 1 .. Len(deltas') : deltas'[k].n = j  BY <4>3
        <5>2. CASE k = Len(deltas) + 1
          <6>1. j = n /\ n > mon  BY <1>0, <3>6, <3>9, <3>11, <5>1, <5>2
          <6> QED  BY <3>5, <6>1 DEF Future
        <5>3. CASE k # Len(deltas) + 1
          <6>1. k \in 1 .. Len(deltas) /\ deltas[k].n = j  BY <1>e, <3>11, <5>1, <5>3
          <6> QED  BY <6>1 DEF Future
        <5> QED  BY <5>2, <5>3
      <4>4. ~(\E c1 \in cands' : c1.n = j /\ c1.from > lastAccept')  BY <3>8
      <4> QED  BY <3>16, <4>2, <4>3, <4>4 DEF Future
    <3> QED  BY <3>15, <3>16
  <2>6. CASE /\ ~Running /\ s.kind # "bad"
             /\ watch' = [first |-> IF watch.last = 0 THEN n ELSE watch.first, last |-> n]
             /\ DetectDiscontinuity(n, near)
             /\ UNCHANGED <<lastAccept, deltas>>
    <3>1. CASE UNCHANGED cands  BY <1>a, <2>6, <3>1
    <3>2. CASE ~UNCHANGED cands
      <4>1. near /\ s.u # p.u  BY <2>6, <3>2 DEF DetectDiscontinuity
      <4>2. PICK from \in watch.first .. watch.last :
              cands' = cands \cup {[n |-> n, from |-> from, ready |-> FALSE]}
        BY <2>6, <3>2 DEF DetectDiscontinuity
      <4>3. /\ watch.last = n - 1 /\ watch.first \in 1 .. n - 1 /\ n \in 2 .. Len(stream)
            /\ W(n - 1) = p.w /\ U(n - 1) = p.u
            /\ s.kind = "good" /\ stream[n - 1].kind # "bad"
        BY <2>3, <2>6, <4>1
      <4>4. U(n) # U(n - 1)  BY <2>1, <4>1, <4>3
      <4>5. W(n) # W(n - 1)
        <5>1. n - 1 \in 0 .. Len(stream) /\ n \in 0 .. Len(stream) /\ n - 1 <= n
          BY <1>e, <4>3
        <5> QED  BY <4>4, <5>1 DEF StreamInv
      <4>6. PICK m \in Nat : m = n /\ m = mon + 1  BY <2>1
      <4> HIDE DEF s, p, rebased, n
      <4>7. StepAt(n)  BY <4>3, <4>5 DEF StepAt, s
      <4>8. from \in 1 .. n - 1 /\ from \in Nat  BY <1>e, <4>3, <4>6
      <4>9. ASSUME NEW c \in cands' PROVE CandOK(c)'
        <5>1. CandOK(c)' <=> /\ StepAt(c.n)' /\ c.n <= mon' /\ c.from \in 1 .. c.n - 1
                             /\ U(c.n)' # U(c.n - 1)'
          BY DEF CandOK
        <5>2. U(c.n)' = U(c.n) /\ U(c.n - 1)' = U(c.n - 1) /\ (StepAt(c.n)' <=> StepAt(c.n))
          BY <1>g
        <5>3. CASE c \in cands
          <6>1. CandOK(c) /\ c.n \in Nat  BY <1>e, <5>3 DEF StepsInv, Candidates
          <6> QED  BY <1>0, <5>1, <5>2, <6>1 DEF CandOK
        <5>4. CASE c = [n |-> n, from |-> from, ready |-> FALSE]
          <6>1. c.n = n /\ c.from = from /\ c.n = m  BY <4>6, <5>4
          <6>2. StepAt(c.n) /\ U(c.n) # U(c.n - 1)  BY <4>4, <4>7, <6>1
          <6>3. c.n <= mon' /\ c.from \in 1 .. c.n - 1  BY <2>1, <4>6, <4>8, <6>1
          <6> QED  BY <5>1, <5>2, <6>2, <6>3
        <5> QED  BY <4>2, <5>3, <5>4
      <4>10. \A d \in Deltas : (\E k \in 1 .. Len(deltas) : deltas[k] = d) => DeltaOK(d)'
        <5> SUFFICES ASSUME NEW d \in Deltas, DeltaOK(d) PROVE DeltaOK(d)'
          BY <1>e DEF StepsInv
        <5>1. /\ U(d.n)' = U(d.n) /\ U(d.n - 1)' = U(d.n - 1) /\ W(d.n - 1)' = W(d.n - 1)
              /\ (StepAt(d.n)' <=> StepAt(d.n))
          BY <1>g
        <5>2. d.n \in Nat /\ d.n <= mon' /\ d.n <= lastAccept'
          BY <1>0, <2>6 DEF DeltaOK, Deltas
        <5> QED  BY <5>1, <5>2 DEF DeltaOK
      <4>11. StepsInv'
        <5>1. deltas' = deltas /\ lastAccept' <= mon'
          BY <1>0, <1>e, <2>6 DEF StepsInv
        <5>2. \A d \in Deltas : (\E k \in 1 .. Len(deltas') : deltas'[k] = d) => DeltaOK(d)'
          BY <4>10, <5>1
        <5>3. \A k, l \in 1 .. Len(deltas') : k < l => deltas'[k].n < deltas'[l].n
          BY <1>e, <5>1 DEF StepsInv
        <5> QED  BY <4>9, <5>1, <5>2, <5>3 DEF StepsInv
      <4>12. ASSUME NEW j \in Nat, Future(j)' PROVE Future(j)
        <5>1. U(j)' = U(j) /\ U(j - 1)' = U(j - 1)  BY <1>g
        <5>2. CASE j > mon' /\ U(j)' # U(j - 1)'  BY <1>0, <5>1, <5>2 DEF Future
        <5>3. CASE \E k \in 1 .. Len(deltas') : deltas'[k].n = j
          BY <2>6, <5>3 DEF Future
        <5>4. CASE \E c \in cands' : c.n = j /\ c.from > lastAccept'
          <6>1. PICK c \in cands' : c.n = j /\ c.from > lastAccept  BY <2>6, <5>4
          <6>2. CASE c \in cands  BY <6>1, <6>2 DEF Future
          <6>3. CASE c = [n |-> n, from |-> from, ready |-> FALSE]
            <7>1. c.n = n  BY ONLY <6>3
            <7>2. n > mon  BY ONLY <1>0, <4>6
            <7>3. j = n  BY <6>1, <7>1
            <7> QED  BY <4>4, <7>2, <7>3 DEF Future
          <6> QED  BY <4>2, <6>2, <6>3
        <5> QED  BY <4>12, <5>2, <5>3, <5>4 DEF Future
      <4> QED  BY <4>11, <4>12
    <3> QED  BY <3>1, <3>2
  <2> QED  BY <1>b, <2>2, <2>4, <2>5, <2>6
<1>8. CASE ApplyDelta  BY <1>a, <1>8 DEF ApplyDelta
<1>9. CASE MonitorDone  BY <1>b, <1>d, <1>9 DEF MonitorDone
<1>10. CASE Ripen
  <2>1. PICK c \in cands : cands' = (cands \ {c}) \cup {[c EXCEPT !.ready = TRUE]}
    BY <1>10 DEF Ripen
  <2>2. [c EXCEPT !.ready = TRUE].n = c.n /\ [c EXCEPT !.ready = TRUE].from = c.from
    BY <1>e DEF Candidates
  <2>3. \A q \in cands' : \E o \in cands : o.n = q.n /\ o.from = q.from  BY <2>1, <2>2
  <2>4. UNCHANGED <<lastAccept, deltas>>  BY <1>10 DEF Ripen
  <2> QED  BY <1>0, <1>e, <2>3, <2>4, StepsKept
<1>11. CASE DropCandidate
  <2>1. cands' \subseteq cands /\ UNCHANGED <<lastAccept, deltas>>  BY <1>11 DEF DropCandidate
  <2> QED  BY <1>a, <2>1
<1>12. CASE Confirm
  <2>1. PICK c \in cands :
          /\ c.from > lastAccept
          /\ deltas' = Append(deltas, [n |-> c.n, exact |-> FALSE, prev |-> stream[c.n - 1].w,
                                      d |-> stream[c.n].u - stream[c.n - 1].u])
          /\ lastAccept' = c.n
          /\ cands' = {o \in cands : o.n > c.n}
    BY <1>12 DEF Confirm
  <2>2. UNCHANGED mon  BY <1>12 DEF Confirm
  <2>3. CandOK(c) /\ c.n \in Nat /\ c.from \in Nat  BY <1>e DEF StepsInv, Candidates
  <2>4. c.n \in 2 .. Len(stream) /\ c.n - 1 \in 1 .. Len(stream) /\ c.from < c.n /\ c.n <= mon
    BY <1>e, <2>3 DEF CandOK, StepAt
  <2> DEFINE d == [n |-> c.n, exact |-> FALSE, prev |-> stream[c.n - 1].w,
                   d |-> stream[c.n].u - stream[c.n - 1].u]
  <2>5. /\ stream[c.n].u = U(c.n) /\ stream[c.n - 1].u = U(c.n - 1)
        /\ stream[c.n - 1].w = W(c.n - 1)
        /\ U(c.n) \in Int /\ U(c.n - 1) \in Int /\ W(c.n - 1) \in Int
    BY <1>e, <2>4, SampleFacts DEF TypeOK
  <2>6. d \in Deltas /\ d.n = c.n /\ d.prev = W(c.n - 1) /\ d.d = U(c.n) - U(c.n - 1)
    BY <2>3, <2>5 DEF Deltas
  <2>7. deltas' = Append(deltas, d)  BY <2>1
  <2> HIDE DEF d
  <2>8. /\ Len(deltas') = Len(deltas) + 1 /\ deltas'[Len(deltas) + 1] = d
        /\ \A k \in 1 .. Len(deltas) : deltas'[k] = deltas[k]
    BY <1>e, <2>6, <2>7
  <2>9. \A k \in 1 .. Len(deltas) : /\ DeltaOK(deltas[k]) /\ deltas[k] \in Deltas
                                   /\ deltas[k].n \in Nat /\ deltas[k].n <= lastAccept
    <3> SUFFICES ASSUME NEW k \in 1 .. Len(deltas)
                 PROVE  /\ DeltaOK(deltas[k]) /\ deltas[k] \in Deltas
                        /\ deltas[k].n \in Nat /\ deltas[k].n <= lastAccept
      OBVIOUS
    <3>1. deltas[k] \in Deltas  BY <1>e
    <3>2. DeltaOK(deltas[k])  BY <1>e, <3>1 DEF StepsInv
    <3> QED  BY <3>1, <3>2 DEF DeltaOK, Deltas
  <2>10. lastAccept < c.n  BY <1>e, <2>1, <2>3, <2>4
  <2>11. ASSUME NEW e \in Deltas, NEW k \in 1 .. Len(deltas'), deltas'[k] = e
         PROVE  DeltaOK(e)'
    <3>1. DeltaOK(e)' <=> /\ StepAt(e.n)' /\ e.n <= mon' /\ e.n <= lastAccept'
                          /\ e.d = U(e.n)' - U(e.n - 1)' /\ U(e.n)' # U(e.n - 1)'
                          /\ e.prev = W(e.n - 1)'
      BY DEF DeltaOK
    <3>2. /\ U(e.n)' = U(e.n) /\ U(e.n - 1)' = U(e.n - 1)
          /\ W(e.n - 1)' = W(e.n - 1) /\ (StepAt(e.n)' <=> StepAt(e.n))
      BY <1>g
    <3>3. CASE k = Len(deltas) + 1
      <4>1. e = d  BY <2>8, <2>11, <3>3
      <4> QED  BY <2>1, <2>2, <2>3, <2>4, <2>6, <3>1, <3>2, <4>1 DEF CandOK
    <3>4. CASE k # Len(deltas) + 1
      <4>1. DeltaOK(e) /\ e.n \in Nat /\ e.n <= lastAccept
        BY <1>e, <2>8, <2>9, <2>11, <3>4
      <4>2. e.n <= mon' /\ e.n <= lastAccept'
        BY <1>e, <2>1, <2>2, <2>3, <2>10, <4>1 DEF DeltaOK
      <4> QED  BY <3>1, <3>2, <4>1, <4>2 DEF DeltaOK
    <3> QED  BY <3>3, <3>4
  <2>12. ASSUME NEW k \in 1 .. Len(deltas'), NEW l \in 1 .. Len(deltas'), k < l
         PROVE  deltas'[k].n < deltas'[l].n
    <3>1. k \in 1 .. Len(deltas) /\ deltas'[k] = deltas[k]  BY <1>e, <2>8, <2>12
    <3>2. CASE l = Len(deltas) + 1
      BY <1>e, <2>3, <2>6, <2>8, <2>9, <2>10, <3>1, <3>2
    <3>3. CASE l # Len(deltas) + 1
      <4>1. l \in 1 .. Len(deltas) /\ deltas'[l] = deltas[l]  BY <1>e, <2>8, <3>3
      <4> QED  BY <1>e, <2>12, <3>1, <4>1 DEF StepsInv
    <3> QED  BY <3>2, <3>3
  <2>13. ASSUME NEW o \in cands' PROVE CandOK(o)'
    <3>1. CandOK(o)  BY <1>e, <2>1 DEF StepsInv
    <3>2. U(o.n)' = U(o.n) /\ U(o.n - 1)' = U(o.n - 1) /\ (StepAt(o.n)' <=> StepAt(o.n))
      BY <1>g
    <3> QED  BY <2>2, <3>1, <3>2 DEF CandOK
  <2>14. StepsInv'
    <3>1. lastAccept' <= mon'  BY <2>1, <2>2, <2>4
    <3> QED  BY <2>11, <2>12, <2>13, <3>1 DEF StepsInv
  <2>15. ASSUME NEW j \in Nat, Future(j)' PROVE Future(j)
    <3>1. U(j)' = U(j) /\ U(j - 1)' = U(j - 1)  BY <1>g
    <3>2. CASE j > mon' /\ U(j)' # U(j - 1)'  BY <2>2, <3>1, <3>2 DEF Future
    <3>3. CASE \E k \in 1 .. Len(deltas') : deltas'[k].n = j
      <4>1. PICK k \in 1 .. Len(deltas') : deltas'[k].n = j  BY <3>3
      <4>2. CASE k = Len(deltas) + 1
        BY <2>1, <2>6, <2>8, <4>1, <4>2 DEF Future
      <4>3. CASE k # Len(deltas) + 1
        <5>1. k \in 1 .. Len(deltas) /\ deltas[k].n = j  BY <1>e, <2>8, <4>1, <4>3
        <5> QED  BY <5>1 DEF Future
      <4> QED  BY <4>2, <4>3
    <3>4. CASE \E o \in cands' : o.n = j /\ o.from > lastAccept'
      <4>1. PICK o \in cands : o.n = j /\ o.from > c.n  BY <2>1, <3>4
      <4>2. o.from \in Nat  BY <1>e DEF Candidates
      <4>3. o.from > lastAccept  BY <1>e, <2>3, <2>10, <4>1, <4>2
      <4> QED  BY <4>1, <4>3 DEF Future
    <3> QED  BY <2>15, <3>2, <3>3, <3>4 DEF Future
  <2> QED  BY <2>14, <2>15
<1>13. CASE RefuseDelta  BY <1>a, <1>13 DEF RefuseDelta
<1>14. CASE SpaceClosed  BY <1>b, <1>14 DEF SpaceClosed, jumpVars
<1>15. CASE SpaceDrain  BY <1>b, <1>15 DEF SpaceDrain, jumpVars
<1>16. CASE JudgeClear  BY <1>b, <1>16 DEF JudgeClear, jumpVars, RoomTick
<1>17. CASE JudgeStale  BY <1>b, <1>17 DEF JudgeStale, jumpVars, RoomTick
<1>18. CASE JudgeBind  BY <1>b, <1>18 DEF JudgeBind, jumpVars, RoomTick
<1>19. CASE Judge  BY <1>b, <1>19 DEF Judge, jumpVars, RoomTick
<1>20. CASE Capture  BY <1>b, <1>20 DEF Capture, jumpVars
<1>21. CASE CaptureFails  BY <1>b, <1>21 DEF CaptureFails, jumpVars
<1>22. CASE StartRun  BY <1>b, <1>22 DEF StartRun, jumpVars
<1>23. CASE FinishRun  BY <1>b, <1>23 DEF FinishRun, jumpVars
<1>24. CASE EndRun  BY <1>b, <1>24 DEF EndRun, jumpVars
<1> QED
  BY <1>1, <1>2, <1>3, <1>4, <1>5, <1>6, <1>7, <1>8, <1>9, <1>10, <1>11, <1>12, <1>13, <1>14,
     <1>15, <1>16, <1>17, <1>18, <1>19, <1>20, <1>21, <1>22, <1>23, <1>24 DEF Quiet

LEMMA QuietWatch ==
  ASSUME TypeOK, JumpInv, Quiet
  PROVE  WatchInv'
<1>0. UNCHANGED stream /\ mon' >= mon /\ mon' \in Nat /\ mon \in Nat  BY QuietStream, MonGrows
<1>e. /\ watch \in [first : Nat, last : Nat] /\ WatchInv
      /\ mon \in 0 .. Len(stream) /\ Len(stream) \in Nat /\ deltas \in Seq(Deltas)
  BY DEF TypeOK, StreamTypes, JumpTypes, JumpInv
<1>a. ASSUME UNCHANGED <<stream, watch, cands, deltas, lastAccept, active, newSession, upto, mon>>,
             pc' = pc \/ (pc # "push" /\ pc' # "push"), run' = run, profile'.has = profile.has
      PROVE  WatchInv'
  BY <1>e, <1>a DEF WatchInv, Running
<1>1. CASE SessionBoundary
  <2>1. /\ UNCHANGED <<watch, cands, lastAccept, deltas, active, pc, profile>> /\ pc # "push"
        /\ newSession' /\ mon' = Len(stream)
    BY <1>1 DEF SessionBoundary, jumpVars
  <2> QED  BY <1>0, <1>e, <2>1 DEF WatchInv
<1>2. CASE Reopen
  BY <1>a, <1>2 DEF Reopen, RoomTick, streamVars, linkVars, jumpVars
<1>3. CASE Recovered
  BY <1>a, <1>3 DEF Recovered, RoomTick, streamVars, linkVars, jumpVars
<1>4. CASE GraceOver
  BY <1>a, <1>4 DEF GraceOver, RoomTick, streamVars, linkVars, jumpVars
<1>5. CASE Park
  <2>1. pc' = "drain" /\ ~active' /\ ResetJumps  BY <1>5 DEF Park
  <2> QED  BY <2>1 DEF ResetJumps, WatchInv, Nowhere
<1>6. CASE MonitorDrain
  <2>1. /\ active' /\ pc' = "push" /\ ~newSession' /\ pc = "idle" /\ profile.has
        /\ UNCHANGED <<run, profile>> /\ ~newSession
    BY <1>6 DEF MonitorDrain, Enabled
  <2>2. mon' <= upto'
    <3>1. BatchEnd(mon) \in mon .. Len(stream)
      BY <1>e, BatchEndFacts DEF TypeOK
    <3> QED  BY <1>e, <1>6, <3>1 DEF MonitorDrain, Discard
  <2>3. UNCHANGED jumpVars \/ ResetJumps \/ NoteStreamHole  BY <1>6 DEF MonitorDrain
  <2>4. watch' = Nowhere \/ (UNCHANGED <<watch, mon>>)
    BY <1>e, <1>6 DEF MonitorDrain, ResetJumps, NoteStreamHole, jumpVars, WatchInv
  <2>5. Nowhere.last = 0  BY DEF Nowhere
  <2> HIDE DEF Nowhere
  <2>6. watch'.last # 0 =>
          /\ watch'.first \in 1 .. watch'.last /\ watch'.last <= mon'
          /\ stream'[watch'.last].kind # "bad" /\ watch'.last = mon'
    BY <1>0, <1>e, <2>1, <2>4, <2>5 DEF WatchInv
  <2> QED  BY <2>1, <2>2, <2>6 DEF WatchInv
<1>7. CASE PushSample
  <2>1. /\ mon' = mon + 1 /\ mon < upto /\ pc = "push" /\ active /\ ~newSession
        /\ UNCHANGED <<active, newSession, pc, upto, run, profile>> /\ upto \in Nat
    BY <1>e, <1>7 DEF PushSample, linkVars, WatchInv, TypeOK, StreamTypes
  <2>2. profile.has  BY <1>e, <2>1 DEF WatchInv
  <2>3. \/ Running /\ UNCHANGED watch
        \/ watch' = Nowhere
        \/ ~Running /\ stream[mon + 1].kind # "bad" /\ watch' = [first |-> mon + 1, last |-> mon + 1]
        \/ /\ ~Running /\ stream[mon + 1].kind # "bad"
           /\ watch' = [first |-> IF watch.last = 0 THEN mon + 1 ELSE watch.first, last |-> mon + 1]
    BY <1>7 DEF PushSample, jumpVars, BreakObservationContinuity, DetectWfdRebase
  <2>4. watch'.last # 0 =>
          /\ watch'.first \in 1 .. watch'.last /\ watch'.last <= mon'
          /\ stream'[watch'.last].kind # "bad"
          /\ watch'.last = mon' \/ Running
    <3>1. CASE Running /\ UNCHANGED watch  BY <1>0, <1>e, <2>1, <3>1 DEF WatchInv
    <3>2. CASE watch' = Nowhere  BY <3>2 DEF Nowhere
    <3>3. CASE ~Running /\ stream[mon + 1].kind # "bad" /\ watch' = [first |-> mon + 1, last |-> mon + 1]
      BY <1>0, <2>1, <3>3
    <3>4. CASE /\ ~Running /\ stream[mon + 1].kind # "bad"
               /\ watch' = [first |-> IF watch.last = 0 THEN mon + 1 ELSE watch.first, last |-> mon + 1]
      BY <1>0, <1>e, <2>1, <3>4 DEF WatchInv
    <3> QED  BY <2>3, <3>1, <3>2, <3>3, <3>4
  <2> QED  BY <1>0, <2>1, <2>2, <2>4 DEF WatchInv, Running
<1>8. CASE ApplyDelta
  <2>1. profile'.has = profile.has  BY <1>8 DEF ApplyDelta, TypeOK, ProfileTypes, Profiles
  <2>2. /\ UNCHANGED <<watch, cands, lastAccept, active, newSession, upto, mon, pc, run>>
        /\ pc = "push"
    BY <1>8 DEF ApplyDelta, linkVars
  <2> QED  BY <1>0, <1>e, <2>1, <2>2 DEF WatchInv, Running
<1>9. CASE MonitorDone
  <2>1. /\ pc = "push" /\ pc' = "drain" /\ UNCHANGED <<active, newSession, mon, profile>>
        /\ active /\ Running' = Running /\ (~Running => UNCHANGED jumpVars /\ deltas = <<>>)
        /\ (Running => ResetJumps)
    <3>1. Running' = Running
      <4>1. run' = [run EXCEPT !.ticked = Running]  BY <1>9 DEF MonitorDone
      <4> QED  BY <4>1 DEF Running, TypeOK, ProfileTypes
    <3> QED  BY <1>e, <1>9, <3>1 DEF MonitorDone, linkVars, WatchInv
  <2>2. CASE Running  BY <1>e, <2>1, <2>2 DEF ResetJumps, WatchInv, Nowhere
  <2>3. CASE ~Running  BY <1>0, <1>e, <2>1, <2>3 DEF jumpVars, WatchInv
  <2> QED  BY <2>2, <2>3
<1>10. CASE Ripen
  <2>1. /\ UNCHANGED <<watch, active, newSession, upto, mon, pc, run, profile>> /\ pc = "push"
    BY <1>10 DEF Ripen, linkVars
  <2> QED  BY <1>0, <1>e, <2>1 DEF WatchInv, Running
<1>11. CASE DropCandidate
  <2>1. /\ UNCHANGED <<watch, active, newSession, upto, mon, pc, run, profile>> /\ pc = "push"
    BY <1>11 DEF DropCandidate, linkVars
  <2> QED  BY <1>0, <1>e, <2>1 DEF WatchInv, Running
<1>12. CASE Confirm
  <2>1. /\ UNCHANGED <<watch, active, newSession, upto, mon, pc, run, profile>> /\ pc = "push"
    BY <1>12 DEF Confirm, linkVars
  <2> QED  BY <1>0, <1>e, <2>1 DEF WatchInv, Running
<1>13. CASE RefuseDelta
  <2>1. /\ UNCHANGED <<watch, cands, lastAccept, active, newSession, upto, mon, pc, run, profile>>
        /\ pc = "push"
    BY <1>13 DEF RefuseDelta, linkVars
  <2> QED  BY <1>0, <1>e, <2>1 DEF WatchInv, Running
<1>14. CASE SpaceClosed
  BY <1>a, <1>14 DEF SpaceClosed, RoomTick, streamVars, linkVars, jumpVars
<1>15. CASE SpaceDrain
  BY <1>a, <1>15 DEF SpaceDrain, RoomTick, streamVars, linkVars, jumpVars
<1>16. CASE JudgeClear
  BY <1>a, <1>16 DEF JudgeClear, RoomTick, streamVars, linkVars, jumpVars
<1>17. CASE JudgeStale
  BY <1>a, <1>17 DEF JudgeStale, RoomTick, streamVars, linkVars, jumpVars
<1>18. CASE JudgeBind
  <2>1. profile'.has = profile.has  BY <1>18 DEF JudgeBind, TypeOK, ProfileTypes, Profiles
  <2> QED  BY <1>a, <1>18, <2>1 DEF JudgeBind, RoomTick, streamVars, linkVars, jumpVars
<1>19. CASE Judge
  <2>1. profile'.has = profile.has  BY <1>19 DEF Judge, TypeOK, ProfileTypes, Profiles
  <2> QED  BY <1>a, <1>19, <2>1 DEF Judge, RoomTick, streamVars, linkVars, jumpVars
<1>20. CASE Capture
  BY <1>a, <1>20 DEF Capture, RoomTick, streamVars, linkVars, jumpVars
<1>21. CASE CaptureFails
  BY <1>a, <1>21 DEF CaptureFails, RoomTick, streamVars, linkVars, jumpVars
<1>22. CASE StartRun
  <2>1. /\ UNCHANGED <<watch, cands, lastAccept, deltas, active, newSession, mon, pc>> /\ pc # "push"
    BY <1>22 DEF StartRun, jumpVars, linkVars
  <2>2. profile'.has = profile.has \/ profile'.has
    BY <1>22 DEF StartRun
  <2> QED  BY <1>0, <1>e, <2>1, <2>2 DEF WatchInv
<1>23. CASE FinishRun
  <2>1. /\ UNCHANGED <<watch, cands, lastAccept, deltas, active, newSession, mon, pc>> /\ pc # "push"
    BY <1>23 DEF FinishRun, jumpVars, linkVars
  <2>2. profile'.has = profile.has \/ profile'.has
    BY <1>23 DEF FinishRun
  <2> QED  BY <1>0, <1>e, <2>1, <2>2 DEF WatchInv
<1>24. CASE EndRun
  <2>1. /\ UNCHANGED <<watch, cands, lastAccept, deltas, active, newSession, mon, pc>> /\ pc # "push"
    BY <1>24 DEF EndRun, jumpVars, linkVars
  <2>2. profile'.has = profile.has \/ profile'.has
    BY <1>24 DEF EndRun
  <2> QED  BY <1>0, <1>e, <2>1, <2>2 DEF WatchInv
<1> QED
  BY <1>1, <1>2, <1>3, <1>4, <1>5, <1>6, <1>7, <1>8, <1>9, <1>10, <1>11, <1>12, <1>13, <1>14,
     <1>15, <1>16, <1>17, <1>18, <1>19, <1>20, <1>21, <1>22, <1>23, <1>24 DEF Quiet

LEMMA QuietRun ==
  ASSUME TypeOK, JumpInv, Quiet
  PROVE  RunInv'
<1>0. UNCHANGED stream  BY QuietStream
<1>e. /\ run \in [at : 0 .. Len(stream), ticked : BOOLEAN] /\ RunInv /\ WatchInv
  BY DEF TypeOK, ProfileTypes, JumpInv
<1>a. ASSUME run' = run, pc' = pc \/ pc' = "push" \/ (pc # "push" /\ pc' # "idle"),
             pc' # "push" => UNCHANGED <<watch, cands, deltas>> /\ comped' \subseteq comped
      PROVE  RunInv'
  BY <1>0, <1>e, <1>a DEF RunInv, Running
<1>b. ASSUME run' = run, ~Running  PROVE RunInv'
  BY <1>b DEF RunInv, Running
<1>c. ASSUME run' = run, pc # "push", UNCHANGED <<watch, cands, deltas>>, comped' = {}
      PROVE  RunInv'
  BY <1>0, <1>e, <1>c DEF RunInv, Running
<1>1. CASE SessionBoundary  BY <1>a, <1>1 DEF SessionBoundary, verdictVars, jumpVars
<1>2. CASE Reopen  BY <1>a, <1>2 DEF Reopen, verdictVars, jumpVars
<1>3. CASE Recovered  BY <1>a, <1>3 DEF Recovered, verdictVars, jumpVars
<1>4. CASE GraceOver  BY <1>a, <1>4 DEF GraceOver, verdictVars, jumpVars
<1>5. CASE Park
  <2>1. run' = [run EXCEPT !.ticked = Running] /\ pc' = "drain" /\ (Running => ResetJumps)
    BY <1>5 DEF Park
  <2>2. run'.at = run.at  BY <1>e, <2>1
  <2>3. Running' = Running  BY <2>2 DEF Running
  <2>4. Running' => stream'[run'.at].kind = "good"  BY <1>0, <1>e, <2>2, <2>3 DEF RunInv
  <2>5. Running' => watch' = Nowhere /\ cands' = {} /\ deltas' = <<>>
    BY <2>1, <2>3, Zenon DEF ResetJumps, Nowhere
  <2>6. (pc = "idle")' <=> FALSE  BY <2>1
  <2> QED  BY <2>4, <2>5, <2>6 DEF RunInv
<1>6. CASE MonitorDrain  BY <1>a, <1>6 DEF MonitorDrain, verdictVars, jumpVars
<1>7. CASE PushSample  BY <1>a, <1>7 DEF PushSample, verdictVars, jumpVars
<1>8. CASE ApplyDelta  BY <1>b, <1>8 DEF ApplyDelta, RoomTick
<1>9. CASE MonitorDone
  <2>1. run' = [run EXCEPT !.ticked = Running] /\ pc' = "drain" /\ (Running => ResetJumps)
    BY <1>9 DEF MonitorDone
  <2>2. run'.at = run.at  BY <1>e, <2>1
  <2>3. Running' = Running  BY <2>2 DEF Running
  <2>4. Running' => stream'[run'.at].kind = "good"  BY <1>0, <1>e, <2>2, <2>3 DEF RunInv
  <2>5. Running' => watch' = Nowhere /\ cands' = {} /\ deltas' = <<>>
    BY <2>1, <2>3, Zenon DEF ResetJumps, Nowhere
  <2>6. (pc = "idle")' <=> FALSE  BY <2>1
  <2> QED  BY <2>4, <2>5, <2>6 DEF RunInv
<1>10. CASE Ripen  BY <1>b, <1>10 DEF Ripen, RoomTick
<1>11. CASE DropCandidate  BY <1>b, <1>11 DEF DropCandidate, RoomTick
<1>12. CASE Confirm  BY <1>b, <1>12 DEF Confirm, RoomTick
<1>13. CASE RefuseDelta  BY <1>b, <1>13 DEF RefuseDelta, RoomTick
<1>14. CASE SpaceClosed  BY <1>c, <1>14 DEF SpaceClosed, RoomTick, NoVerdict, jumpVars
<1>15. CASE SpaceDrain  BY <1>a, <1>15 DEF SpaceDrain, verdictVars, jumpVars
<1>16. CASE JudgeClear  BY <1>c, <1>16 DEF JudgeClear, RoomTick, NoVerdict, jumpVars
<1>17. CASE JudgeStale  BY <1>b, <1>17 DEF JudgeStale, RoomTick
<1>18. CASE JudgeBind  BY <1>b, <1>18 DEF JudgeBind, RoomTick
<1>19. CASE Judge  BY <1>b, <1>19 DEF Judge, RoomTick
<1>20. CASE Capture  BY <1>a, <1>20 DEF Capture, verdictVars, jumpVars
<1>21. CASE CaptureFails  BY <1>a, <1>21 DEF CaptureFails, verdictVars, jumpVars
<1>22. CASE StartRun
  <2>1. run' = [at |-> Len(stream), ticked |-> FALSE] /\ stream[Len(stream)].kind = "good"
    BY <1>22 DEF StartRun
  <2> QED  BY <1>0, <2>1 DEF RunInv
<1>23. CASE FinishRun
  <2>1. run' = [at |-> 0, ticked |-> FALSE]  BY <1>23 DEF FinishRun
  <2> QED  BY <2>1 DEF RunInv, Running
<1>24. CASE EndRun
  <2>1. run' = [at |-> 0, ticked |-> FALSE]  BY <1>24 DEF EndRun
  <2> QED  BY <2>1 DEF RunInv, Running
<1> QED
  BY <1>1, <1>2, <1>3, <1>4, <1>5, <1>6, <1>7, <1>8, <1>9, <1>10, <1>11, <1>12, <1>13, <1>14,
     <1>15, <1>16, <1>17, <1>18, <1>19, <1>20, <1>21, <1>22, <1>23, <1>24 DEF Quiet

-----------------------------------------------------------------------------
(* CalibrationSpace's steps.                                               *)

\* What was noted stays noted.
LEMMA NotedNext ==
  ASSUME UNCHANGED stream, NEW p \in Int, NEW q \in Int, p <= q, spc' = q,
         NEW t \in Transitions, Noted(t, p)
  PROVE  Noted(t, spc)'
<1>1. /\ W(t.n)' = W(t.n) /\ W(t.n - 1)' = W(t.n - 1) /\ U(t.n)' = U(t.n)
      /\ U(t.n - 1)' = U(t.n - 1) /\ (StepAt(t.n)' <=> StepAt(t.n))
  BY SamePoses
<1>2. t.n \in 1 .. spc'  BY DEF Noted
<1> QED  BY <1>1, <1>2 DEF Noted

LEMMA QuietSpace ==
  ASSUME TypeOK, SpaceInv, Quiet
  PROVE  SpaceInv'
<1>0. UNCHANGED stream  BY QuietStream
<1>e. /\ spc \in 0 .. Len(stream) /\ Len(stream) \in Nat /\ Len(stream') = Len(stream)
      /\ trans \in Seq(Transitions) /\ seen \in Seq(Transitions)
      /\ hmd \in Endpoints
  BY <1>0 DEF TypeOK, StreamTypes, VerdictTypes
<1>a. ASSUME UNCHANGED <<spc, hmd, crossing>>,
             trans' = trans \/ trans' = <<>>, seen' = seen \/ seen' = <<>>
      PROVE  SpaceInv'
  <2>1. HmdAt(hmd, spc)'  BY <1>0, <1>a DEF SpaceInv, HmdAt, Gapped
  <2>2. ASSUME NEW t \in Transitions, Noted(t, spc) PROVE Noted(t, spc)'
    <3>1. spc \in Int /\ spc' \in Int /\ spc <= spc'  BY <1>e, <1>a
    <3> QED  BY <1>0, <2>2, <3>1, NotedNext
  <2>3. \A t \in Transitions : (\E k \in 1 .. Len(trans') : trans'[k] = t) => Noted(t, spc)'
    <3>1. CASE trans' = trans  BY <2>2, <3>1 DEF SpaceInv
    <3>2. CASE trans' = <<>>  BY <3>2
    <3> QED  BY <1>a, <3>1, <3>2
  <2>4. \A t \in Transitions : (\E k \in 1 .. Len(seen') : seen'[k] = t) => Noted(t, spc)'
    <3>1. CASE seen' = seen  BY <2>2, <3>1 DEF SpaceInv
    <3>2. CASE seen' = <<>>  BY <3>2
    <3> QED  BY <1>a, <3>1, <3>2
  <2> QED  BY <2>1, <2>3, <2>4 DEF SpaceInv
<1>1. CASE SessionBoundary
  <2>1. spc' = Len(stream) /\ crossing' /\ UNCHANGED <<hmd, trans, seen>>
    BY <1>1 DEF SessionBoundary, verdictVars
  <2>2. HmdAt(hmd, spc)'  BY <1>0, <1>e, <2>1 DEF SpaceInv, HmdAt, Gapped, TypeOK, VerdictTypes,
                             Placed
  <2>3. ASSUME NEW t \in Transitions, Noted(t, spc) PROVE Noted(t, spc)'
    <3>1. spc \in Int /\ spc' \in Int /\ spc <= spc'  BY <1>e, <2>1
    <3> QED  BY <1>0, <2>3, <3>1, NotedNext
  <2> QED  BY <2>1, <2>2, <2>3 DEF SpaceInv
<1>2. CASE Reopen
  BY <1>a, <1>2 DEF Reopen, RoomTick, NoVerdict, streamVars, verdictVars
<1>3. CASE Recovered
  BY <1>a, <1>3 DEF Recovered, RoomTick, NoVerdict, streamVars, verdictVars
<1>4. CASE GraceOver
  BY <1>a, <1>4 DEF GraceOver, RoomTick, NoVerdict, streamVars, verdictVars
<1>5. CASE Park
  BY <1>a, <1>5 DEF Park, RoomTick, NoVerdict, streamVars, verdictVars
<1>6. CASE MonitorDrain
  BY <1>a, <1>6 DEF MonitorDrain, RoomTick, NoVerdict, streamVars, verdictVars
<1>7. CASE PushSample
  BY <1>a, <1>7 DEF PushSample, RoomTick, NoVerdict, streamVars, verdictVars
<1>8. CASE ApplyDelta
  BY <1>a, <1>8 DEF ApplyDelta, RoomTick, NoVerdict, streamVars, verdictVars
<1>9. CASE MonitorDone
  BY <1>a, <1>9 DEF MonitorDone, RoomTick, NoVerdict, streamVars, verdictVars
<1>10. CASE Ripen
  BY <1>a, <1>10 DEF Ripen, RoomTick, NoVerdict, streamVars, verdictVars
<1>11. CASE DropCandidate
  BY <1>a, <1>11 DEF DropCandidate, RoomTick, NoVerdict, streamVars, verdictVars
<1>12. CASE Confirm
  BY <1>a, <1>12 DEF Confirm, RoomTick, NoVerdict, streamVars, verdictVars
<1>13. CASE RefuseDelta
  BY <1>a, <1>13 DEF RefuseDelta, RoomTick, NoVerdict, streamVars, verdictVars
<1>14. CASE SpaceClosed
  <2>1. hmd' = [state |-> "empty", n |-> 0] /\ trans' = <<>> /\ seen' = <<>>
    BY <1>14 DEF SpaceClosed, NoVerdict
  <2> QED  BY <2>1 DEF SpaceInv, HmdAt
<1>15. CASE SpaceDrain
  <2>1. Cached \in Caches /\ CachedBy(Cached, BatchEnd(spc))
    <3>1. StreamTypes /\ hmd \in Endpoints /\ Placed(hmd) /\ HmdAt(hmd, spc)
      BY DEF TypeOK, VerdictTypes, SpaceInv
    <3>2. room.ver \in BOOLEAN  BY DEF TypeOK, ProfileTypes, Rooms
    <3> QED  BY <3>1, <3>2, CachedFacts
  <2>2. PICK q \in Nat : q = BatchEnd(spc) /\ q \in spc .. Len(stream)
    <3>1. BatchEnd(spc) \in spc .. Len(stream)  BY <1>e, BatchEndFacts DEF TypeOK
    <3> QED  BY <1>e, <3>1
  <2>3. PICK end \in Caches : end = Cached /\ CachedBy(end, q)  BY <2>1, <2>2
  <2>4. /\ spc' = q /\ hmd' = end.hmd /\ seen' = end.seen /\ trans' = trans \o end.seen
        /\ UNCHANGED crossing
    BY <1>15, <2>2, <2>3 DEF SpaceDrain, streamVars
  <2>5. end.hmd \in Endpoints /\ end.seen \in Seq(Transitions)  BY DEF Caches
  <2>6. HmdAt(hmd, spc)'
    <3>1. HmdAt(end.hmd, q)  BY <2>3 DEF CachedBy
    <3> QED  BY <1>0, <2>4, <3>1 DEF HmdAt, Gapped
  <2>7. ASSUME NEW t \in Transitions, Noted(t, spc) \/ Noted(t, q) PROVE Noted(t, spc)'
    <3>1. spc \in Int /\ q \in Int /\ spc <= q /\ q <= q  BY <1>e, <2>2
    <3> QED  BY <1>0, <2>4, <2>7, <3>1, NotedNext
  <2>8. \A k \in 1 .. Len(end.seen) : Noted(end.seen[k], q)  BY <2>3 DEF CachedBy
  <2>9. \A t \in Transitions : (\E k \in 1 .. Len(seen') : seen'[k] = t) => Noted(t, spc)'
    BY <2>4, <2>7, <2>8
  <2>10. ASSUME NEW t \in Transitions, NEW k \in 1 .. Len(trans'), trans'[k] = t
         PROVE  Noted(t, spc)'
    <3>1. CASE k \in 1 .. Len(trans)
      <4>1. trans[k] = t  BY <1>e, <2>4, <2>5, <2>10, <3>1
      <4>2. Noted(t, spc)  BY <3>1, <4>1 DEF SpaceInv
      <4> QED  BY <2>7, <4>2
    <3>2. CASE k \notin 1 .. Len(trans)
      <4>1. k - Len(trans) \in 1 .. Len(end.seen) /\ end.seen[k - Len(trans)] = t
        BY <1>e, <2>4, <2>5, <2>10, <3>2
      <4> QED  BY <2>7, <2>8, <4>1
    <3> QED  BY <3>1, <3>2
  <2> QED  BY <2>6, <2>9, <2>10 DEF SpaceInv
<1>16. CASE JudgeClear
  BY <1>a, <1>16 DEF JudgeClear, RoomTick, NoVerdict, streamVars, verdictVars
<1>17. CASE JudgeStale
  BY <1>a, <1>17 DEF JudgeStale, RoomTick, NoVerdict, streamVars, verdictVars
<1>18. CASE JudgeBind
  BY <1>a, <1>18 DEF JudgeBind, RoomTick, NoVerdict, streamVars, verdictVars
<1>19. CASE Judge
  <2>1. UNCHANGED <<spc, hmd, crossing>> /\ seen' = <<>>
    BY <1>19 DEF Judge, RoomTick, streamVars
  <2>2. trans' = <<>> \/ trans' = Walk(profile.w, trans).kept
    BY <1>19 DEF Judge, NoVerdict
  <2>3. CASE trans' = <<>>  BY <1>a, <2>1, <2>3
  <2>4. CASE trans' = Walk(profile.w, trans).kept
    <3>1. \A k \in 1 .. Len(Walk(profile.w, trans).kept) :
            \E l \in 1 .. Len(trans) : Walk(profile.w, trans).kept[k] = trans[l]
      <4>1. profile.w \in Int /\ trans \in Seq(Transitions)
        BY DEF Profiles, TypeOK, VerdictTypes, ProfileTypes
      <4> DEFINE R == Int
      <4>2. \A k \in 1 .. Len(trans) : trans[k].to \in R
        <5>1. \A k \in 1 .. Len(trans) : trans[k] \in Transitions  BY <1>e
        <5> QED  BY <5>1 DEF Transitions
      <4> HIDE DEF R
      <4>3. profile.w \in R  BY <4>1 DEF R
      <4> QED  BY <4>1, <4>2, <4>3, WalkFacts
    <3>2. ASSUME NEW t \in Transitions, NEW k \in 1 .. Len(trans'), trans'[k] = t
          PROVE  Noted(t, spc)'
      <4>1. PICK l \in 1 .. Len(trans) : trans[l] = t  BY <2>4, <3>1, <3>2
      <4>2. Noted(t, spc)  BY <4>1 DEF SpaceInv
      <4>3. spc \in Int /\ spc' \in Int /\ spc <= spc'  BY <1>e, <2>1
      <4> QED  BY <1>0, <4>2, <4>3, NotedNext
    <3>3. HmdAt(hmd, spc)'  BY <1>0, <2>1 DEF SpaceInv, HmdAt, Gapped
    <3>4. \A t \in Transitions : ~(\E k \in 1 .. Len(seen') : seen'[k] = t)  BY <2>1
    <3> QED  BY <3>2, <3>3, <3>4 DEF SpaceInv
  <2> QED  BY <2>2, <2>3, <2>4
<1>20. CASE Capture
  BY <1>a, <1>20 DEF Capture, RoomTick, NoVerdict, streamVars, verdictVars
<1>21. CASE CaptureFails
  BY <1>a, <1>21 DEF CaptureFails, RoomTick, NoVerdict, streamVars, verdictVars
<1>22. CASE StartRun
  BY <1>a, <1>22 DEF StartRun, RoomTick, NoVerdict, streamVars, verdictVars
<1>23. CASE FinishRun
  BY <1>a, <1>23 DEF FinishRun, RoomTick, NoVerdict, streamVars, verdictVars
<1>24. CASE EndRun
  BY <1>a, <1>24 DEF EndRun, RoomTick, NoVerdict, streamVars, verdictVars
<1> QED
  BY <1>1, <1>2, <1>3, <1>4, <1>5, <1>6, <1>7, <1>8, <1>9, <1>10, <1>11, <1>12, <1>13, <1>14,
     <1>15, <1>16, <1>17, <1>18, <1>19, <1>20, <1>21, <1>22, <1>23, <1>24 DEF Quiet

-----------------------------------------------------------------------------
(* The books.                                                              *)

\* An account stands while nothing is compensated.
LEMMA AccountKept ==
  ASSUME UNCHANGED stream, Len(stream) \in Nat, comped' \subseteq comped,
         \A n \in Nat : Future(n)' => Future(n),
         NEW g, NEW total, NEW refs, NEW fewer \in SUBSET refs, Account(g, total, refs)
  PROVE  Account(g, total, fewer)'
<1>1. Len(stream') = Len(stream) /\ \A i : W(i)' = W(i) /\ U(i)' = U(i)  BY SamePoses
<1>2. g[Len(stream')] = total  BY <1>1 DEF Account
<1>3. \A n \in 1 .. Len(stream') : Future(n)' => \A i \in n - 1 .. Len(stream') : g[i] = total
  BY <1>1 DEF Account
<1>4. \A i, j \in 0 .. Len(stream') : W(i)' = W(j)' => g[i] = g[j]  BY <1>1 DEF Account
<1>5. \A i \in 1 .. Len(stream') : U(i)' = U(i - 1)' => g[i] = g[i - 1]  BY <1>1 DEF Account
<1>6. \A m \in comped' : g[m] - g[m - 1] = U(m)' - U(m - 1)'  BY <1>1 DEF Account
<1>7. \A i \in 0 .. Len(stream') : W(i)' \in fewer => g[i] = U(i)'  BY <1>1 DEF Account
<1> QED  BY <1>2, <1>3, <1>4, <1>5, <1>6, <1>7 DEF Account

\* What stands where the universe is in the given worlds, with nothing compensated.
LEMMA FlatAccount ==
  ASSUME UNCHANGED stream, Len(stream) \in Nat, comped' = {}, NEW total \in Int, NEW refs,
         \A i \in 0 .. Len(stream) : W(i) \in refs => U(i) = total
  PROVE  \E g \in [0 .. Len(stream') -> Int] : Account(g, total, refs)'
<1>1. Len(stream') = Len(stream) /\ \A i : W(i)' = W(i) /\ U(i)' = U(i)  BY SamePoses
<1>2. PICK g : g = [i \in 0 .. Len(stream') |-> total]  OBVIOUS
<1>3. g \in [0 .. Len(stream') -> Int] /\ \A i \in 0 .. Len(stream') : g[i] = total
  BY <1>2
<1>4. g[Len(stream')] = total  BY <1>1, <1>3
<1>5. \A n \in 1 .. Len(stream') : \A i \in n - 1 .. Len(stream') : g[i] = total
  BY <1>1, <1>3
<1>6. \A i \in 1 .. Len(stream') : g[i] = g[i - 1]  BY <1>1, <1>3
<1>7. \A i \in 0 .. Len(stream') : W(i)' \in refs => g[i] = U(i)'  BY <1>1, <1>3
<1>8. Account(g, total, refs)'  BY <1>3, <1>4, <1>5, <1>6, <1>7 DEF Account
<1> QED  BY <1>3, <1>8

\* The books balance when there is an account of what they hold.
LEMMA CalBalances ==
  ASSUME NEW total, NEW refs, total = profile'.cal, refs = ProfileRefs',
         \E g \in [0 .. Len(stream') -> Int] : Account(g, total, refs)'
  PROVE  CalInv'
<1>1. PICK g \in [0 .. Len(stream') -> Int] : Account(g, total, refs)'  OBVIOUS
<1>2. Account(g, profile.cal, ProfileRefs)'  BY <1>1 DEF Account
<1>3. Accounted(profile.cal, ProfileRefs)'  BY <1>2 DEF Accounted
<1> QED  BY <1>3 DEF CalInv

LEMMA RoomBalances ==
  ASSUME NEW total, NEW w, total = room'.at, w = room'.w, Visited(w)',
         \E g \in [0 .. Len(stream') -> Int] : Account(g, total, {w})',
         ~profile'.has => \A i \in 0 .. Len(stream') : W(i)' = w => U(i)' = total
  PROVE  RoomInv'
<1>1. PICK g \in [0 .. Len(stream') -> Int] : Account(g, total, {w})'  OBVIOUS
<1>2. Account(g, room.at, {room.w})'  BY <1>1 DEF Account
<1>3. Accounted(room.at, {room.w})'  BY <1>2 DEF Accounted
<1>4. Visited(room.w)'  BY DEF Visited
<1> QED  BY <1>3, <1>4 DEF RoomInv

LEMMA FutureBalances ==
  ASSUME UNCHANGED stream, mon' >= mon, mon \in Int, mon' \in Int, FutureInv,
         comped' \subseteq comped, \A n \in Nat : Future(n)' => Future(n),
         profile'.has => profile.has /\ Ref' = Ref
  PROVE  FutureInv'
<1>1. Len(stream') = Len(stream) /\ \A i : W(i)' = W(i) /\ U(i)' = U(i)  BY SamePoses
<1>2. \A m \in comped' : StepAt(m)' /\ m <= mon'
  <2> SUFFICES ASSUME NEW m \in comped' PROVE StepAt(m)' /\ m <= mon'  OBVIOUS
  <2>1. StepAt(m) /\ m <= mon /\ m \in Int  BY DEF FutureInv, StepAt
  <2>2. StepAt(m)'  BY <2>1, SamePoses
  <2> QED  BY <2>1, <2>2
<1>3. ASSUME profile'.has
      PROVE  /\ Visited(Ref)'
             /\ \A n \in 1 .. Len(stream') : Future(n)' =>
                  W(n - 1)' >= Ref' /\ \A m \in comped' : m < n
  <2>1. Visited(Ref) /\ Ref' = Ref  BY <1>3 DEF FutureInv
  <2>2. PICK i \in 0 .. Len(stream) : W(i) = Ref  BY <2>1 DEF Visited
  <2>3. Visited(Ref)'  BY <1>1, <2>1, <2>2 DEF Visited
  <2>4. ASSUME NEW n \in 1 .. Len(stream'), Future(n)'
        PROVE  W(n - 1)' >= Ref' /\ \A m \in comped' : m < n
    <3>1. n \in 1 .. Len(stream) /\ Future(n)  BY <1>1, <2>4
    <3>2. W(n - 1) >= Ref /\ \A m \in comped : m < n  BY <1>3, <3>1 DEF FutureInv
    <3> QED  BY <1>1, <2>1, <3>2
  <2> QED  BY <2>3, <2>4
<1> QED  BY <1>2, <1>3 DEF FutureInv

\* An account stands for a calibration, or a room, that does not move.
LEMMA CalKept ==
  ASSUME UNCHANGED stream, Len(stream) \in Nat, CalInv, profile.has,
         comped' \subseteq comped, \A n \in Nat : Future(n)' => Future(n),
         profile'.cal = profile.cal, ProfileRefs' \subseteq ProfileRefs
  PROVE  CalInv'
<1>1. Len(stream') = Len(stream)  OBVIOUS
<1>2. PICK g \in [0 .. Len(stream) -> Int] : Account(g, profile.cal, ProfileRefs)
  BY DEF CalInv, Accounted
<1>3. PICK t, r, s : t = profile.cal /\ r = ProfileRefs /\ s = ProfileRefs'  OBVIOUS
<1>4. Account(g, t, r)  BY <1>2, <1>3
<1>5. s \in SUBSET r  BY <1>3
<1>6. Account(g, t, s)'
  BY ONLY UNCHANGED stream, Len(stream) \in Nat, comped' \subseteq comped,
          \A n \in Nat : Future(n)' => Future(n), <1>4, <1>5, AccountKept
<1>7. t = profile'.cal /\ s = ProfileRefs'  BY <1>3
<1>8. \E h \in [0 .. Len(stream') -> Int] : Account(h, t, s)'  BY <1>1, <1>6
<1> QED  BY <1>7, <1>8, CalBalances

LEMMA RoomKept ==
  ASSUME UNCHANGED stream, Len(stream) \in Nat, RoomInv, profile.has => profile'.has,
         comped' \subseteq comped, \A n \in Nat : Future(n)' => Future(n),
         room'.valid = room.valid, room'.w = room.w, room'.at = room.at,
         room'.leapt = room.leapt
  PROVE  RoomInv'
<1>1. Len(stream') = Len(stream) /\ (\A i : W(i)' = W(i) /\ U(i)' = U(i))  BY SamePoses
<1>2. CASE ~(room.valid /\ ~room.leapt)  BY <1>2 DEF RoomInv
<1>3. CASE room.valid /\ ~room.leapt
  <2>1. PICK g \in [0 .. Len(stream) -> Int] : Account(g, room.at, {room.w})
    BY <1>3 DEF RoomInv, Accounted
  <2>2. PICK t, w : t = room.at /\ w = room.w  OBVIOUS
  <2>3. Account(g, t, {w})  BY <2>1, <2>2
  <2>4. {w} \in SUBSET {w}  OBVIOUS
  <2>5. Account(g, t, {w})'
    BY ONLY UNCHANGED stream, Len(stream) \in Nat, comped' \subseteq comped,
            \A n \in Nat : Future(n)' => Future(n), <2>3, <2>4, AccountKept
  <2>6. t = room'.at /\ w = room'.w  BY <2>2
  <2>7. \E h \in [0 .. Len(stream') -> Int] : Account(h, t, {w})'  BY <1>1, <2>5
  <2>8. Visited(w)'
    <3>1. Visited(w)  BY <1>3, <2>2 DEF RoomInv
    <3> QED  BY <1>1, <3>1 DEF Visited
  <2>9. ~profile'.has => \A i \in 0 .. Len(stream') : W(i)' = w => U(i)' = t
    BY <1>1, <1>3, <2>2 DEF RoomInv
  <2> QED  BY <2>6, <2>7, <2>8, <2>9, RoomBalances
<1> QED  BY <1>2, <1>3

\* A step that moves neither the calibration nor the room.
LEMMA BooksCarried ==
  ASSUME TypeOK, UNCHANGED stream, mon' >= mon, mon \in Int, mon' \in Int,
         FutureInv, CalInv, RoomInv,
         comped' \subseteq comped, \A n \in Nat : Future(n)' => Future(n),
         profile'.has = profile.has, profile'.cal = profile.cal,
         Ref' = Ref, ProfileRefs' \subseteq ProfileRefs,
         room'.valid = room.valid, room'.w = room.w, room'.at = room.at,
         room'.leapt = room.leapt
  PROVE  FutureInv' /\ CalInv' /\ RoomInv'
<1>1. Len(stream) \in Nat  BY DEF TypeOK, StreamTypes
<1>2. FutureInv'  BY FutureBalances
<1>3. CalInv'
  <2>1. CASE ~profile.has  BY <2>1 DEF CalInv
  <2>2. CASE profile.has  BY <1>1, <2>2, CalKept
  <2> QED  BY <2>1, <2>2
<1>4. RoomInv'  BY <1>1, RoomKept
<1> QED  BY <1>2, <1>3, <1>4

LEMMA BooksKept ==
  ASSUME TypeOK, UNCHANGED stream, mon' >= mon, mon \in Int, mon' \in Int,
         FutureInv, BindInv, CalInv, RoomInv,
         comped' \subseteq comped, \A n \in Nat : Future(n)' => Future(n),
         profile'.has = profile.has, profile'.bound = profile.bound, profile'.w = profile.w,
         profile'.cal = profile.cal, profile'.from = profile.from,
         profile'.unsafe = profile.unsafe,
         room'.valid = room.valid, room'.w = room.w, room'.at = room.at,
         room'.leapt = room.leapt
  PROVE  FutureInv' /\ BindInv' /\ CalInv' /\ RoomInv'
<1>1. Ref' = Ref  BY DEF Ref
<1>2. ProfileRefs' = ProfileRefs  BY <1>1 DEF ProfileRefs, Sound
<1>3. BindInv'  BY DEF BindInv
<1> QED  BY <1>1, <1>2, <1>3, BooksCarried

\* Where a room of w stands still, it stands still after its own walk.
LEMMA WalkedInPlace ==
  ASSUME TypeOK, StreamInv, SpaceInv, Visited(room.w),
         \A i \in 0 .. Len(stream) : W(i) = room.w => U(i) = room.at
  PROVE  /\ RoomEnd(room) \in RoomWalks /\ Visited(RoomEnd(room).w)
         /\ \A i \in 0 .. Len(stream) : W(i) = RoomEnd(room).w => U(i) = RoomEnd(room).at
<1> DEFINE Still_(w, a) == Visited(w) /\ \A i \in 0 .. Len(stream) : W(i) = w => U(i) = a
           R == {x \in Int \X Int : Still_(x[1], x[2])}
<1>1. /\ room.w \in Int /\ room.at \in Int /\ seen \in Seq(Transitions) /\ Len(stream) \in Nat
      /\ spc \in 0 .. Len(stream)
  BY DEF TypeOK, StreamTypes, VerdictTypes, ProfileTypes, Rooms
<1>2. \A w, a \in Int : <<w, a>> \in R <=> Still_(w, a)  OBVIOUS
<1>3. <<room.w, room.at>> \in R  BY <1>1
<1>4. ASSUME NEW k \in 1 .. Len(seen), NEW a \in Int, <<seen[k].from, a>> \in R
      PROVE  /\ seen[k].composed => <<seen[k].to, a>> \in R
             /\ seen[k].local => <<seen[k].to, a + seen[k].to - seen[k].from>> \in R
  <2>1. PICK t \in Transitions : t = seen[k]  BY <1>1
  <2>2. t.n \in Nat /\ t.from \in Int /\ t.to \in Int  BY DEF Transitions
  <2>3. Noted(t, spc)  BY <1>1, <2>1 DEF SpaceInv
  <2>4. t.n \in 1 .. Len(stream) /\ t.to = W(t.n)  BY <1>1, <2>3 DEF Noted
  <2>5. Still_(t.from, a)  BY <1>2, <1>4, <2>1, <2>2
  <2>6. \A i \in 0 .. Len(stream) : W(i) = t.to => U(i) = U(t.n)
    <3> SUFFICES ASSUME NEW i \in 0 .. Len(stream), W(i) = W(t.n) PROVE U(i) = U(t.n)
      BY <2>4
    <3>1. t.n \in 0 .. Len(stream) /\ (i <= t.n \/ t.n <= i)  BY <1>1, <2>4
    <3> QED  BY <3>1 DEF StreamInv
  <2>7. Visited(t.to)
    <3>1. t.n \in 0 .. Len(stream)  BY <1>1, <2>4
    <3> QED  BY <2>4, <3>1 DEF Visited
  <2>8. ASSUME t.composed \/ t.local PROVE t.n - 1 \in 0 .. Len(stream) /\ U(t.n - 1) = a
    <3>1. t.n >= 2 /\ t.from = W(t.n - 1)  BY <2>3, <2>8 DEF Noted
    <3>2. t.n - 1 \in 0 .. Len(stream)  BY <1>1, <2>4, <3>1
    <3> QED  BY <2>5, <3>1, <3>2
  <2>9. ASSUME t.composed PROVE <<t.to, a>> \in R
    <3>1. U(t.n) = U(t.n - 1)  BY <2>3, <2>9 DEF Noted
    <3>2. U(t.n) = a  BY <2>8, <2>9, <3>1
    <3> QED  BY <1>2, <2>2, <2>6, <2>7, <3>2
  <2>10. ASSUME t.local PROVE <<t.to, a + t.to - t.from>> \in R
    <3>1. U(t.n) - U(t.n - 1) = t.to - t.from  BY <2>3, <2>10 DEF Noted
    <3>2. U(t.n) \in Int /\ U(t.n - 1) = a  BY <1>1, <2>4, <2>8, <2>10, SampleFacts DEF TypeOK
    <3>3. PICK b \in Int, c \in Int, e \in Int : b = U(t.n) /\ c = t.to /\ e = t.from
      BY <2>2, <3>2
    <3>4. b - a = c - e  BY <3>1, <3>2, <3>3
    <3>5. b = a + c - e  BY <3>4
    <3>6. U(t.n) = a + t.to - t.from /\ a + t.to - t.from \in Int  BY <3>3, <3>5
    <3> QED  BY <1>2, <2>2, <2>6, <2>7, <3>6
  <2> QED  BY <2>1, <2>9, <2>10
<1> DEFINE end == RoomEnd(room)
<1>5. end = Along(Reanchor, [w |-> room.w, at |-> room.at, lost |-> FALSE], seen)
  BY DEF RoomEnd
<1>6. \A x \in R : x[1] \in Int /\ x[2] \in Int /\ Still_(x[1], x[2])  OBVIOUS
<1> HIDE DEF R, end
<1>7. \A k \in 1 .. Len(seen), a \in Int : <<seen[k].from, a>> \in R =>
        /\ seen[k].composed => <<seen[k].to, a>> \in R
        /\ seen[k].local => <<seen[k].to, a + seen[k].to - seen[k].from>> \in R
  BY <1>4
<1>8. end \in RoomWalks /\ <<end.w, end.at>> \in R
  BY ONLY <1>1, <1>3, <1>5, <1>7, ReanchorFacts
<1>9. Still_(end.w, end.at)  BY <1>6, <1>8
<1> QED  BY <1>8, <1>9 DEF end

\* The end of a tick whose verdict moves nothing.
LEMMA RoomTickBalances ==
  ASSUME TypeOK, StreamInv, SpaceInv, UNCHANGED stream, mon' >= mon, mon \in Int, mon' \in Int,
         FutureInv, BindInv, CalInv, RoomInv,
         comped' \subseteq comped, \A n \in Nat : Future(n)' => Future(n),
         UNCHANGED profile, RoomTick(room)
  PROVE  FutureInv' /\ BindInv' /\ CalInv' /\ RoomInv'
<1>1. PICK q \in RoomAfter(room) : q = room'  BY DEF RoomTick
<1>2. /\ \/ room'.valid = room.valid /\ room'.w = room.w /\ room'.at = room.at
            /\ room'.leapt = room.leapt
         \/ ~profile.has /\ ~room'.valid
         \/ /\ ~profile.has /\ room.valid /\ room'.leapt = room.leapt
            /\ room'.w = RoomEnd(room).w /\ room'.at = RoomEnd(room).at
  <2>1. room \in Rooms /\ seen \in Seq(Transitions)
    BY DEF TypeOK, VerdictTypes, ProfileTypes
  <2> QED  BY <1>1, <2>1, RoomAfterCases
<1>3. CASE room'.valid = room.valid /\ room'.w = room.w /\ room'.at = room.at
           /\ room'.leapt = room.leapt
  BY <1>3, BooksKept
<1>4. ASSUME ~profile.has PROVE FutureInv' /\ BindInv' /\ CalInv'
  <2>1. FutureInv'
    <3>1. ~profile'.has  BY <1>4
    <3> QED  BY <3>1, FutureBalances
  <2>2. BindInv'  BY <1>4 DEF BindInv
  <2>3. CalInv'  BY <1>4 DEF CalInv
  <2> QED  BY <2>1, <2>2, <2>3
<1>5. CASE ~profile.has /\ ~room'.valid
  <2>1. RoomInv'  BY <1>5 DEF RoomInv
  <2> QED  BY <1>4, <1>5, <2>1
<1>6. CASE /\ ~profile.has /\ room.valid /\ room'.leapt = room.leapt
           /\ room'.w = RoomEnd(room).w /\ room'.at = RoomEnd(room).at
  <2>1. CASE room.leapt
    <3>1. RoomInv'  BY <1>6, <2>1 DEF RoomInv
    <3> QED  BY <1>4, <1>6, <3>1
  <2>2. CASE ~room.leapt
    <3>1. /\ Visited(room.w)
          /\ \A i \in 0 .. Len(stream) : W(i) = room.w => U(i) = room.at
      BY <1>6, <2>2 DEF RoomInv
    <3>2. PICK w \in Int, a \in Int :
            /\ w = room'.w /\ a = room'.at /\ Visited(w)
            /\ \A i \in 0 .. Len(stream) : W(i) = w => U(i) = a
      <4>1. /\ RoomEnd(room) \in RoomWalks /\ Visited(RoomEnd(room).w)
            /\ \A i \in 0 .. Len(stream) : W(i) = RoomEnd(room).w => U(i) = RoomEnd(room).at
        BY <3>1, WalkedInPlace
      <4>2. RoomEnd(room).w \in Int /\ RoomEnd(room).at \in Int  BY <4>1 DEF RoomWalks
      <4> QED  BY <1>6, <4>1, <4>2
    <3>3. Len(stream) \in Nat /\ Len(stream') = Len(stream) /\ \A i : W(i)' = W(i) /\ U(i)' = U(i)
      BY SamePoses DEF TypeOK, StreamTypes
    <3>4. comped' = {}  BY <1>6 DEF BindInv
    <3>5. \A i \in 0 .. Len(stream) : W(i) \in {w} => U(i) = a  BY <3>2
    <3>6. \E g \in [0 .. Len(stream') -> Int] : Account(g, a, {w})'
      BY ONLY UNCHANGED stream, <3>2, <3>3, <3>4, <3>5, FlatAccount
    <3>7. Visited(w)'  BY <3>2, <3>3 DEF Visited
    <3>8. \A i \in 0 .. Len(stream') : W(i)' = w => U(i)' = a  BY <3>2, <3>3
    <3>9. RoomInv'  BY <3>2, <3>6, <3>7, <3>8, RoomBalances
    <3> QED  BY <1>4, <1>6, <3>9
  <2> QED  BY <2>1, <2>2
<1> QED  BY <1>2, <1>3, <1>5, <1>6

\* A transition that the verdict follows is one change of WFD.
LEMMA FollowedMoves ==
  ASSUME TypeOK, SpaceInv, FutureInv, NEW k \in 1 .. Len(trans),
         trans[k].composed \/ trans[k].n \in comped
  PROVE  /\ trans[k].n \in 2 .. Len(stream)
         /\ trans[k].from = W(trans[k].n - 1) /\ trans[k].to = W(trans[k].n)
         /\ W(trans[k].n) # W(trans[k].n - 1)
         /\ trans[k].composed => U(trans[k].n) = U(trans[k].n - 1)
<1>1. PICK t \in Transitions : t = trans[k]  BY DEF TypeOK, VerdictTypes
<1>2. Len(stream) \in Nat /\ spc \in 0 .. Len(stream)  BY DEF TypeOK, StreamTypes
<1>3. Noted(t, spc)  BY <1>1 DEF SpaceInv
<1>4. t.composed \/ StepAt(t.n)  BY <1>1 DEF FutureInv
<1>5. t.n \in 1 .. spc /\ t.to = W(t.n)  BY <1>3 DEF Noted
<1>6. t.n >= 2 /\ t.from = W(t.n - 1) /\ W(t.n) # W(t.n - 1)  BY <1>3, <1>4 DEF Noted
<1>7. t.composed => U(t.n) = U(t.n - 1)  BY <1>3 DEF Noted
<1>8. t.n \in 2 .. Len(stream)  BY <1>2, <1>5, <1>6
<1> QED  BY <1>1, <1>5, <1>6, <1>7, <1>8

\* A step that may still be compensated is a change of WFD.
LEMMA FutureMoves ==
  ASSUME TypeOK, StreamInv, StepsInv, NEW n \in 1 .. Len(stream), Future(n)
  PROVE  U(n) # U(n - 1) /\ W(n) > W(n - 1)
<1>1. Len(stream) \in Nat /\ n - 1 \in 0 .. Len(stream) /\ n \in 0 .. Len(stream)
      /\ W(n) \in Int /\ W(n - 1) \in Int
  BY SampleFacts DEF TypeOK, StreamTypes
<1>2. U(n) # U(n - 1)
  <2>1. CASE \E k \in 1 .. Len(deltas) : deltas[k].n = n
    <3>1. PICK k \in 1 .. Len(deltas) : deltas[k].n = n  BY <2>1
    <3>2. deltas[k] \in Deltas  BY DEF TypeOK, JumpTypes
    <3>3. DeltaOK(deltas[k])  BY <3>2 DEF StepsInv
    <3> QED  BY <3>1, <3>3 DEF DeltaOK
  <2>2. CASE \E c \in cands : c.n = n /\ c.from > lastAccept
    BY <2>2 DEF StepsInv, CandOK
  <2> QED  BY <2>1, <2>2 DEF Future
<1>3. W(n) # W(n - 1)  BY <1>1, <1>2 DEF StreamInv
<1>4. W(n - 1) <= W(n)  BY <1>1 DEF StreamInv
<1> QED  BY <1>1, <1>2, <1>3, <1>4

\* The walk does not get past a step that may still be compensated.
LEMMA WalkBounds ==
  ASSUME TypeOK, StreamInv, StepsInv, SpaceInv, FutureInv, profile.has, profile.bound
  PROVE  /\ Walk(profile.w, trans) \in Walks
         /\ Walk(profile.w, trans).ref \in Int /\ Visited(Walk(profile.w, trans).ref)
         /\ \A n \in 1 .. Len(stream) : Future(n) => W(n - 1) >= Walk(profile.w, trans).ref
<1> DEFINE Low(w) == Visited(w) /\ \A n \in 1 .. Len(stream) : Future(n) => W(n - 1) >= w
           R == {w \in Int : Low(w)}
<1>1. /\ profile.w \in Int /\ trans \in Seq(Transitions) /\ Len(stream) \in Nat
      /\ Ref = profile.w
  BY DEF TypeOK, StreamTypes, VerdictTypes, ProfileTypes, Profiles, Ref
<1>2. profile.w \in R  BY <1>1 DEF FutureInv
<1>3. ASSUME NEW k \in 1 .. Len(trans), trans[k].from \in R,
             trans[k].composed \/ trans[k].n \in comped
      PROVE  trans[k].to \in R
  <2>1. PICK t \in Transitions : t = trans[k]  BY <1>1
  <2>2. /\ t.n \in 2 .. Len(stream) /\ t.from = W(t.n - 1) /\ t.to = W(t.n)
        /\ t.composed => U(t.n) = U(t.n - 1)
        /\ t.from \in R /\ (t.composed \/ t.n \in comped) /\ t.to \in Int
    BY <1>3, <2>1, FollowedMoves DEF Transitions
  <2>3. t.n - 1 \in 0 .. Len(stream) /\ t.n \in 0 .. Len(stream)  BY <1>1, <2>2
  <2>4. Visited(t.to)  BY <2>2, <2>3 DEF Visited
  <2>5. ASSUME NEW n \in 1 .. Len(stream), Future(n) PROVE W(n - 1) >= t.to
    <3>0. Low(t.from)  BY <2>2
    <3>1. W(n - 1) >= W(t.n - 1)  BY <2>2, <2>5, <3>0
    <3>2. W(n) > W(n - 1) /\ U(n) # U(n - 1)  BY <2>5, FutureMoves
    <3>3. n # t.n
      <4>1. t.n \in comped => t.n # n
        <5>1. \A m \in comped : m < n  BY <2>5 DEF FutureInv
        <5> QED  BY <2>2, <5>1
      <4>2. t.composed => t.n # n  BY <2>2, <3>2
      <4> QED  BY <2>2, <4>1, <4>2
    <3>4. /\ n - 1 \in 0 .. Len(stream) /\ n \in 0 .. Len(stream)
          /\ W(n) \in Int /\ W(n - 1) \in Int /\ W(t.n) \in Int /\ W(t.n - 1) \in Int
      <4>1. n - 1 \in 0 .. Len(stream) /\ n \in 0 .. Len(stream)  BY <1>1
      <4>2. \A i \in 0 .. Len(stream) : W(i) \in Int  BY SampleFacts DEF TypeOK
      <4> QED  BY ONLY <2>3, <4>1, <4>2
    <3>5. ~(n < t.n)
      <4>1. n <= t.n - 1 => W(n) <= W(t.n - 1)  BY <2>3, <3>4 DEF StreamInv
      <4>2. n < t.n => n <= t.n - 1  BY <2>2, <3>4
      <4> QED  BY <3>1, <3>2, <3>4, <4>1, <4>2
    <3>6. t.n <= n - 1  BY <2>2, <3>3, <3>4, <3>5
    <3>7. W(t.n) <= W(n - 1)  BY <2>3, <3>4, <3>6 DEF StreamInv
    <3> QED  BY <2>2, <3>4, <3>7
  <2> QED  BY <2>1, <2>2, <2>4, <2>5
<1>4. \A w \in R : w \in Int /\ Low(w)  OBVIOUS
<1> HIDE DEF R
<1>5. \A k \in 1 .. Len(trans) :
        trans[k].from \in R /\ (trans[k].composed \/ trans[k].n \in comped) => trans[k].to \in R
  BY <1>3
<1>6. Walk(profile.w, trans) \in Walks /\ Walk(profile.w, trans).ref \in R
  BY ONLY <1>1, <1>2, <1>5, WalkFacts
<1> QED  BY <1>4, <1>6

\* Wherever the walk ends, what stood where the universe was in the profile's world
\* stands where it is in that one.
LEMMA WalkFollows ==
  ASSUME TypeOK, StreamInv, SpaceInv, FutureInv, profile.has, profile.bound,
         NEW g \in [0 .. Len(stream) -> Int], NEW total, NEW refs, profile.w \in refs,
         Account(g, total, refs)
  PROVE  \A i \in 0 .. Len(stream) : W(i) = Walk(profile.w, trans).ref => g[i] = U(i)
<1> DEFINE There(w) == \A i \in 0 .. Len(stream) : W(i) = w => g[i] = U(i)
           R == {w \in Int : There(w)}
<1>1. /\ profile.w \in Int /\ trans \in Seq(Transitions) /\ Len(stream) \in Nat
  BY DEF TypeOK, StreamTypes, VerdictTypes, ProfileTypes, Profiles
<1>2. profile.w \in R  BY <1>1 DEF Account
<1>3. ASSUME NEW k \in 1 .. Len(trans), trans[k].from \in R,
             trans[k].composed \/ trans[k].n \in comped
      PROVE  trans[k].to \in R
  <2>1. PICK t \in Transitions : t = trans[k]  BY <1>1
  <2>2. /\ t.n \in 2 .. Len(stream) /\ t.from = W(t.n - 1) /\ t.to = W(t.n)
        /\ t.composed => U(t.n) = U(t.n - 1)
        /\ t.from \in R /\ (t.composed \/ t.n \in comped) /\ t.to \in Int
    BY <1>3, <2>1, FollowedMoves DEF Transitions
  <2>3. t.n - 1 \in 0 .. Len(stream) /\ t.n \in 0 .. Len(stream) /\ t.n \in 1 .. Len(stream)
    BY <1>1, <2>2
  <2>4. g[t.n - 1] = U(t.n - 1)
    <3>1. There(t.from)  BY <2>2
    <3> QED  BY <2>2, <2>3, <3>1
  <2>5. g[t.n] = U(t.n)
    <3>1. CASE t.composed  BY <2>2, <2>3, <2>4, <3>1 DEF Account
    <3>2. CASE t.n \in comped
      <4>1. g[t.n] - g[t.n - 1] = U(t.n) - U(t.n - 1)  BY <3>2 DEF Account
      <4>2. U(t.n) \in Int /\ U(t.n - 1) \in Int /\ g[t.n] \in Int /\ g[t.n - 1] \in Int
        BY <2>3, SampleFacts DEF TypeOK
      <4> QED  BY <2>4, <4>1, <4>2
    <3> QED  BY <2>2, <3>1, <3>2
  <2>6. ASSUME NEW i \in 0 .. Len(stream), W(i) = W(t.n) PROVE g[i] = U(i)
    <3>1. g[i] = g[t.n]  BY <2>3, <2>6 DEF Account
    <3>2. i <= t.n \/ t.n <= i  BY <1>1, <2>3
    <3>3. U(i) = U(t.n)  BY <2>3, <2>6, <3>2 DEF StreamInv
    <3> QED  BY <2>5, <3>1, <3>3
  <2> QED  BY <2>1, <2>2, <2>6
<1>4. \A w \in R : There(w)  OBVIOUS
<1> HIDE DEF R
<1>5. \A k \in 1 .. Len(trans) :
        trans[k].from \in R /\ (trans[k].composed \/ trans[k].n \in comped) => trans[k].to \in R
  BY <1>3
<1>6. Walk(profile.w, trans).ref \in R  BY ONLY <1>1, <1>2, <1>5, WalkFacts
<1> QED  BY <1>4, <1>6

LEMMA FutureMoved ==
  ASSUME TypeOK, UNCHANGED stream, mon' >= mon, mon \in Int, mon' \in Int,
         comped' \subseteq comped, FutureInv,
         NEW r, r = Ref', Visited(r),
         \A n \in 1 .. Len(stream) : Future(n)' => W(n - 1) >= r /\ \A m \in comped' : m < n
  PROVE  FutureInv'
<1>1. Len(stream') = Len(stream) /\ \A i : W(i)' = W(i) /\ U(i)' = U(i)  BY SamePoses
<1>2. ASSUME NEW m \in comped' PROVE StepAt(m)' /\ m <= mon'
  <2>1. StepAt(m) /\ m <= mon /\ m \in Int  BY DEF FutureInv, StepAt
  <2>2. StepAt(m)'  BY <2>1, SamePoses
  <2> QED  BY <2>1, <2>2
<1>3. Visited(Ref)'
  <2>1. PICK i \in 0 .. Len(stream) : W(i) = r  BY DEF Visited
  <2> QED  BY <1>1, <2>1 DEF Visited
<1>4. ASSUME NEW n \in 1 .. Len(stream'), Future(n)'
      PROVE  W(n - 1)' >= Ref' /\ \A m \in comped' : m < n
  BY <1>1, <1>4
<1> QED  BY <1>2, <1>3, <1>4 DEF FutureInv

LEMMA JudgeBalances ==
  ASSUME TypeOK, StreamInv, StepsInv, SpaceInv, BooksInv, Judge,
         \A n \in Nat : Future(n)' => Future(n)
  PROVE  FutureInv' /\ BindInv' /\ CalInv' /\ RoomInv'
<1> DEFINE walk == Walk(profile.w, trans)
           matched == walk.ref = Observed
           adopted == walk.ref # profile.w
           timed == grace.at # "off" /\ grace.from = walk.ref
           expired == ~matched /\ ~walk.wait /\ timed /\ grace.at = "over"
           carried == IF adopted /\ room.valid
                      THEN [room EXCEPT !.w = walk.ref, !.ver = TRUE] ELSE room
<1>1. /\ profile.has /\ ~profile.unsafe /\ profile.bound /\ profile \in Profiles /\ room \in Rooms
      /\ seen \in Seq(Transitions) /\ Len(stream) \in Nat
      /\ FutureInv /\ BindInv /\ CalInv /\ RoomInv
  BY DEF Judge, Enabled, TypeOK, StreamTypes, VerdictTypes, ProfileTypes, BooksInv
<1>2. /\ UNCHANGED stream /\ UNCHANGED mon /\ mon \in Int
      /\ profile' = [profile EXCEPT !.w = walk.ref, !.unsafe = expired]
      /\ RoomTick(IF matched THEN carried
                  ELSE IF expired THEN [carried EXCEPT !.auto = FALSE, !.ver = FALSE]
                  ELSE [carried EXCEPT !.ver = FALSE])
      /\ comped' \subseteq comped
  BY DEF Judge, RoomTick, streamVars, NoVerdict, TypeOK, StreamTypes
<1>3. PICK ref \in Int :
        /\ ref = walk.ref /\ Visited(ref)
        /\ \A n \in 1 .. Len(stream) : Future(n) => W(n - 1) >= ref
  BY <1>1, WalkBounds
<1> HIDE DEF walk, expired, matched
<1>4. /\ profile'.w = ref /\ profile'.has /\ profile'.bound /\ profile'.cal = profile.cal
      /\ profile'.from = profile.from
  BY <1>1, <1>2, <1>3 DEF Profiles
<1>5. /\ room'.valid = room.valid /\ room'.at = room.at /\ room'.leapt = room.leapt
      /\ \/ room'.w = (IF room.valid THEN ref ELSE room.w)
         \/ (room'.w = room.w /\ profile.w = ref)
  <2>1. /\ carried \in Rooms /\ carried.valid = room.valid /\ carried.at = room.at
        /\ carried.leapt = room.leapt
        /\ \/ carried.w = (IF room.valid THEN ref ELSE room.w)
           \/ (carried.w = room.w /\ profile.w = ref)
    BY <1>1, <1>3 DEF Rooms
  <2> HIDE DEF carried
  <2>2. PICK r \in Rooms : /\ RoomTick(r) /\ r.valid = room.valid /\ r.at = room.at
                           /\ r.leapt = room.leapt /\ r.w = carried.w
    <3>1. CASE matched  BY <1>2, <2>1, <3>1
    <3>2. CASE ~matched /\ expired
      <4>1. RoomTick([carried EXCEPT !.auto = FALSE, !.ver = FALSE])  BY <1>2, <3>2
      <4>2. PICK r : r = [carried EXCEPT !.auto = FALSE, !.ver = FALSE]  OBVIOUS
      <4>3. r \in Rooms /\ r.valid = carried.valid /\ r.at = carried.at /\ r.leapt = carried.leapt
            /\ r.w = carried.w
        BY <2>1, <4>2 DEF Rooms
      <4> QED  BY <2>1, <4>1, <4>2, <4>3
    <3>3. CASE ~matched /\ ~expired
      <4>1. RoomTick([carried EXCEPT !.ver = FALSE])  BY <1>2, <3>3
      <4>2. PICK r : r = [carried EXCEPT !.ver = FALSE]  OBVIOUS
      <4>3. r \in Rooms /\ r.valid = carried.valid /\ r.at = carried.at /\ r.leapt = carried.leapt
            /\ r.w = carried.w
        BY <2>1, <4>2 DEF Rooms
      <4> QED  BY <2>1, <4>1, <4>2, <4>3
    <3> QED  BY <3>1, <3>2, <3>3
  <2>3. PICK q \in RoomAfter(r) : q = room'  BY <2>2 DEF RoomTick
  <2>4. /\ room'.valid = r.valid /\ room'.w = r.w /\ room'.at = r.at /\ room'.leapt = r.leapt
    BY <1>1, <2>3, RoomAfterCases
  <2> QED  BY <2>1, <2>2, <2>4
<1>6. FutureInv'
  <2>1. ref = Ref'  BY <1>4 DEF Ref
  <2>2. \A n \in 1 .. Len(stream) : Future(n)' => W(n - 1) >= ref /\ \A m \in comped' : m < n
    <3> SUFFICES ASSUME NEW n \in 1 .. Len(stream), Future(n)'
                 PROVE  W(n - 1) >= ref /\ \A m \in comped' : m < n
      OBVIOUS
    <3>1. Future(n)  OBVIOUS
    <3>2. \A m \in comped : m < n  BY <1>1, <3>1 DEF FutureInv
    <3> QED  BY <1>2, <1>3, <3>1, <3>2
  <2>3. mon' >= mon /\ mon' \in Int  BY <1>2
  <2> QED  BY <1>1, <1>2, <1>3, <2>1, <2>2, <2>3, FutureMoved
<1>7. BindInv'
  <2>1. room'.valid /\ ~room'.leapt => room'.w = profile'.w  BY <1>1, <1>4, <1>5 DEF BindInv
  <2> QED  BY <1>4, <2>1 DEF BindInv
<1>8. ASSUME NEW total, NEW refs, Accounted(total, refs),
             NEW some \in SUBSET {ref}, profile.w \in refs \/ some = {}
      PROVE  \E h \in [0 .. Len(stream') -> Int] : Account(h, total, some)'
  <2>1. PICK g \in [0 .. Len(stream) -> Int] : Account(g, total, refs)  BY <1>8 DEF Accounted
  <2>2. ASSUME profile.w \in refs
        PROVE  \A i \in 0 .. Len(stream) : W(i) = ref => g[i] = U(i)
    BY <1>1, <1>3, <2>1, <2>2, WalkFollows DEF walk
  <2>3. \A i \in 0 .. Len(stream) : W(i) \in some => g[i] = U(i)  BY <1>8, <2>2
  <2>4. Account(g, total, some)  BY <2>1, <2>3 DEF Account
  <2>5. some \in SUBSET some  OBVIOUS
  <2>6. Account(g, total, some)'
    BY ONLY <1>1, <1>2, \A n \in Nat : Future(n)' => Future(n), <2>4, <2>5, AccountKept
  <2>7. Len(stream') = Len(stream)  BY <1>2
  <2> QED  BY <2>1, <2>6, <2>7
<1>9. CalInv'
  <2>1. PICK t, r, s : t = profile.cal /\ r = ProfileRefs /\ s = ProfileRefs'  OBVIOUS
  <2>2. Accounted(t, r)  BY <1>1, <2>1 DEF CalInv
  <2>3. s \in SUBSET {ref} /\ (profile.w \in r \/ s = {})
    BY <1>1, <1>4, <2>1 DEF ProfileRefs, Sound, Ref
  <2>4. \E h \in [0 .. Len(stream') -> Int] : Account(h, t, s)'  BY <1>8, <2>2, <2>3
  <2>5. t = profile'.cal /\ s = ProfileRefs'  BY <1>4, <2>1
  <2> QED  BY <2>4, <2>5, CalBalances
<1>10. RoomInv'
  <2>1. CASE ~(room.valid /\ ~room.leapt)  BY <1>5, <2>1 DEF RoomInv
  <2>2. CASE room.valid /\ ~room.leapt
    <3>1. PICK t, r : t = room.at /\ r = {room.w}  OBVIOUS
    <3>2. Accounted(t, r) /\ room.w = profile.w  BY <1>1, <2>2, <3>1 DEF RoomInv, BindInv
    <3>3. {ref} \in SUBSET {ref} /\ profile.w \in r  BY <3>1, <3>2
    <3>4. \E h \in [0 .. Len(stream') -> Int] : Account(h, t, {ref})'
      BY <1>8, <3>2, <3>3
    <3>5. t = room'.at /\ ref = room'.w  BY <1>5, <2>2, <3>1, <3>2
    <3>6. Visited(ref)'
      <4>1. PICK i \in 0 .. Len(stream) : W(i) = ref  BY <1>3 DEF Visited
      <4> QED  BY <1>2, <4>1, SamePoses DEF Visited
    <3> QED  BY <1>4, <3>4, <3>5, <3>6, RoomBalances
  <2> QED  BY <2>1, <2>2
<1> QED  BY <1>6, <1>7, <1>9, <1>10

\* A profile without a WFD takes that of the room it was loaded with.
LEMMA JudgeBindBalances ==
  ASSUME TypeOK, BooksInv, JudgeBind, \A n \in Nat : Future(n)' => Future(n)
  PROVE  FutureInv' /\ BindInv' /\ CalInv' /\ RoomInv'
<1>1. /\ profile.has /\ ~profile.unsafe /\ ~profile.bound /\ profile \in Profiles
      /\ FutureInv /\ BindInv /\ CalInv /\ RoomInv
  BY DEF JudgeBind, Enabled, TypeOK, ProfileTypes, BooksInv
<1>2. room.valid  BY <1>1 DEF BindInv
<1>3. /\ UNCHANGED <<stream, mon, room>> /\ comped' = {} /\ mon \in Int
      /\ profile' = [profile EXCEPT !.bound = TRUE, !.w = room.w,
                                    !.from = IF room.leapt THEN "leapt" ELSE "room"]
  BY <1>2 DEF JudgeBind, NoVerdict, streamVars, TypeOK, StreamTypes
<1>4. /\ profile'.has /\ ~profile'.unsafe /\ profile'.bound /\ profile'.w = room.w
      /\ profile'.cal = profile.cal
      /\ profile'.from = IF room.leapt THEN "leapt" ELSE "room"
  BY <1>1, <1>3 DEF Profiles
<1>5. Ref' = Ref /\ Ref = room.w  BY <1>1, <1>4 DEF Ref
<1>6. ProfileRefs' \subseteq ProfileRefs
  <2>1. ProfileRefs' = (IF Sound' THEN {Ref'} ELSE {}) \cup (IF profile'.bound THEN {} ELSE {0})
    BY DEF ProfileRefs
  <2>2. Sound' => Sound  BY <1>1, <1>3, <1>4 DEF Sound
  <2> QED  BY <1>4, <1>5, <2>1, <2>2 DEF ProfileRefs
<1>7. BindInv'  BY <1>3, <1>4 DEF BindInv
<1>8. mon' >= mon /\ mon' \in Int  BY <1>3
<1> QED  BY <1>1, <1>3, <1>4, <1>5, <1>6, <1>7, <1>8, BooksCarried

\* The delta to apply next is of a step past everything compensated so far.
LEMMA DeltaNext ==
  ASSUME TypeOK, StreamInv, StepsInv, FutureInv, profile.has, deltas # <<>>,
         NEW d, d = Head(deltas)
  PROVE  /\ d \in Deltas /\ d.n \in 2 .. Len(stream) /\ StepAt(d.n) /\ d.n <= mon
         /\ d.n <= lastAccept /\ Future(d.n)
         /\ d.prev = W(d.n - 1) /\ W(d.n - 1) < W(d.n)
         /\ d.d = U(d.n) - U(d.n - 1) /\ U(d.n) # U(d.n - 1)
         /\ Ref <= W(d.n - 1) /\ \A m \in comped : m < d.n
<1>1. deltas \in Seq(Deltas) /\ Len(stream) \in Nat  BY DEF TypeOK, StreamTypes, JumpTypes
<1>2. 1 \in 1 .. Len(deltas) /\ d = deltas[1] /\ d \in Deltas  BY <1>1
<1>3. DeltaOK(d)  BY <1>2 DEF StepsInv
<1>4. Future(d.n)  BY <1>2 DEF Future
<1>5. d.n \in 2 .. Len(stream)  BY <1>3 DEF DeltaOK, StepAt
<1>6. d.n \in 1 .. Len(stream)  BY <1>1, <1>5
<1>7. W(d.n - 1) < W(d.n)  BY <1>4, <1>6, FutureMoves
<1>8. W(d.n - 1) >= Ref /\ \A m \in comped : m < d.n  BY <1>4, <1>6 DEF FutureInv
<1>9. W(d.n - 1) \in Int /\ Ref \in Int
  <2>1. d.n - 1 \in 0 .. Len(stream)  BY <1>1, <1>5
  <2> QED  BY <2>1, SampleFacts DEF TypeOK, ProfileTypes, Profiles, Rooms, Ref
<1> QED  BY <1>2, <1>3, <1>4, <1>5, <1>7, <1>8, <1>9 DEF DeltaOK

\* Once it is applied, only later steps are left to compensate.
LEMMA DeltaLater ==
  ASSUME TypeOK, StepsInv, deltas # <<>>, NEW m, NEW n \in Nat,
         m = Head(deltas).n, m <= mon, m <= lastAccept,
         UNCHANGED <<stream, mon, cands, lastAccept>>, deltas' = Tail(deltas), Future(n)'
  PROVE  n > m
<1>1. /\ deltas \in Seq(Deltas) /\ cands \subseteq Candidates /\ lastAccept \in Nat /\ mon \in Nat
      /\ Len(stream) \in Nat
  BY DEF TypeOK, StreamTypes, JumpTypes
<1>2. /\ 1 \in 1 .. Len(deltas) /\ m = deltas[1].n /\ m \in Nat
      /\ Len(deltas') = Len(deltas) - 1
      /\ \A k \in 1 .. Len(deltas') : deltas'[k] = deltas[k + 1]
  <2>1. 1 \in 1 .. Len(deltas) /\ m = deltas[1].n  BY <1>1
  <2>2. deltas[1] \in Deltas  BY <1>1, <2>1
  <2>3. Len(deltas') = Len(deltas) - 1 /\ \A k \in 1 .. Len(deltas') : deltas'[k] = deltas[k + 1]
    BY <1>1
  <2> QED  BY ONLY <2>1, <2>2, <2>3 DEF Deltas
<1>3. CASE n > mon'  BY <1>1, <1>2, <1>3
<1>4. CASE \E k \in 1 .. Len(deltas') : deltas'[k].n = n
  <2>1. PICK k \in 1 .. Len(deltas') : deltas'[k].n = n  BY <1>4
  <2>2. k + 1 \in 1 .. Len(deltas) /\ 1 < k + 1 /\ deltas[k + 1].n = n  BY <1>1, <1>2, <2>1
  <2>3. deltas[1].n < deltas[k + 1].n  BY <1>2, <2>2 DEF StepsInv
  <2> QED  BY <1>2, <2>2, <2>3
<1>5. CASE \E c \in cands' : c.n = n /\ c.from > lastAccept'
  <2>1. PICK c \in cands : c.n = n /\ c.from > lastAccept  BY <1>5
  <2>2. CandOK(c) /\ c \in Candidates  BY <1>1 DEF StepsInv
  <2>3. c.from \in Nat /\ c.from <= c.n - 1  BY <1>1, <2>2 DEF CandOK, Candidates
  <2> QED  BY <1>1, <1>2, <2>1, <2>3
<1> QED  BY <1>3, <1>4, <1>5 DEF Future

\* An account moves with a compensated step: what stood in the worlds up to the step
\* stands there still, and what stood in front of it is where the step ends.
LEMMA AccountMoved ==
  ASSUME TypeOK, StreamInv, UNCHANGED stream, NEW m \in 2 .. Len(stream), Future(m),
         W(m - 1) < W(m), U(m) # U(m - 1), comped' = comped \cup {m}, comped \subseteq Nat,
         \A k \in comped : 1 <= k /\ k < m,
         \A n \in Nat : Future(n)' => n > m,
         NEW g \in [0 .. Len(stream) -> Int], NEW total \in Int, NEW refs, NEW others,
         Account(g, total, refs),
         \A r \in others : \/ r \in refs /\ r <= W(m - 1)
                           \/ r = W(m) /\ W(m - 1) \in refs
  PROVE  \E h \in [0 .. Len(stream') -> Int] :
           Account(h, total + U(m) - U(m - 1), others)'
<1>1. Len(stream') = Len(stream) /\ (\A i : W(i)' = W(i) /\ U(i)' = U(i)) /\ Len(stream) \in Nat
  BY SamePoses DEF TypeOK, StreamTypes
<1>2. \A i \in 0 .. Len(stream) : W(i) \in Int /\ U(i) \in Int  BY SampleFacts DEF TypeOK
<1>3. m \in 0 .. Len(stream) /\ m - 1 \in 0 .. Len(stream) /\ m \in Nat  BY <1>1
<1>4. PICK a \in Int, b \in Int : a = U(m - 1) /\ b = U(m) /\ a # b  BY <1>2, <1>3
<1>5. PICK h : h = [i \in 0 .. Len(stream) |-> IF i >= m THEN g[i] + b - a ELSE g[i]]  OBVIOUS
<1>6. ASSUME NEW i \in 0 .. Len(stream)
      PROVE  /\ h[i] \in Int /\ i \in Int /\ g[i] \in Int
             /\ (i >= m) => h[i] = g[i] + b - a
             /\ (i < m) => h[i] = g[i]
  <2>1. g[i] \in Int /\ i \in Int /\ b \in Int /\ a \in Int  BY <1>4
  <2>2. h[i] = IF i >= m THEN g[i] + b - a ELSE g[i]  BY <1>5
  <2> QED  BY <1>3, <2>1, <2>2
<1>7. h \in [0 .. Len(stream') -> Int]
  <2>1. DOMAIN h = 0 .. Len(stream) /\ h = [i \in 0 .. Len(stream) |-> h[i]]  BY <1>5
  <2> QED  BY <1>1, <1>6, <2>1
<1>8. \A i \in m - 1 .. Len(stream) : g[i] = total
  <2>1. m \in 1 .. Len(stream)  BY <1>1
  <2> QED  BY <2>1 DEF Account
<1>9. \A i \in m .. Len(stream) : h[i] = total + b - a
  <2> SUFFICES ASSUME NEW i \in m .. Len(stream) PROVE h[i] = total + b - a  OBVIOUS
  <2>1. i \in 0 .. Len(stream) /\ i \in m - 1 .. Len(stream) /\ i >= m  BY <1>1, <1>3
  <2> QED  BY <1>6, <1>8, <2>1
<1>10. h[Len(stream')] = total + b - a
  <2>1. Len(stream) \in m .. Len(stream)  BY <1>1
  <2> QED  BY <1>1, <1>9, <2>1
<1>11. \A n \in 1 .. Len(stream') : Future(n)' => \A i \in n - 1 .. Len(stream') : h[i] = total + b - a
  <2> SUFFICES ASSUME NEW n \in 1 .. Len(stream), Future(n)', NEW i \in n - 1 .. Len(stream)
               PROVE  h[i] = total + b - a
    BY <1>1
  <2>1. n \in Nat  BY <1>1
  <2>2. n > m  BY <2>1
  <2>3. i \in m .. Len(stream)  BY <1>1, <1>3, <2>1, <2>2
  <2> QED  BY <1>9, <2>3
<1>12. ASSUME NEW i \in 0 .. Len(stream)
       PROVE  /\ i < m => W(i) <= W(m - 1)
              /\ i >= m => W(m) <= W(i)
  <2>1. i < m => i <= m - 1  BY <1>1, <1>3
  <2> QED  BY <1>3, <2>1 DEF StreamInv
<1>13. \A i, j \in 0 .. Len(stream') : W(i)' = W(j)' => h[i] = h[j]
  <2> SUFFICES ASSUME NEW i \in 0 .. Len(stream), NEW j \in 0 .. Len(stream), W(i) = W(j)
               PROVE  h[i] = h[j]
    BY <1>1
  <2>1. g[i] = g[j]  BY DEF Account
  <2>2. W(i) \in Int /\ W(m) \in Int /\ W(m - 1) \in Int  BY <1>2, <1>3
  <2>3. (i < m) <=> (j < m)  BY <1>3, <1>6, <1>12, <2>2
  <2>4. i < m \/ i >= m  BY <1>3, <1>6
  <2>5. j < m \/ j >= m  BY <1>3, <1>6
  <2>6. CASE i < m  BY <1>6, <2>1, <2>3, <2>6
  <2>7. CASE ~(i < m)
    <3>1. h[i] = g[i] + b - a /\ h[j] = g[j] + b - a  BY <1>6, <2>3, <2>4, <2>5, <2>7
    <3> QED  BY <2>1, <3>1
  <2> QED  BY <2>6, <2>7
<1>14. \A i \in 1 .. Len(stream') : U(i)' = U(i - 1)' => h[i] = h[i - 1]
  <2> SUFFICES ASSUME NEW i \in 1 .. Len(stream), U(i) = U(i - 1) PROVE h[i] = h[i - 1]
    BY <1>1
  <2>1. i \in 0 .. Len(stream) /\ i - 1 \in 0 .. Len(stream)  BY <1>1
  <2>2. g[i] = g[i - 1]  BY DEF Account
  <2>3. i # m  BY <1>4
  <2>4. CASE i < m
    <3>1. i - 1 < m  BY <1>3, <2>1, <2>4
    <3> QED  BY <1>6, <2>1, <2>2, <2>4, <3>1
  <2>5. CASE i > m
    <3>1. i - 1 >= m /\ i >= m  BY <1>3, <2>1, <2>5
    <3>2. h[i] = g[i] + b - a /\ h[i - 1] = g[i - 1] + b - a  BY <1>6, <2>1, <3>1
    <3> QED  BY <2>2, <3>2
  <2>6. i < m \/ i > m  BY <1>3, <2>1, <2>3
  <2> QED  BY <2>4, <2>5, <2>6
<1>15. \A k \in comped' : h[k] - h[k - 1] = U(k)' - U(k - 1)'
  <2> SUFFICES ASSUME NEW k \in comped' PROVE h[k] - h[k - 1] = U(k) - U(k - 1)  BY <1>1
  <2>1. CASE k \in comped
    <3>1. k \in Int /\ k \in 0 .. Len(stream) /\ k - 1 \in 0 .. Len(stream) /\ k < m /\ k - 1 < m
      BY <1>1, <1>3, <2>1
    <3>2. g[k] - g[k - 1] = U(k) - U(k - 1)  BY <2>1 DEF Account
    <3> QED  BY <1>6, <3>1, <3>2
  <2>2. CASE k = m
    <3>1. h[m] = total + b - a
      <4>1. m \in m .. Len(stream)  BY <1>1
      <4> QED  BY <1>9, <4>1
    <3>2. h[m - 1] = total
      <4>1. m - 1 \in m - 1 .. Len(stream) /\ m - 1 < m  BY <1>1, <1>3
      <4> QED  BY <1>3, <1>6, <1>8, <4>1
    <3>3. h[m] - h[m - 1] = b - a  BY <1>4, <3>1, <3>2
    <3> QED  BY <1>4, <2>2, <3>3
  <2> QED  BY <2>1, <2>2
<1>16. \A i \in 0 .. Len(stream') : W(i)' \in others => h[i] = U(i)'
  <2> SUFFICES ASSUME NEW i \in 0 .. Len(stream), W(i) \in others PROVE h[i] = U(i)
    BY <1>1
  <2>1. W(i) \in Int /\ W(m) \in Int /\ W(m - 1) \in Int  BY <1>2, <1>3
  <2>2. i < m \/ i >= m  BY <1>3, <1>6
  <2>3. CASE W(i) \in refs /\ W(i) <= W(m - 1)
    <3>1. i < m  BY <1>12, <2>1, <2>2, <2>3
    <3>2. g[i] = U(i)  BY <2>3 DEF Account
    <3> QED  BY <1>6, <3>1, <3>2
  <2>4. CASE W(i) = W(m) /\ W(m - 1) \in refs
    <3>1. i >= m  BY <1>12, <2>1, <2>2, <2>4
    <3>2. h[i] = total + b - a
      <4>1. i \in m .. Len(stream)  BY <1>3, <1>6, <3>1
      <4> QED  BY <1>9, <4>1
    <3>3. total = a
      <4>1. g[m - 1] = U(m - 1)  BY <1>3, <2>4 DEF Account
      <4>2. m - 1 \in m - 1 .. Len(stream)  BY <1>1, <1>3
      <4> QED  BY <1>4, <1>8, <4>1, <4>2
    <3>4. U(i) = b  BY <1>3, <1>4, <2>4, <3>1 DEF StreamInv
    <3> QED  BY <1>4, <3>2, <3>3, <3>4
  <2> QED  BY <2>3, <2>4
<1>17. PICK c \in Int : c = total + b - a  BY <1>4
<1>18. c = total + U(m) - U(m - 1)  BY <1>4, <1>17
<1>19. Account(h, c, others)'
  <2>1. h[Len(stream')] = c  BY <1>10, <1>17
  <2>2. \A n \in 1 .. Len(stream') : Future(n)' => \A i \in n - 1 .. Len(stream') : h[i] = c
    BY <1>11, <1>17
  <2> QED  BY <1>13, <1>14, <1>15, <1>16, <2>1, <2>2 DEF Account
<1>20. c = (total + U(m) - U(m - 1))'  BY <1>1, <1>18
<1>21. Account(h, total + U(m) - U(m - 1), others)'  BY <1>19, <1>20 DEF Account
<1> QED  BY <1>7, <1>21

LEMMA ApplyBalances ==
  ASSUME TypeOK, StreamInv, JumpInv, BooksInv, ApplyDelta,
         \A n \in Nat : Future(n)' => Future(n)
  PROVE  FutureInv' /\ BindInv' /\ CalInv' /\ RoomInv'
<1>1. PICK d : d = Head(deltas)  OBVIOUS
<1>2. /\ pc = "push" /\ deltas # <<>> /\ UNCHANGED <<stream, mon, cands, lastAccept>>
      /\ profile' = [profile EXCEPT !.cal = @ + d.d,
                                    !.w = IF ExactDeltaRebasesProfile(d) THEN stream[d.n].w ELSE @]
      /\ room' = IF ~room.valid THEN room
                 ELSE IF d.exact
                   THEN [room EXCEPT !.at = @ + d.d, !.w = stream[d.n].w, !.ver = TRUE,
                                     !.leapt = @ \/ room.w # d.prev]
                 ELSE [room EXCEPT !.at = @ + d.d]
      /\ comped' = comped \cup {d.n} /\ deltas' = Tail(deltas)
  BY <1>1, Zenon DEF ApplyDelta, streamVars
<1>3. /\ profile.has /\ profile \in Profiles /\ room \in Rooms
      /\ FutureInv /\ BindInv /\ CalInv /\ RoomInv /\ StepsInv /\ mon \in Nat
      /\ Len(stream) \in Nat /\ comped \subseteq Nat
  BY <1>2 DEF JumpInv, WatchInv, TypeOK, StreamTypes, VerdictTypes, ProfileTypes, BooksInv
<1>4. /\ d \in Deltas /\ d.n \in 2 .. Len(stream) /\ StepAt(d.n) /\ d.n <= mon
      /\ d.n <= lastAccept /\ Future(d.n)
      /\ d.prev = W(d.n - 1) /\ W(d.n - 1) < W(d.n)
      /\ d.d = U(d.n) - U(d.n - 1) /\ U(d.n) # U(d.n - 1)
      /\ Ref <= W(d.n - 1) /\ \A k \in comped : k < d.n
  BY <1>1, <1>2, <1>3, DeltaNext
<1>5. PICK m \in 2 .. Len(stream) : m = d.n  BY <1>4
<1>6. PICK to \in Int, prev \in Int, a \in Int, b \in Int :
        to = W(m) /\ prev = W(m - 1) /\ a = U(m - 1) /\ b = U(m)
  <2>1. m \in 0 .. Len(stream) /\ m - 1 \in 0 .. Len(stream)  BY <1>3
  <2> QED  BY <2>1, SampleFacts DEF TypeOK
<1>7. stream[d.n].w = to /\ d.prev = prev /\ d.d = b - a /\ prev < to /\ Ref <= prev /\ Ref \in Int
  <2>1. m \in 1 .. Len(stream)  BY <1>3
  <2>2. stream[m].w = W(m)  BY <2>1, SampleFacts DEF TypeOK
  <2>3. Ref \in Int  BY <1>3 DEF Ref, Profiles, Rooms
  <2> QED  BY <1>4, <1>5, <1>6, <2>2, <2>3
<1>8. \A n \in Nat : Future(n)' => n > m
  <2> SUFFICES ASSUME NEW n \in Nat, Future(n)' PROVE n > m  OBVIOUS
  <2>1. m = Head(deltas).n /\ m <= mon /\ m <= lastAccept  BY <1>1, <1>4, <1>5
  <2> QED  BY <1>2, <1>3, <2>1, DeltaLater
<1>9. /\ profile'.has /\ profile'.bound = profile.bound /\ profile'.from = profile.from
      /\ profile'.unsafe = profile.unsafe /\ profile'.cal = profile.cal + d.d
      /\ profile'.w = IF d.exact /\ profile.bound /\ profile.w = prev THEN to ELSE profile.w
  BY <1>2, <1>3, <1>7 DEF Profiles, ExactDeltaRebasesProfile
<1>10. /\ room'.valid = room.valid
       /\ room.valid => /\ room'.at = room.at + d.d
                        /\ room'.w = IF d.exact THEN to ELSE room.w
                        /\ room'.leapt = (room.leapt \/ (d.exact /\ room.w # prev))
       /\ ~room.valid => room' = room
  <2>1. CASE ~room.valid  BY <1>2, <2>1
  <2>2. CASE room.valid /\ d.exact
    <3>1. room' = [room EXCEPT !.at = @ + d.d, !.w = to, !.ver = TRUE,
                               !.leapt = @ \/ room.w # prev]
      BY <1>2, <1>7, <2>2
    <3>2. room'.leapt = (room.leapt \/ room.w # prev)  BY <1>3, <3>1, Zenon DEF Rooms
    <3>3. room'.valid = room.valid /\ room'.at = room.at + d.d /\ room'.w = to
      BY <1>3, <3>1 DEF Rooms
    <3> QED  BY <2>2, <3>2, <3>3
  <2>3. CASE room.valid /\ ~d.exact
    <3>1. room' = [room EXCEPT !.at = @ + d.d]  BY <1>2, <2>3
    <3>2. room'.valid = room.valid /\ room'.at = room.at + d.d /\ room'.w = room.w
          /\ room'.leapt = room.leapt
      BY <1>3, <3>1 DEF Rooms
    <3>3. room.leapt \in BOOLEAN  BY <1>3 DEF Rooms
    <3>4. room'.leapt = (room.leapt \/ (d.exact /\ room.w # prev))
      BY <2>3, <3>2, <3>3, Zenon
    <3> QED  BY <2>3, <3>2, <3>4
  <2> QED  BY <2>1, <2>2, <2>3
<1>11. /\ profile.bound => Ref = profile.w /\ Ref' = profile'.w
       /\ ~profile.bound => Ref = room.w /\ Ref' = room'.w /\ room.valid
  BY <1>3, <1>9 DEF Ref, BindInv
<1>12. Ref' = Ref \/ Ref' = to
  <2>1. CASE profile.bound  BY <1>9, <1>11, <2>1
  <2>2. CASE ~profile.bound  BY <1>10, <1>11, <2>2
  <2> QED  BY <2>1, <2>2
<1>13. Len(stream') = Len(stream) /\ \A i : W(i)' = W(i) /\ U(i)' = U(i)  BY <1>2, SamePoses
<1>14. FutureInv'
  <2>1. ASSUME NEW k \in comped' PROVE StepAt(k)' /\ k <= mon' /\ k <= m
    <3>1. CASE k \in comped
      <4>1. StepAt(k) /\ k <= mon  BY <1>3, <3>1 DEF FutureInv
      <4>2. StepAt(k)'  BY <1>2, <4>1, SamePoses
      <4>3. k < m /\ k \in Int  BY <1>3, <1>4, <1>5, <3>1
      <4> QED  BY <1>2, <4>1, <4>2, <4>3
    <3>2. CASE k = m
      <4>1. StepAt(k)'  BY <1>2, <1>4, <1>5, <3>2, SamePoses
      <4> QED  BY <1>2, <1>4, <1>5, <3>2, <4>1
    <3> QED  BY <1>2, <1>5, <3>1, <3>2
  <2>2. Visited(Ref)'
    <3>1. PICK i \in 0 .. Len(stream) : W(i) = Ref  BY <1>3 DEF FutureInv, Visited
    <3>2. m \in 0 .. Len(stream)  BY <1>3
    <3> QED  BY <1>6, <1>12, <1>13, <3>1, <3>2 DEF Visited
  <2>3. ASSUME NEW n \in 1 .. Len(stream'), Future(n)'
        PROVE  W(n - 1)' >= Ref' /\ \A k \in comped' : k < n
    <3>1. n \in Nat /\ n > m  BY <1>8, <1>13, <2>3
    <3>2. m \in 0 .. Len(stream) /\ n - 1 \in 0 .. Len(stream) /\ m <= n - 1  BY <1>3, <1>13, <3>1
    <3>3. W(m) <= W(n - 1) /\ W(n - 1) \in Int  BY <3>2, SampleFacts DEF StreamInv, TypeOK
    <3>4. W(n - 1) >= to /\ W(n - 1) >= Ref
      <4>1. to = W(m)  BY <1>6
      <4>2. prev < to /\ Ref <= prev /\ Ref \in Int  BY <1>7
      <4> QED  BY ONLY <3>3, <4>1, <4>2, prev \in Int, to \in Int
    <3>5. W(n - 1)' = W(n - 1)  BY <1>13
    <3>6. W(n - 1)' >= Ref'  BY ONLY <1>12, <3>4, <3>5
    <3>7. \A k \in comped' : k < n
      <4> SUFFICES ASSUME NEW k \in comped' PROVE k < n  OBVIOUS
      <4>1. k <= m /\ k \in Int  BY <1>2, <1>3, <1>5, <2>1
      <4> QED  BY <3>1, <4>1
    <3> QED  BY <3>6, <3>7
  <2> QED  BY <2>1, <2>2, <2>3 DEF FutureInv
<1>15. BindInv'
  <2>1. profile'.has /\ ~profile'.bound => room'.valid /\ profile'.w = 0 /\ ~profile'.unsafe
    BY <1>3, <1>9, <1>10 DEF BindInv
  <2>2. ASSUME profile'.bound, room'.valid, ~room'.leapt PROVE room'.w = profile'.w
    <3>1. profile.bound /\ room.valid /\ ~room.leapt /\ (d.exact => room.w = prev)
      BY <1>9, <1>10, <2>2
    <3>2. room.w = profile.w  BY <1>3, <3>1 DEF BindInv
    <3> QED  BY <1>9, <1>10, <3>1, <3>2
  <2> QED  BY <1>9, <2>1, <2>2 DEF BindInv
<1>16. ASSUME NEW total \in Int, NEW refs, NEW others, Accounted(total, refs),
              NEW new, new = total + d.d,
              \A r \in others : (r \in refs /\ r <= prev) \/ (r = to /\ prev \in refs)
       PROVE  \E h \in [0 .. Len(stream') -> Int] : Account(h, new, others)'
  <2>1. PICK g \in [0 .. Len(stream) -> Int] : Account(g, total, refs)  BY <1>16 DEF Accounted
  <2>2. \A k \in comped : 1 <= k /\ k < m
    <3> SUFFICES ASSUME NEW k \in comped PROVE 1 <= k /\ k < m  OBVIOUS
    <3>1. k \in 2 .. Len(stream)  BY <1>3 DEF FutureInv, StepAt
    <3> QED  BY <1>3, <1>4, <1>5, <3>1
  <2>3. /\ UNCHANGED stream /\ Future(m) /\ W(m - 1) < W(m) /\ U(m) # U(m - 1)
        /\ comped' = comped \cup {m} /\ comped \subseteq Nat
    BY <1>2, <1>3, <1>4, <1>5
  <2>4. \A r \in others : (r \in refs /\ r <= W(m - 1)) \/ (r = W(m) /\ W(m - 1) \in refs)
    BY <1>6, <1>16
  <2>5. \E h \in [0 .. Len(stream') -> Int] : Account(h, total + U(m) - U(m - 1), others)'
    BY ONLY TypeOK, StreamInv, <1>8, <2>1, <2>2, <2>3, <2>4, total \in Int, AccountMoved
  <2>6. new = (total + U(m) - U(m - 1))'
    <3>1. new = total + b - a  BY <1>7, <1>16
    <3>2. U(m)' = b /\ U(m - 1)' = a  BY <1>6, <1>13
    <3> QED  BY <3>1, <3>2
  <2> QED  BY <2>5, <2>6 DEF Account
<1>17. CalInv'
  <2>a. profile.cal \in Int /\ profile'.cal \in Int
    <3>1. profile.cal \in Int /\ d.d \in Int  BY <1>3, <1>4 DEF Profiles, Deltas
    <3>2. profile.cal + d.d \in Int  BY <3>1
    <3> QED  BY <1>9, <3>1, <3>2
  <2>b. PICK t \in Int, n \in Int : t = profile.cal /\ n = profile'.cal  BY <2>a
  <2>c. PICK r, s : r = ProfileRefs /\ s = ProfileRefs'  OBVIOUS
  <2>1. /\ t = profile.cal /\ n = profile'.cal /\ r = ProfileRefs /\ s = ProfileRefs'
        /\ t \in Int /\ n \in Int
    BY <2>b, <2>c
  <2>2. Accounted(t, r)  BY <1>3, <2>1 DEF CalInv
  <2>3. n = t + d.d  BY <1>9, <2>1
  <2>4. r = (IF Sound THEN {Ref} ELSE {}) \cup (IF profile.bound THEN {} ELSE {0})
    BY <2>1 DEF ProfileRefs
  <2>5. s = (IF Sound' THEN {Ref'} ELSE {}) \cup (IF profile'.bound THEN {} ELSE {0})
    BY <2>1 DEF ProfileRefs
  <2>6. Sound' => Sound
    <3>1. CASE profile.bound  BY <1>9, <3>1 DEF Sound
    <3>2. CASE ~profile.bound  BY <1>9, <1>10, <1>11, <3>2 DEF Sound
    <3> QED  BY <3>1, <3>2
  <2>7. ASSUME Sound' PROVE Ref' = Ref \/ (Ref' = to /\ Ref = prev)
    <3>1. CASE profile.bound  BY <1>9, <1>11, <3>1
    <3>2. CASE ~profile.bound
      <4>1. ~room'.leapt  BY <1>9, <2>7, <3>2 DEF Sound
      <4>2. d.exact => room.w = prev  BY <1>10, <1>11, <3>2, <4>1
      <4> QED  BY <1>10, <1>11, <3>2, <4>2
    <3> QED  BY <3>1, <3>2
  <2>8. 0 <= prev
    <3>1. 0 \in 0 .. Len(stream) /\ m - 1 \in 0 .. Len(stream) /\ 0 <= m - 1  BY <1>3
    <3>2. W(0) <= W(m - 1) /\ W(0) = 0  BY <3>1, SampleFacts DEF StreamInv, TypeOK
    <3> QED  BY <1>6, <3>2
  <2>9. \A x \in s : (x \in r /\ x <= prev) \/ (x = to /\ prev \in r)
    <3> SUFFICES ASSUME NEW x \in s PROVE (x \in r /\ x <= prev) \/ (x = to /\ prev \in r)
      OBVIOUS
    <3>1. CASE Sound' /\ x = Ref'
      <4>1. Ref \in r  BY <2>4, <2>6, <3>1
      <4> QED  BY <1>7, <2>7, <3>1, <4>1
    <3>2. CASE ~profile'.bound /\ x = 0  BY <1>9, <2>4, <2>8, <3>2
    <3> QED  BY <2>5, <3>1, <3>2
  <2>10. \E h \in [0 .. Len(stream') -> Int] : Account(h, n, s)'
    BY <1>16, <2>2, <2>3, <2>9
  <2> QED  BY <2>1, <2>10, CalBalances
<1>18. RoomInv'
  <2>1. CASE ~(room'.valid /\ ~room'.leapt)  BY <2>1 DEF RoomInv
  <2>2. CASE room'.valid /\ ~room'.leapt
    <3>1. room.valid /\ ~room.leapt /\ (d.exact => room.w = prev)  BY <1>10, <2>2
    <3>2. PICK t \in Int, n \in Int, w \in Int, v \in Int :
            t = room.at /\ n = room'.at /\ w = room.w /\ v = room'.w /\ n = t + d.d
      <4>1. room.at \in Int /\ d.d \in Int /\ room.w \in Int  BY <1>3, <1>4 DEF Rooms, Deltas
      <4>2. room.at + d.d \in Int  BY <4>1
      <4> QED  BY <1>10, <3>1, <4>1, <4>2
    <3>3. Visited(w) /\ Accounted(t, {w})  BY <1>3, <3>1, <3>2 DEF RoomInv
    <3>4. w = Ref  BY <1>3, <1>11, <3>1, <3>2 DEF BindInv
    <3>5. v = w \/ (v = to /\ w = prev)  BY <1>10, <3>1, <3>2
    <3>6. \A x \in {v} : (x \in {w} /\ x <= prev) \/ (x = to /\ prev \in {w})
      BY <1>7, <3>4, <3>5
    <3>7. \E h \in [0 .. Len(stream') -> Int] : Account(h, n, {v})'
      <4>1. PICK r, s : r = {w} /\ s = {v}  OBVIOUS
      <4>2. Accounted(t, r)  BY <3>3, <4>1
      <4>3. \A x \in s : (x \in r /\ x <= prev) \/ (x = to /\ prev \in r)  BY <3>6, <4>1
      <4>4. \E h \in [0 .. Len(stream') -> Int] : Account(h, n, s)'
        BY <1>16, <3>2, <4>2, <4>3
      <4> QED  BY <4>1, <4>4
    <3>8. Visited(v)'
      <4>1. PICK i \in 0 .. Len(stream) : W(i) = w  BY <3>3 DEF Visited
      <4>2. m \in 0 .. Len(stream)  BY <1>3
      <4> QED  BY <1>6, <1>13, <3>5, <4>1, <4>2 DEF Visited
    <3> QED  BY <1>9, <3>2, <3>7, <3>8, RoomBalances
  <2> QED  BY <2>1, <2>2
<1> QED  BY <1>14, <1>15, <1>17, <1>18

\* Where the headset's endpoint lies.
LEMMA ObservedFacts ==
  ASSUME TypeOK, StreamInv, SpaceInv, Fresh
  PROVE  /\ hmd.n \in 1 .. Len(stream) /\ Observed = W(hmd.n) /\ stream[hmd.n].u = U(hmd.n)
         /\ \A i \in 0 .. Len(stream) : W(i) = W(hmd.n) => U(i) = U(hmd.n)
<1>1. hmd.n \in 1 .. Len(stream) /\ Len(stream) \in Nat
  <2>1. hmd.n \in 1 .. spc /\ spc \in 0 .. Len(stream) /\ Len(stream) \in Nat
    BY DEF SpaceInv, HmdAt, Fresh, TypeOK, StreamTypes
  <2> QED  BY <2>1
<1>2. Observed = W(hmd.n) /\ stream[hmd.n].u = U(hmd.n)
  BY <1>1, SampleFacts DEF TypeOK, Observed
<1>3. ASSUME NEW i \in 0 .. Len(stream), W(i) = W(hmd.n) PROVE U(i) = U(hmd.n)
  <2>1. hmd.n \in 0 .. Len(stream) /\ (i <= hmd.n \/ hmd.n <= i)  BY <1>1
  <2> QED  BY <1>3, <2>1 DEF StreamInv
<1> QED  BY <1>1, <1>2, <1>3

LEMMA CaptureBalances ==
  ASSUME ~Hasty, TypeOK, StreamInv, StepsInv, SpaceInv, BooksInv, Capture,
         \A n \in Nat : Future(n)' => Future(n)
  PROVE  FutureInv' /\ BindInv' /\ CalInv' /\ RoomInv'
<1>1. /\ pc = "idle" /\ ~profile.unsafe /\ Fresh /\ (~profile.has \/ Settled)
      /\ UNCHANGED <<stream, mon, profile, comped>>
      /\ room'.valid /\ room'.w = Observed /\ room'.at = stream[hmd.n].u /\ room'.leapt = FALSE
  <2>1. /\ pc = "idle" /\ ~profile.unsafe /\ Fresh /\ (~profile.has \/ Settled)
    BY DEF Capture
  <2>2. UNCHANGED <<stream, mon, profile, comped>>
    BY DEF Capture, verdictVars, streamVars
  <2>3. PICK saved \in BOOLEAN :
          room' = [valid |-> TRUE, auto |-> saved, ver |-> saved, w |-> Observed,
                   at |-> stream[hmd.n].u, leapt |-> FALSE]
    BY Zenon DEF Capture
  <2> QED  BY <2>1, <2>2, <2>3
<1>2. /\ FutureInv /\ BindInv /\ ClearInv /\ CalInv /\ RoomInv /\ mon \in Int
      /\ Len(stream) \in Nat /\ StreamTypes
  BY DEF BooksInv, TypeOK, StreamTypes
<1>3. Len(stream') = Len(stream) /\ \A i : W(i)' = W(i) /\ U(i)' = U(i)  BY <1>1, SamePoses
<1>4. PICK h \in 1 .. Len(stream), w \in Int, u \in Int :
        /\ h = hmd.n /\ w = W(h) /\ u = U(h) /\ Observed = w /\ stream[hmd.n].u = u
        /\ \A i \in 0 .. Len(stream) : W(i) = w => U(i) = u
  <2>1. hmd.n \in 0 .. Len(stream)  BY <1>1, <1>2, ObservedFacts
  <2>2. W(hmd.n) \in Int /\ U(hmd.n) \in Int  BY <1>2, <2>1, SampleFacts
  <2> QED  BY <1>1, <2>2, ObservedFacts
<1>5. comped' = {}
  <2>1. CASE ~profile.has  BY <1>1, <1>2, <2>1 DEF BindInv
  <2>2. CASE profile.has  BY <1>1, <1>2, <2>2 DEF ClearInv, Settled, Fresh
  <2> QED  BY <2>1, <2>2
<1>6. RoomInv'
  <2>1. \A i \in 0 .. Len(stream) : W(i) \in {w} => U(i) = u  BY <1>4
  <2>2. \E g \in [0 .. Len(stream') -> Int] : Account(g, u, {w})'
    BY ONLY <1>1, <1>2, <1>5, <2>1, u \in Int, FlatAccount
  <2>3. Visited(w)'
    <3>1. h \in 0 .. Len(stream)  BY <1>2
    <3> QED  BY <1>3, <1>4, <3>1 DEF Visited
  <2>4. \A i \in 0 .. Len(stream') : W(i)' = w => U(i)' = u  BY <1>3, <1>4
  <2> QED  BY <1>1, <1>4, <2>2, <2>3, <2>4, RoomBalances
<1>7. CASE ~profile.has
  <2>1. FutureInv' /\ BindInv' /\ CalInv'
    BY <1>1, <1>5, <1>7 DEF FutureInv, BindInv, CalInv
  <2> QED  BY <1>6, <2>1
<1>8. CASE profile.has
  <2>1. profile.w = w  BY <1>1, <1>4, <1>8 DEF Settled
  <2>2. BindInv'  BY <1>1, <1>2, <1>4, <2>1 DEF BindInv
  <2>3. Ref' = w  BY <1>1, <1>4, <2>1 DEF Ref
  <2>4. ProfileRefs' \subseteq ProfileRefs
    <3>1. CASE profile.bound  BY <1>1, <2>1, <2>3, <3>1 DEF ProfileRefs, Sound, Ref
    <3>2. CASE ~profile.bound
      <4>1. w = 0  BY <1>2, <1>8, <2>1, <3>2 DEF BindInv
      <4> QED  BY <1>1, <2>3, <3>2, <4>1 DEF ProfileRefs
    <3> QED  BY <3>1, <3>2
  <2>5. CalInv'  BY <1>1, <1>2, <1>8, <2>4, CalKept
  <2>6. FutureInv'
    <3>1. Visited(w)
      <4>1. h \in 0 .. Len(stream)  BY <1>2
      <4> QED  BY <1>4, <4>1 DEF Visited
    <3>2. ASSUME NEW n \in 1 .. Len(stream), Future(n)' PROVE W(n - 1) >= w
      <4>1. Future(n)  BY <1>2, <3>2
      <4>2. CASE profile.bound  BY <1>2, <1>8, <2>1, <4>1, <4>2 DEF FutureInv, Ref
      <4>3. CASE ~profile.bound
        <5>1. w = 0  BY <1>2, <1>8, <2>1, <4>3 DEF BindInv
        <5>2. 0 \in 0 .. Len(stream) /\ n - 1 \in 0 .. Len(stream) /\ 0 <= n - 1  BY <1>2
        <5>3. W(0) <= W(n - 1) /\ W(0) = 0 /\ W(n - 1) \in Int
          BY <1>2, <5>2, SampleFacts DEF StreamInv
        <5> QED  BY <5>1, <5>3
      <4> QED  BY <4>2, <4>3
    <3>3. mon' >= mon /\ mon' \in Int  BY <1>1, <1>2
    <3> QED  BY <1>1, <1>2, <1>5, <2>3, <3>1, <3>2, <3>3, FutureMoved
  <2> QED  BY <1>6, <2>2, <2>5, <2>6
<1> QED  BY <1>7, <1>8

\* What a run measured stands where the universe has been since it began.
LEMMA FinishBalances ==
  ASSUME ~Hasty, TypeOK, StreamInv, JumpInv, SpaceInv, BooksInv, FinishRun,
         \A n \in Nat : Future(n)' => Future(n)
  PROVE  FutureInv' /\ BindInv' /\ CalInv' /\ RoomInv'
<1>1. /\ pc = "idle" /\ Running /\ ~crossing /\ run.ticked /\ spc >= run.at /\ mon >= run.at
      /\ \A i \in run.at..Len(stream) :
           stream[i].kind = "bad" \/ (stream[i].w = stream[run.at].w /\ stream[i].kind # "session")
      /\ Fresh
      /\ profile' = [has |-> TRUE, bound |-> Fresh, w |-> IF Fresh THEN Observed ELSE 0,
                     cal |-> stream[run.at].u, unsafe |-> FALSE, from |-> "own"]
      /\ room' = IF room.valid /\ (profile.unsafe \/ ~BaselineCurrent) THEN Disarmed ELSE room
      /\ UNCHANGED <<stream, mon, comped, cands, deltas, lastAccept>>
  BY DEF FinishRun, verdictVars, jumpVars, streamVars
<1>2. /\ FutureInv /\ BindInv /\ CalInv /\ RoomInv /\ mon \in Int /\ spc \in 0 .. Len(stream)
      /\ Len(stream) \in Nat /\ StreamTypes /\ run.at \in 1 .. Len(stream)
  BY <1>1 DEF BooksInv, TypeOK, StreamTypes, ProfileTypes, Running
<1>3. /\ profile'.has /\ profile'.bound /\ profile'.w = Observed /\ profile'.cal = stream[run.at].u
      /\ ~profile'.unsafe /\ profile'.from = "own"
  BY <1>1
<1>4. cands = {} /\ deltas = <<>> /\ comped = {} /\ stream[run.at].kind = "good"
  BY <1>1 DEF JumpInv, RunInv
<1>5. Len(stream') = Len(stream) /\ \A i : W(i)' = W(i) /\ U(i)' = U(i)  BY <1>1, SamePoses
<1>6. PICK s \in 1 .. Len(stream), w \in Int, u \in Int :
        /\ s = run.at /\ w = W(s) /\ u = U(s) /\ stream[run.at].u = u /\ stream[run.at].w = w
  <2>1. run.at \in 0 .. Len(stream)  BY <1>2
  <2> QED  BY <1>2, <2>1, SampleFacts
<1>7. Observed = w
  <2>1. ~Gapped(spc)
    <3>1. CASE spc = Len(stream)  BY <1>1, <3>1 DEF Gapped
    <3>2. CASE spc # Len(stream)
      <4>1. spc + 1 \in run.at .. Len(stream)  BY <1>1, <1>2, <3>2
      <4>2. stream[spc + 1].kind # "session"  BY <1>1, <4>1
      <4> QED  BY <3>2, <4>2 DEF Gapped
    <3> QED  BY <3>1, <3>2
  <2>2. hmd.n = spc /\ stream[hmd.n].kind # "bad"
    BY <1>1, <2>1 DEF SpaceInv, HmdAt, Fresh
  <2>3. hmd.n \in run.at .. Len(stream)  BY <1>1, <1>2, <2>2
  <2> QED  BY <1>1, <1>6, <2>2, <2>3 DEF Observed
<1>8. \A i \in 0 .. Len(stream) : W(i) = w => U(i) = u
  <2> SUFFICES ASSUME NEW i \in 0 .. Len(stream), W(i) = w PROVE U(i) = u  OBVIOUS
  <2>1. s \in 0 .. Len(stream) /\ (i <= s \/ s <= i)  BY <1>2
  <2> QED  BY <1>6, <2>1 DEF StreamInv
<1>9. Ref' = w /\ ProfileRefs' = {w}
  <2>1. Ref' = w  BY <1>3, <1>7 DEF Ref
  <2> QED  BY <1>3, <2>1 DEF ProfileRefs, Sound
<1>10. FutureInv'
  <2>1. Visited(w)
    <3>1. s \in 0 .. Len(stream)  BY <1>2
    <3> QED  BY <1>6, <3>1 DEF Visited
  <2>2. ASSUME NEW n \in 1 .. Len(stream), Future(n)' PROVE W(n - 1) >= w
    <3>1. n > mon  BY <1>1, <1>4, <2>2 DEF Future
    <3>2. s \in 0 .. Len(stream) /\ n - 1 \in 0 .. Len(stream) /\ s <= n - 1
      BY <1>1, <1>2, <1>6, <3>1
    <3>3. W(s) <= W(n - 1) /\ W(n - 1) \in Int  BY <1>2, <3>2, SampleFacts DEF StreamInv
    <3> QED  BY <1>6, <3>3
  <2>3. mon' >= mon /\ mon' \in Int  BY <1>1, <1>2
  <2> QED  BY <1>1, <1>2, <1>4, <1>9, <2>1, <2>2, <2>3, FutureMoved
<1>11. CalInv'
  <2>1. \A i \in 0 .. Len(stream) : W(i) \in {w} => U(i) = u  BY <1>8
  <2>2. comped' = {} /\ UNCHANGED stream /\ Len(stream) \in Nat  BY <1>1, <1>2, <1>4
  <2>3. \E g \in [0 .. Len(stream') -> Int] : Account(g, u, {w})'
    BY ONLY <2>1, <2>2, u \in Int, FlatAccount
  <2>4. u = profile'.cal /\ {w} = ProfileRefs'  BY <1>3, <1>6, <1>9
  <2> QED  BY <2>3, <2>4, CalBalances
<1>12. CASE room' = Disarmed
  <2>1. ~room'.valid
    <3>1. room \in Rooms  BY DEF TypeOK, ProfileTypes
    <3> QED  BY <1>12, <3>1 DEF Disarmed, Rooms
  <2>2. RoomInv' /\ BindInv'  BY <1>3, <2>1 DEF RoomInv, BindInv
  <2> QED  BY <1>10, <1>11, <2>2
<1>13. CASE room' = room /\ (room.valid => BaselineCurrent)
  <2>1. RoomInv'  BY <1>1, <1>2, <1>3, <1>13, RoomKept
  <2>2. room'.valid => room'.w = profile'.w  BY <1>3, <1>13 DEF BaselineCurrent
  <2>3. BindInv'  BY <1>3, <2>2 DEF BindInv
  <2> QED  BY <1>10, <1>11, <2>1, <2>3
<1> QED  BY <1>1, <1>12, <1>13

\* A step that compensates nothing and moves nothing, or what the last lemmas say.
LEMMA QuietBalances ==
  ASSUME ~Hasty, TypeOK, StreamInv, JumpInv, SpaceInv, BooksInv, Quiet
  PROVE  FutureInv' /\ BindInv' /\ CalInv' /\ RoomInv'
<1>0. UNCHANGED stream /\ mon' >= mon /\ mon' \in Nat /\ mon \in Nat  BY QuietStream, MonGrows
<1>e. \A n \in Nat : Future(n)' => Future(n)  BY QuietSteps
<1>f. /\ FutureInv /\ BindInv /\ CalInv /\ RoomInv /\ StepsInv /\ mon \in Int /\ mon' \in Int
      /\ room \in Rooms
  BY <1>0 DEF BooksInv, JumpInv, TypeOK, ProfileTypes
<1>a. ASSUME UNCHANGED profile, comped' \subseteq comped,
             room'.valid = room.valid, room'.w = room.w, room'.at = room.at,
             room'.leapt = room.leapt
      PROVE  FutureInv' /\ BindInv' /\ CalInv' /\ RoomInv'
  BY <1>0, <1>e, <1>f, <1>a, BooksKept
<1>b. ASSUME UNCHANGED profile, comped' \subseteq comped, RoomTick(room)
      PROVE  FutureInv' /\ BindInv' /\ CalInv' /\ RoomInv'
  BY <1>0, <1>e, <1>f, <1>b, RoomTickBalances
<1>1. CASE SessionBoundary  BY <1>a, <1>1 DEF SessionBoundary, verdictVars
<1>2. CASE Reopen  BY <1>a, <1>2 DEF Reopen, verdictVars
<1>3. CASE Recovered  BY <1>a, <1>3 DEF Recovered, verdictVars
<1>4. CASE GraceOver  BY <1>a, <1>4 DEF GraceOver, verdictVars
<1>5. CASE Park  BY <1>a, <1>5 DEF Park, verdictVars
<1>6. CASE MonitorDrain  BY <1>a, <1>6 DEF MonitorDrain, verdictVars
<1>7. CASE PushSample  BY <1>a, <1>7 DEF PushSample, verdictVars
<1>8. CASE ApplyDelta  BY <1>e, <1>f, <1>8, ApplyBalances
<1>9. CASE MonitorDone  BY <1>a, <1>9 DEF MonitorDone, verdictVars
<1>10. CASE Ripen  BY <1>a, <1>10 DEF Ripen, verdictVars
<1>11. CASE DropCandidate  BY <1>a, <1>11 DEF DropCandidate, verdictVars
<1>12. CASE Confirm  BY <1>a, <1>12 DEF Confirm, verdictVars
<1>13. CASE RefuseDelta  BY <1>a, <1>13 DEF RefuseDelta, verdictVars
<1>14. CASE SpaceClosed
  <2>1. UNCHANGED profile /\ comped' \subseteq comped /\ room' = [room EXCEPT !.ver = FALSE]
    BY <1>14 DEF SpaceClosed, NoVerdict
  <2>2. room'.valid = room.valid /\ room'.w = room.w /\ room'.at = room.at /\ room'.leapt = room.leapt
    BY <1>f, <2>1 DEF Rooms
  <2> QED  BY <1>a, <2>1, <2>2
<1>15. CASE SpaceDrain
  <2>1. UNCHANGED profile /\ comped' \subseteq comped /\ room' = [room EXCEPT !.ver = Cached.ver /\ Cached.hmd.state = "usable"]
    BY <1>15 DEF SpaceDrain
  <2>2. room'.valid = room.valid /\ room'.w = room.w /\ room'.at = room.at /\ room'.leapt = room.leapt
    BY <1>f, <2>1 DEF Rooms
  <2> QED  BY <1>a, <2>1, <2>2
<1>16. CASE JudgeClear  BY <1>b, <1>16 DEF JudgeClear, NoVerdict
<1>17. CASE JudgeStale  BY <1>b, <1>17 DEF JudgeStale, verdictVars
<1>18. CASE JudgeBind  BY <1>e, <1>18, JudgeBindBalances
<1>19. CASE Judge  BY <1>e, <1>f, <1>19, JudgeBalances
<1>20. CASE Capture  BY <1>e, <1>f, <1>20, CaptureBalances
<1>21. CASE CaptureFails
  <2>1. UNCHANGED profile /\ comped' \subseteq comped /\ room' = [room EXCEPT !.auto = FALSE, !.ver = FALSE]
    BY <1>21 DEF CaptureFails, verdictVars
  <2>2. room'.valid = room.valid /\ room'.w = room.w /\ room'.at = room.at /\ room'.leapt = room.leapt
    BY <1>f, <2>1 DEF Rooms
  <2> QED  BY <1>a, <2>1, <2>2
<1>22. CASE StartRun  BY <1>a, <1>22 DEF StartRun, verdictVars
<1>23. CASE FinishRun  BY <1>e, <1>23, FinishBalances
<1>24. CASE EndRun  BY <1>a, <1>24 DEF EndRun, verdictVars
<1> QED
  BY <1>1, <1>2, <1>3, <1>4, <1>5, <1>6, <1>7, <1>8, <1>9, <1>10, <1>11, <1>12, <1>13, <1>14,
     <1>15, <1>16, <1>17, <1>18, <1>19, <1>20, <1>21, <1>22, <1>23, <1>24
     DEF Quiet

\* The verdict and the compensations it waits for.
LEMMA QuietClear ==
  ASSUME ~Hasty, TypeOK, JumpInv, BooksInv, Quiet
  PROVE  ClearInv'
<1>0. UNCHANGED stream  BY QuietStream
<1>f. ClearInv /\ BindInv /\ RunInv /\ hmd \in Endpoints /\ profile \in Profiles
  BY DEF BooksInv, JumpInv, TypeOK, VerdictTypes, ProfileTypes
<1>a. ASSUME UNCHANGED <<pc, hmd, profile>>, comped' \subseteq comped,
             pc = "judge" => UNCHANGED open
      PROVE  ClearInv'
  BY <1>0, <1>f, <1>a DEF ClearInv, Enabled, Observed
<1>b. ASSUME pc' \notin {"idle", "judge"} PROVE ClearInv'
  BY <1>b DEF ClearInv
<1>c. ASSUME pc' = "idle", comped' = {} PROVE ClearInv'
  BY <1>c DEF ClearInv
<1>1. CASE SessionBoundary  BY <1>a, <1>1 DEF SessionBoundary, verdictVars
<1>2. CASE Reopen  BY <1>a, <1>2 DEF Reopen, verdictVars
<1>3. CASE Recovered  BY <1>a, <1>3 DEF Recovered, verdictVars, linkVars
<1>4. CASE GraceOver  BY <1>a, <1>4 DEF GraceOver, verdictVars, linkVars
<1>5. CASE Park  BY <1>b, <1>5 DEF Park
<1>6. CASE MonitorDrain  BY <1>b, <1>6 DEF MonitorDrain
<1>7. CASE PushSample  BY <1>b, <1>7 DEF PushSample
<1>8. CASE ApplyDelta  BY <1>b, <1>8 DEF ApplyDelta
<1>9. CASE MonitorDone  BY <1>b, <1>9 DEF MonitorDone
<1>10. CASE Ripen  BY <1>b, <1>10 DEF Ripen
<1>11. CASE DropCandidate  BY <1>b, <1>11 DEF DropCandidate
<1>12. CASE Confirm  BY <1>b, <1>12 DEF Confirm
<1>13. CASE RefuseDelta  BY <1>b, <1>13 DEF RefuseDelta
<1>14. CASE SpaceClosed
  <2>1. pc' = "judge" /\ hmd'.state = "empty"  BY <1>14 DEF SpaceClosed
  <2> QED  BY <2>1 DEF ClearInv
<1>15. CASE SpaceDrain
  <2>1. pc' = "judge" /\ open'  BY <1>15 DEF SpaceDrain, linkVars
  <2> QED  BY <2>1 DEF ClearInv
<1>16. CASE JudgeClear  BY <1>c, <1>16 DEF JudgeClear, NoVerdict, RoomTick
<1>17. CASE JudgeStale
  <2>1. pc = "judge" /\ pc' = "idle" /\ ~Fresh /\ UNCHANGED hmd  BY <1>17 DEF JudgeStale, RoomTick
  <2>2. hmd'.state # "usable"  BY <1>f, <2>1 DEF ClearInv, Fresh
  <2> QED  BY <2>1, <2>2 DEF ClearInv
<1>18. CASE JudgeBind
  <2>1. pc = "judge" /\ comped' = {}  BY <1>18 DEF JudgeBind, NoVerdict
  <2>2. pc' = "idle" \/ (UNCHANGED <<pc, hmd, open>>)
    BY <1>18, Zenon DEF JudgeBind, RoomTick, linkVars
  <2> QED  BY <1>f, <2>1, <2>2 DEF ClearInv
<1>19. CASE Judge
  <2> DEFINE walk == Walk(profile.w, trans)
             matched == walk.ref = Observed
             timed == grace.at # "off" /\ grace.from = walk.ref
             expired == ~matched /\ ~walk.wait /\ timed /\ grace.at = "over"
  <2>1. /\ profile' = [profile EXCEPT !.w = walk.ref, !.unsafe = expired]
        /\ matched \/ expired => comped' = {}
        /\ profile.has /\ profile.bound /\ pc' = "idle" /\ UNCHANGED hmd
    BY <1>19 DEF Judge, NoVerdict, RoomTick, Enabled
  <2> HIDE DEF walk, expired
  <2>2. CASE matched \/ expired  BY <1>c, <2>1, <2>2
  <2>3. CASE ~matched /\ ~expired
    <3>1. profile'.w = walk.ref /\ profile'.has /\ profile'.bound  BY <1>f, <2>1 DEF Profiles
    <3>2. ~profile'.unsafe  BY <1>f, <2>1, <2>3, Zenon DEF Profiles
    <3>3. Observed' = Observed  BY <1>0, <2>1 DEF Observed
    <3> QED  BY <2>1, <2>3, <3>1, <3>2, <3>3 DEF ClearInv, Enabled
  <2> QED  BY <2>2, <2>3
<1>20. CASE Capture  BY <1>a, <1>20 DEF Capture, verdictVars, linkVars
<1>21. CASE CaptureFails  BY <1>a, <1>21 DEF CaptureFails, verdictVars, linkVars
<1>22. CASE StartRun  BY <1>a, <1>22 DEF StartRun, verdictVars, linkVars
<1>23. CASE FinishRun
  <2>1. pc' = "idle" /\ Running /\ run.ticked /\ pc = "idle" /\ UNCHANGED comped
    BY <1>23 DEF FinishRun, verdictVars
  <2>2. comped' = {}  BY <1>f, <2>1 DEF RunInv
  <2> QED  BY <1>c, <2>1, <2>2
<1>24. CASE EndRun  BY <1>a, <1>24 DEF EndRun, verdictVars, linkVars
<1> QED
  BY <1>1, <1>2, <1>3, <1>4, <1>5, <1>6, <1>7, <1>8, <1>9, <1>10, <1>11, <1>12, <1>13, <1>14,
     <1>15, <1>16, <1>17, <1>18, <1>19, <1>20, <1>21, <1>22, <1>23, <1>24
     DEF Quiet

-----------------------------------------------------------------------------
(* The headset's steps.                                                    *)

\* What was so of the samples published before is so.
LEMMA PublishedKeeps ==
  ASSUME StreamTypes, ~Returns, Still \/ Change
  PROVE  /\ \A k \in 1 .. Len(stream) : StepAt(k)' <=> StepAt(k)
         /\ \A p \in 0 .. Len(stream) : Gapped(p) => Gapped(p)'
         /\ \A w : Visited(w) => Visited(w)'
<1>1. PICK n \in Nat : n = Len(stream) + 1  BY DEF StreamTypes
<1>2. /\ Len(stream') = n /\ Len(stream) \in Nat
      /\ \A i \in 1 .. Len(stream) : stream'[i] = stream[i]
      /\ crossing => stream'[n].kind = "session"
      /\ \A i \in 0 .. Len(stream) : W(i)' = W(i) /\ U(i)' = U(i)
  BY <1>1, Published
<1>3. ASSUME NEW k \in 1 .. Len(stream) PROVE StepAt(k)' <=> StepAt(k)
  <2>1. k \in 2 .. n <=> k \in 2 .. Len(stream)  BY <1>1, <1>2
  <2>2. ASSUME k \in 2 .. Len(stream) PROVE StepAt(k)' <=> StepAt(k)
    <3>1. k - 1 \in 1 .. Len(stream) /\ k \in 0 .. Len(stream) /\ k - 1 \in 0 .. Len(stream)
      BY <1>2, <2>2
    <3>2. stream'[k] = stream[k] /\ stream'[k - 1] = stream[k - 1]  BY <1>2, <3>1
    <3>3. W(k)' = W(k) /\ W(k - 1)' = W(k - 1)  BY <1>2, <3>1
    <3> QED  BY <1>2, <2>1, <3>2, <3>3 DEF StepAt
  <2>3. ASSUME k \notin 2 .. Len(stream) PROVE ~StepAt(k)' /\ ~StepAt(k)
    BY <1>2, <2>1, <2>3 DEF StepAt
  <2> QED  BY <2>2, <2>3
<1>4. ASSUME NEW p \in 0 .. Len(stream), Gapped(p) PROVE Gapped(p)'
  <2>1. p # Len(stream')  BY <1>1, <1>2
  <2>2. CASE p = Len(stream)  BY <1>1, <1>2, <1>4, <2>1, <2>2 DEF Gapped
  <2>3. CASE p # Len(stream)
    <3>1. p + 1 \in 1 .. Len(stream)  BY <1>2, <2>3
    <3> QED  BY <1>2, <1>4, <2>1, <2>3, <3>1 DEF Gapped
  <2> QED  BY <2>2, <2>3
<1>5. ASSUME NEW w, Visited(w) PROVE Visited(w)'
  <2>1. PICK i \in 0 .. Len(stream) : W(i) = w  BY <1>5 DEF Visited
  <2>2. i \in 0 .. Len(stream')  BY <1>1, <1>2
  <2> QED  BY <1>2, <2>1, <2>2 DEF Visited
<1> QED  BY <1>3, <1>4, <1>5

LEMMA PublishTypes ==
  ASSUME TypeOK, SpaceInv, ~Returns, Still \/ Change
  PROVE  TypeOK'
<1>1. PICK n \in Nat : n = Len(stream) + 1  BY DEF TypeOK, StreamTypes
<1>2. /\ Len(stream') = n /\ Len(stream) \in Nat /\ stream' \in Seq(Samples) /\ crossing' = FALSE
      /\ UNCHANGED <<incidents, linkVars, jumpVars, verdictVars, pc, mon, upto, spc, hmd,
                     seen, run, profile, room, missed>>
  BY <1>1, Published DEF TypeOK
<1>3. StreamTypes'
  <2>1. mon' \in 0 .. Len(stream') /\ upto' \in 0 .. Len(stream') /\ spc' \in 0 .. Len(stream')
    BY <1>1, <1>2 DEF TypeOK, StreamTypes
  <2>2. UNCHANGED <<open, incidents, newSession, recovering, active, pc>>  BY <1>2 DEF linkVars
  <2> QED  BY <1>2, <2>1, <2>2 DEF TypeOK, StreamTypes
<1>4. JumpTypes'  BY <1>2 DEF TypeOK, JumpTypes, jumpVars
<1>5. VerdictTypes'
  <2>1. Placed(hmd)'  BY <1>1, <1>2 DEF TypeOK, VerdictTypes, Placed
  <2> QED  BY <1>2, <2>1 DEF TypeOK, VerdictTypes, verdictVars
<1>6. ProfileTypes'
  <2>1. run' \in [at : 0 .. Len(stream'), ticked : BOOLEAN]
    <3>1. run \in [at : 0 .. Len(stream), ticked : BOOLEAN]  BY DEF TypeOK, ProfileTypes
    <3>2. 0 .. Len(stream) \subseteq 0 .. Len(stream')  BY <1>1, <1>2
    <3> QED  BY <1>2, <3>1, <3>2
  <2> QED  BY <1>2, <2>1 DEF TypeOK, ProfileTypes
<1> QED  BY <1>3, <1>4, <1>5, <1>6 DEF TypeOK

\* The last world goes on, or a later one begins.
LEMMA PublishStream ==
  ASSUME StreamTypes, StreamInv, ~Returns, Still \/ Change, NEW n \in Nat, n = Len(stream) + 1
  PROVE  /\ StreamInv'
         /\ \A i \in 0 .. Len(stream) :
              /\ W(i)' <= W(n)'
              /\ W(i)' = W(n)' => /\ U(i)' = U(n)'
                                  /\ W(i) = W(Len(stream)) /\ U(i) = U(Len(stream))
<1>1. n \in Nat /\ n = Len(stream) + 1  OBVIOUS
<1>2. /\ Len(stream') = n /\ Len(stream) \in Nat
      /\ \A i \in 0 .. Len(stream) : W(i)' = W(i) /\ U(i)' = U(i)
      /\ W(n)' \in Int
      /\ \/ W(n)' > W(Len(stream))
         \/ W(n)' = W(Len(stream)) /\ U(n)' = U(Len(stream))
  BY <1>1, Published
<1>3. ASSUME NEW i \in 0 .. Len(stream)
      PROVE  /\ W(i)' <= W(n)'
             /\ W(i)' = W(n)' => /\ U(i)' = U(n)'
                                 /\ W(i) = W(Len(stream)) /\ U(i) = U(Len(stream))
  <2>1. Len(stream) \in 0 .. Len(stream) /\ i <= Len(stream)  BY <1>2
  <2>2. W(i) <= W(Len(stream)) /\ (W(i) = W(Len(stream)) => U(i) = U(Len(stream)))
    BY <2>1 DEF StreamInv
  <2>3. W(i) \in Int /\ W(Len(stream)) \in Int  BY <2>1, SampleFacts
  <2> QED  BY <1>2, <2>2, <2>3
<1>4. StreamInv'
  <2> SUFFICES ASSUME NEW i \in 0 .. n, NEW j \in 0 .. n, i <= j
               PROVE  W(i)' <= W(j)' /\ (W(i)' = W(j)' => U(i)' = U(j)')
    BY <1>2 DEF StreamInv
  <2>1. CASE j <= Len(stream)
    <3>1. i \in 0 .. Len(stream) /\ j \in 0 .. Len(stream)  BY <1>1, <1>2, <2>1
    <3> QED  BY <1>2, <3>1 DEF StreamInv
  <2>2. CASE j = n /\ i \in 0 .. Len(stream)  BY <1>3, <2>2
  <2>3. CASE j = n /\ i = n
    <3>1. W(i)' = W(n)' /\ W(j)' = W(n)' /\ U(i)' = U(n)' /\ U(j)' = U(n)'  BY <2>3
    <3> QED  BY <1>2, <3>1
  <2>4. j <= Len(stream) \/ (j = n /\ i \in 0 .. Len(stream)) \/ (j = n /\ i = n)
    BY <1>1, <1>2
  <2> QED  BY <2>1, <2>2, <2>3, <2>4
<1> QED  BY <1>3, <1>4

LEMMA PublishJump ==
  ASSUME TypeOK, JumpInv, ~Returns, Still \/ Change
  PROVE  JumpInv'
<1>1. PICK n \in Nat : n = Len(stream) + 1  BY DEF TypeOK, StreamTypes
<1>2. /\ Len(stream') = n /\ Len(stream) \in Nat
      /\ \A i \in 1 .. Len(stream) : stream'[i] = stream[i]
      /\ \A i \in 0 .. Len(stream) : W(i)' = W(i) /\ U(i)' = U(i)
      /\ UNCHANGED <<newSession, active, watch, cands, lastAccept, deltas, comped, pc, mon, upto,
                     run, profile>>
  BY <1>1, Published DEF TypeOK, linkVars, jumpVars, verdictVars
<1>3. \A k \in 1 .. Len(stream) : StepAt(k) => StepAt(k)'  BY PublishedKeeps DEF TypeOK
<1>4. mon \in 0 .. Len(stream) /\ run.at \in 0 .. Len(stream) /\ cands \subseteq Candidates
      /\ watch.last \in Nat
  BY DEF TypeOK, StreamTypes, JumpTypes, ProfileTypes
<1>5. WatchInv'
  <2>1. watch.last # 0 /\ watch.last <= mon => stream'[watch.last] = stream[watch.last]
    BY <1>2, <1>4
  <2>2. Running' = Running  BY <1>2 DEF Running
  <2> QED  BY <1>2, <2>1, <2>2 DEF JumpInv, WatchInv, Nowhere
<1>6. \A k \in 1 .. Len(stream) : StepAt(k) =>
        /\ W(k)' = W(k) /\ W(k - 1)' = W(k - 1) /\ U(k)' = U(k) /\ U(k - 1)' = U(k - 1)
  <2> SUFFICES ASSUME NEW k \in 1 .. Len(stream)
               PROVE  /\ W(k)' = W(k) /\ W(k - 1)' = W(k - 1)
                      /\ U(k)' = U(k) /\ U(k - 1)' = U(k - 1)
    OBVIOUS
  <2>1. k \in 0 .. Len(stream) /\ k - 1 \in 0 .. Len(stream)  BY <1>2
  <2> QED  BY <1>2, <2>1
<1>7. ASSUME NEW d \in Deltas, DeltaOK(d) PROVE DeltaOK(d)'
  <2>1. PICK k \in 1 .. Len(stream) : k = d.n
    <3>1. d.n \in 1 .. Len(stream)  BY <1>2, <1>7 DEF DeltaOK, StepAt
    <3> QED  BY <3>1
  <2>2. /\ StepAt(k)' /\ W(k - 1)' = W(k - 1) /\ U(k)' = U(k) /\ U(k - 1)' = U(k - 1)
    BY <1>3, <1>6, <1>7, <2>1 DEF DeltaOK
  <2> QED  BY <1>2, <1>7, <2>1, <2>2 DEF DeltaOK
<1>8. ASSUME NEW c \in Candidates, CandOK(c) PROVE CandOK(c)'
  <2>1. PICK k \in 1 .. Len(stream) : k = c.n
    <3>1. c.n \in 1 .. Len(stream)  BY <1>2, <1>8 DEF CandOK, StepAt
    <3> QED  BY <3>1
  <2>2. /\ StepAt(k)' /\ U(k)' = U(k) /\ U(k - 1)' = U(k - 1)
    BY <1>3, <1>6, <1>8, <2>1 DEF CandOK
  <2> QED  BY <1>2, <1>8, <2>1, <2>2 DEF CandOK
<1>9. StepsInv'
  <2>1. \A d \in Deltas : (\E k \in 1 .. Len(deltas') : deltas'[k] = d) => DeltaOK(d)'
    BY <1>2, <1>7 DEF JumpInv, StepsInv
  <2>2. \A c \in cands' : CandOK(c)'  BY <1>2, <1>4, <1>8 DEF JumpInv, StepsInv
  <2>3. /\ lastAccept' <= mon'
        /\ \A k, l \in 1 .. Len(deltas') : k < l => deltas'[k].n < deltas'[l].n
    BY <1>2 DEF JumpInv, StepsInv
  <2> QED  BY <2>1, <2>2, <2>3 DEF StepsInv
<1>10. RunInv'
  <2>1. Running => stream'[run.at] = stream[run.at]  BY <1>2, <1>4 DEF Running
  <2>2. Running' = Running  BY <1>2 DEF Running
  <2> QED  BY <1>2, <2>1, <2>2 DEF JumpInv, RunInv, Nowhere
<1> QED  BY <1>5, <1>9, <1>10 DEF JumpInv

LEMMA PublishSpace ==
  ASSUME TypeOK, SpaceInv, ~Returns, Still \/ Change
  PROVE  SpaceInv'
<1>1. PICK n \in Nat : n = Len(stream) + 1  BY DEF TypeOK, StreamTypes
<1>2. /\ Len(stream') = n /\ Len(stream) \in Nat
      /\ \A i \in 1 .. Len(stream) : stream'[i] = stream[i]
      /\ \A i \in 0 .. Len(stream) : W(i)' = W(i) /\ U(i)' = U(i)
      /\ UNCHANGED <<hmd, trans, seen, spc>>
  BY <1>1, Published DEF TypeOK, verdictVars
<1>3. /\ \A k \in 1 .. Len(stream) : StepAt(k)' <=> StepAt(k)
      /\ \A p \in 0 .. Len(stream) : Gapped(p) => Gapped(p)'
  BY PublishedKeeps DEF TypeOK
<1>4. PICK p \in 0 .. Len(stream) : p = spc  BY DEF TypeOK, StreamTypes
<1>5. PICK h : h = hmd /\ h \in Endpoints  BY DEF TypeOK, VerdictTypes
<1>6. HmdAt(h, p)'
  <2>1. HmdAt(h, p) /\ h.state \in {"empty", "usable", "endpoint"}
    BY <1>4, <1>5 DEF SpaceInv, Endpoints
  <2>2. h.state # "empty" => h.n \in 1 .. p  BY <2>1 DEF HmdAt
  <2>3. h.state # "empty" => stream'[h.n] = stream[h.n] /\ stream'[p] = stream[p]
    BY <1>2, <2>2
  <2>4. Gapped(p) => Gapped(p)'  BY <1>3
  <2> QED  BY <2>1, <2>2, <2>3, <2>4 DEF HmdAt
<1>7. ASSUME NEW t \in Transitions, Noted(t, p) PROVE Noted(t, p)'
  <2>1. t.n \in 1 .. p  BY <1>7 DEF Noted
  <2>2. PICK k \in 1 .. Len(stream) : k = t.n  BY <1>2, <2>1
  <2>3. k \in 0 .. Len(stream) /\ k - 1 \in 0 .. Len(stream)  BY <1>2
  <2>4. /\ W(k)' = W(k) /\ W(k - 1)' = W(k - 1) /\ U(k)' = U(k) /\ U(k - 1)' = U(k - 1)
        /\ (StepAt(k)' <=> StepAt(k))
    BY <1>2, <1>3, <2>3
  <2> QED  BY <1>7, <2>2, <2>4 DEF Noted
<1>8. HmdAt(hmd, spc)'  BY <1>2, <1>4, <1>5, <1>6 DEF HmdAt, Gapped
<1>9. \A t \in Transitions : Noted(t, spc) => Noted(t, spc)'
  <2> SUFFICES ASSUME NEW t \in Transitions, Noted(t, spc) PROVE Noted(t, spc)'  OBVIOUS
  <2>1. Noted(t, p)'  BY <1>4, <1>7
  <2> QED  BY <1>2, <1>4, <2>1 DEF Noted
<1>10. \A t \in Transitions : (\E k \in 1 .. Len(trans') : trans'[k] = t) => Noted(t, spc)'
  BY <1>2, <1>9 DEF SpaceInv
<1>11. \A t \in Transitions : (\E k \in 1 .. Len(seen') : seen'[k] = t) => Noted(t, spc)'
  BY <1>2, <1>9 DEF SpaceInv
<1> QED  BY <1>8, <1>10, <1>11 DEF SpaceInv

\* An account goes on: nothing of the new sample is compensated.
LEMMA AccountGoesOn ==
  ASSUME StreamTypes, StreamInv, ~Returns, Still \/ Change, \A m \in comped : m \in 1 .. mon,
         NEW g \in [0 .. Len(stream) -> Int], NEW total \in Int, NEW refs,
         Account(g, total, refs), \A r \in refs : Visited(r)
  PROVE  \E h \in [0 .. Len(stream') -> Int] : Account(h, total, refs)'
<1>1. PICK n \in Nat : n = Len(stream) + 1  BY DEF StreamTypes
<1>2. /\ Len(stream') = n /\ Len(stream) \in Nat
      /\ \A i \in 0 .. Len(stream) : W(i)' = W(i) /\ U(i)' = U(i)
      /\ UNCHANGED <<cands, lastAccept, deltas, comped, mon>>
  BY <1>1, Published DEF jumpVars, verdictVars
<1>3. \A i \in 0 .. Len(stream) :
        /\ W(i)' <= W(n)'
        /\ W(i)' = W(n)' => /\ U(i)' = U(n)'
                            /\ W(i) = W(Len(stream)) /\ U(i) = U(Len(stream))
  BY <1>1, PublishStream
<1>4. PICK h : h = [i \in 0 .. n |-> IF i = n THEN total ELSE g[i]]  OBVIOUS
<1>5. h[n] = total /\ \A i \in 0 .. Len(stream) : h[i] = g[i]  BY <1>1, <1>2, <1>4
<1>6. h \in [0 .. Len(stream') -> Int]
  <2>1. \A i \in 0 .. n : h[i] \in Int  BY <1>1, <1>2, <1>4
  <2>2. h = [i \in 0 .. n |-> h[i]]  BY <1>4
  <2> QED  BY <1>2, <2>1, <2>2
<1>7. g[Len(stream)] = total  BY DEF Account
<1>8. \A k \in 1 .. n : Future(k)' => \A i \in k - 1 .. n : h[i] = total
  <2> SUFFICES ASSUME NEW k \in 1 .. n, Future(k)', NEW i \in k - 1 .. n PROVE h[i] = total
    OBVIOUS
  <2>1. CASE i = n  BY <1>5, <2>1
  <2>2. CASE i = Len(stream)
    <3>1. i \in 0 .. Len(stream)  BY <1>2, <2>2
    <3> QED  BY <1>5, <1>7, <2>2, <3>1
  <2>3. CASE i # n /\ i # Len(stream)
    <3>1. k \in 1 .. Len(stream) /\ i \in k - 1 .. Len(stream) /\ i \in 0 .. Len(stream)
      BY <1>1, <1>2, <2>3
    <3>2. Future(k)
      <4>1. k - 1 \in 0 .. Len(stream) /\ k \in 0 .. Len(stream)  BY <1>2, <3>1
      <4>2. U(k)' = U(k) /\ U(k - 1)' = U(k - 1)  BY <1>2, <4>1
      <4> QED  BY <1>2, <4>2 DEF Future
    <3>3. g[i] = total  BY <3>1, <3>2 DEF Account
    <3> QED  BY <1>5, <3>1, <3>3
  <2> QED  BY <2>1, <2>2, <2>3
<1>9. \A i, j \in 0 .. n : W(i)' = W(j)' => h[i] = h[j]
  <2>1. ASSUME NEW i \in 0 .. Len(stream), W(i)' = W(n)' PROVE h[i] = total
    <3>1. W(i) = W(Len(stream)) /\ Len(stream) \in 0 .. Len(stream)  BY <1>2, <1>3, <2>1
    <3>2. g[i] = g[Len(stream)]  BY <3>1 DEF Account
    <3> QED  BY <1>5, <1>7, <3>2
  <2>2. ASSUME NEW i \in 0 .. Len(stream), NEW j \in 0 .. Len(stream), W(i)' = W(j)'
        PROVE  h[i] = h[j]
    <3>1. g[i] = g[j]  BY <1>2, <2>2 DEF Account
    <3> QED  BY <1>5, <3>1
  <2> SUFFICES ASSUME NEW i \in 0 .. n, NEW j \in 0 .. n, W(i)' = W(j)' PROVE h[i] = h[j]
    OBVIOUS
  <2>3. CASE i = n /\ j = n  BY <2>3
  <2>4. CASE i = n /\ j # n
    <3>1. j \in 0 .. Len(stream)  BY <1>1, <1>2, <2>4
    <3>2. W(j)' = W(n)'  BY <2>4
    <3>3. h[j] = total  BY <2>1, <3>1, <3>2
    <3> QED  BY <1>5, <2>4, <3>3
  <2>5. CASE i # n /\ j = n
    <3>1. i \in 0 .. Len(stream)  BY <1>1, <1>2, <2>5
    <3>2. W(i)' = W(n)'  BY <2>5
    <3>3. h[i] = total  BY <2>1, <3>1, <3>2
    <3> QED  BY <1>5, <2>5, <3>3
  <2>6. CASE i # n /\ j # n
    <3>1. i \in 0 .. Len(stream) /\ j \in 0 .. Len(stream)  BY <1>1, <1>2, <2>6
    <3> QED  BY <2>2, <3>1
  <2> QED  BY <2>3, <2>4, <2>5, <2>6
<1>10. \A i \in 1 .. n : U(i)' = U(i - 1)' => h[i] = h[i - 1]
  <2> SUFFICES ASSUME NEW i \in 1 .. n, U(i)' = U(i - 1)' PROVE h[i] = h[i - 1]  OBVIOUS
  <2>1. CASE i = n
    <3>1. i - 1 = Len(stream) /\ i - 1 \in 0 .. Len(stream)  BY <1>1, <1>2, <2>1
    <3> QED  BY <1>5, <1>7, <2>1, <3>1
  <2>2. CASE i # n
    <3>1. i \in 1 .. Len(stream) /\ i \in 0 .. Len(stream) /\ i - 1 \in 0 .. Len(stream)
      BY <1>1, <1>2, <2>2
    <3>2. g[i] = g[i - 1]  BY <1>2, <3>1 DEF Account
    <3> QED  BY <1>5, <3>1, <3>2
  <2> QED  BY <2>1, <2>2
<1>11. \A m \in comped' : h[m] - h[m - 1] = U(m)' - U(m - 1)'
  <2> SUFFICES ASSUME NEW m \in comped PROVE h[m] - h[m - 1] = U(m)' - U(m - 1)'  BY <1>2
  <2>1. m \in 0 .. Len(stream) /\ m - 1 \in 0 .. Len(stream)  BY <1>2 DEF StreamTypes
  <2>2. g[m] - g[m - 1] = U(m) - U(m - 1)  BY DEF Account
  <2> QED  BY <1>2, <1>5, <2>1, <2>2
<1>12. \A i \in 0 .. n : W(i)' \in refs => h[i] = U(i)'
  <2> SUFFICES ASSUME NEW i \in 0 .. n, W(i)' \in refs PROVE h[i] = U(i)'  OBVIOUS
  <2>1. CASE i = n
    <3>1. PICK k \in 0 .. Len(stream) : W(k) = W(n)'  BY <2>1 DEF Visited
    <3>2. W(k)' = W(n)'  BY <1>2, <3>1
    <3>3. U(k)' = U(n)' /\ W(k) = W(Len(stream))  BY <1>3, <3>2
    <3>4. g[k] = U(k)  BY <2>1, <3>1 DEF Account
    <3>5. g[k] = g[Len(stream)]
      <4>1. Len(stream) \in 0 .. Len(stream)  BY <1>2
      <4> QED  BY <3>3, <4>1 DEF Account
    <3> QED  BY <1>2, <1>5, <1>7, <2>1, <3>3, <3>4, <3>5
  <2>2. CASE i # n
    <3>1. i \in 0 .. Len(stream)  BY <1>1, <1>2, <2>2
    <3>2. g[i] = U(i)  BY <1>2, <3>1 DEF Account
    <3> QED  BY <1>2, <1>5, <3>1, <3>2
  <2> QED  BY <2>1, <2>2
<1>13. Account(h, total, refs)'
  <2>1. h[Len(stream')] = total  BY <1>2, <1>5
  <2> QED  BY <1>2, <1>8, <1>9, <1>10, <1>11, <1>12, <2>1 DEF Account
<1> QED  BY <1>6, <1>13

LEMMA PublishBooks ==
  ASSUME TypeOK, StreamInv, StepsInv, SpaceInv, BooksInv, ~Returns, Still \/ Change
  PROVE  BooksInv'
<1>1. PICK n \in Nat : n = Len(stream) + 1  BY DEF TypeOK, StreamTypes
<1>2. /\ Len(stream') = n /\ Len(stream) \in Nat /\ pc \in {"idle", "drain"}
      /\ \A i \in 1 .. Len(stream) : stream'[i] = stream[i]
      /\ \A i \in 0 .. Len(stream) : W(i)' = W(i) /\ U(i)' = U(i)
      /\ UNCHANGED <<cands, lastAccept, deltas, comped, pc, mon, hmd, profile, room>>
  BY <1>1, Published DEF TypeOK, jumpVars, verdictVars
<1>3. /\ StreamTypes /\ FutureInv /\ BindInv /\ ClearInv /\ CalInv /\ RoomInv
      /\ mon \in 0 .. Len(stream) /\ profile \in Profiles /\ room \in Rooms /\ comped \subseteq Nat
  BY DEF TypeOK, StreamTypes, VerdictTypes, ProfileTypes, BooksInv
<1>4. /\ \A k \in 1 .. Len(stream) : StepAt(k)' <=> StepAt(k)
      /\ \A w : Visited(w) => Visited(w)'
  BY <1>3, PublishedKeeps
<1>5. \A i \in 0 .. Len(stream) :
        /\ W(i)' <= W(n)'
        /\ W(i)' = W(n)' => /\ U(i)' = U(n)'
                            /\ W(i) = W(Len(stream)) /\ U(i) = U(Len(stream))
  BY <1>1, <1>3, PublishStream
<1>6. \A m \in comped : m \in 1 .. mon
  <2> SUFFICES ASSUME NEW m \in comped PROVE m \in 1 .. mon  OBVIOUS
  <2>1. m \in 2 .. Len(stream) /\ m <= mon  BY <1>3 DEF FutureInv, StepAt
  <2> QED  BY <1>3, <2>1
<1>7. FutureInv'
  <2>1. ASSUME NEW m \in comped' PROVE StepAt(m)' /\ m <= mon'
    <3>1. m \in 1 .. Len(stream) /\ StepAt(m) /\ m <= mon  BY <1>2, <1>3, <1>6, <2>1 DEF FutureInv
    <3> QED  BY <1>2, <1>4, <3>1
  <2>2. PICK r \in Int : r = Ref /\ Ref' = r  BY <1>2, <1>3 DEF Ref, Profiles, Rooms
  <2>3. ASSUME profile'.has
        PROVE  /\ Visited(Ref)'
               /\ \A k \in 1 .. Len(stream') : Future(k)' =>
                    W(k - 1)' >= Ref' /\ \A m \in comped' : m < k
    <3>1. profile.has /\ Visited(r)  BY <1>2, <1>3, <2>2, <2>3 DEF FutureInv
    <3>2. Visited(r)'  BY <1>4, <3>1
    <3>3. Visited(Ref)'  BY <2>2, <3>2 DEF Visited
    <3>4. ASSUME NEW k \in 1 .. n, Future(k)' PROVE W(k - 1)' >= r /\ \A m \in comped : m < k
      <4>1. CASE k = n
        <5>1. PICK i \in 0 .. Len(stream) : W(i) = r  BY <3>1 DEF Visited
        <5>2. Len(stream) \in 0 .. Len(stream) /\ i <= Len(stream)  BY <1>2
        <5>3. W(i) <= W(Len(stream)) /\ W(Len(stream)) \in Int
          BY <1>3, <5>2, SampleFacts DEF StreamInv
        <5>4. k - 1 = Len(stream)  BY <1>1, <1>2, <4>1
        <5>5. W(k - 1)' >= r  BY <1>2, <5>1, <5>2, <5>3, <5>4
        <5>6. \A m \in comped : m < k  BY <1>1, <1>2, <1>3, <1>6, <4>1
        <5> QED  BY <5>5, <5>6
      <4>2. CASE k # n
        <5>1. k \in 1 .. Len(stream) /\ k - 1 \in 0 .. Len(stream) /\ k \in 0 .. Len(stream)
          BY <1>1, <1>2, <4>2
        <5>2. U(k)' = U(k) /\ U(k - 1)' = U(k - 1) /\ W(k - 1)' = W(k - 1)  BY <1>2, <5>1
        <5>3. Future(k)  BY <1>2, <3>4, <5>2 DEF Future
        <5>4. W(k - 1) >= r /\ \A m \in comped : m < k  BY <1>3, <2>2, <3>1, <5>1, <5>3 DEF
                                                           FutureInv
        <5> QED  BY <5>2, <5>4
      <4> QED  BY <4>1, <4>2
    <3> QED  BY <1>2, <2>2, <3>3, <3>4
  <2> QED  BY <2>1, <2>3 DEF FutureInv
<1>8. BindInv'  BY <1>2, <1>3 DEF BindInv
<1>9. ClearInv'
  <2>1. hmd.state = "usable" => Observed' = Observed
    <3>1. hmd.state = "usable" => hmd.n \in 1 .. Len(stream)
      BY <1>2 DEF SpaceInv, HmdAt, TypeOK, StreamTypes
    <3> QED  BY <1>2, <3>1 DEF Observed
  <2> QED  BY <1>2, <1>3, <2>1 DEF ClearInv, Enabled
<1>10. BooksInv'
  <2>1. CalInv'
    <3>1. CASE ~profile.has  BY <1>2, <3>1 DEF CalInv
    <3>2. CASE profile.has
      <4>a. PICK t \in Int : t = profile.cal  BY <1>3 DEF Profiles
      <4>b. PICK r : r = ProfileRefs  OBVIOUS
      <4>1. t = profile.cal /\ r = ProfileRefs  BY <4>a, <4>b
      <4>2. PICK g \in [0 .. Len(stream) -> Int] : Account(g, t, r)
        BY <1>3, <3>2, <4>1 DEF CalInv, Accounted
      <4>3. \A w \in r : Visited(w)
        <5>1. Visited(Ref)  BY <1>3, <3>2 DEF FutureInv
        <5>2. Visited(0)
          <6>1. 0 \in 0 .. Len(stream) /\ W(0) = 0  BY <1>2, <1>3, SampleFacts
          <6> QED  BY <6>1 DEF Visited
        <5>3. \A w \in r : w = Ref \/ w = 0  BY <4>1 DEF ProfileRefs
        <5> QED  BY <5>1, <5>2, <5>3
      <4>4. \E h \in [0 .. Len(stream') -> Int] : Account(h, t, r)'
        BY <1>3, <1>6, <4>2, <4>3, AccountGoesOn
      <4>5. t = profile'.cal /\ r = ProfileRefs'
        BY <1>2, <4>1 DEF ProfileRefs, Sound, Ref
      <4> QED  BY <4>4, <4>5, CalBalances
    <3> QED  BY <3>1, <3>2
  <2>2. RoomInv'
    <3>1. CASE ~(room.valid /\ ~room.leapt)  BY <1>2, <3>1 DEF RoomInv
    <3>2. CASE room.valid /\ ~room.leapt
      <4>1. PICK t \in Int, w \in Int : t = room.at /\ w = room.w  BY <1>3 DEF Rooms
      <4>2. Visited(w) /\ Accounted(t, {w})  BY <1>3, <3>2, <4>1 DEF RoomInv
      <4>3. PICK g \in [0 .. Len(stream) -> Int] : Account(g, t, {w})  BY <4>2 DEF Accounted
      <4>4. \A x \in {w} : Visited(x)  BY <4>2
      <4>5. \E h \in [0 .. Len(stream') -> Int] : Account(h, t, {w})'
        BY <1>3, <1>6, <4>3, <4>4, AccountGoesOn
      <4>6. Visited(w)'  BY <1>4, <4>2
      <4>7. ASSUME ~profile'.has, NEW i \in 0 .. Len(stream'), W(i)' = w PROVE U(i)' = t
        <5>1. \A j \in 0 .. Len(stream) : W(j) = w => U(j) = t
          BY <1>2, <1>3, <3>2, <4>1, <4>7 DEF RoomInv
        <5>2. CASE i \in 0 .. Len(stream)  BY <1>2, <4>7, <5>1, <5>2
        <5>3. CASE i = n
          <6>1. PICK k \in 0 .. Len(stream) : W(k) = w  BY <4>2 DEF Visited
          <6>2. W(k)' = W(n)'  BY <1>2, <4>7, <5>3, <6>1
          <6>3. U(k)' = U(n)'  BY <1>5, <6>2
          <6> QED  BY <1>2, <5>1, <5>3, <6>1, <6>3
        <5>4. i \in 0 .. Len(stream) \/ i = n  BY <1>1, <1>2
        <5> QED  BY <5>2, <5>3, <5>4
      <4>8. t = room'.at /\ w = room'.w  BY <1>2, <4>1
      <4> QED  BY <4>5, <4>6, <4>7, <4>8, RoomBalances
    <3> QED  BY <3>1, <3>2
  <2> QED  BY <1>7, <1>8, <1>9, <2>1, <2>2 DEF BooksInv
<1> QED  BY <1>10

-----------------------------------------------------------------------------
(* The invariant.                                                          *)

LEMMA InitBooks ==
  ASSUME Init, NEW refs
  PROVE  Accounted(0, refs)
<1>1. /\ Len(stream) = 0 /\ comped = {} /\ W(0) = 0 /\ U(0) = 0
  BY DEF Init, W, U, Pose, Start
<1>2. PICK g : g = [i \in 0 .. 0 |-> 0]  OBVIOUS
<1>3. g \in [0 .. Len(stream) -> Int] /\ g[0] = 0 /\ \A i \in 0 .. Len(stream) : i = 0
  BY <1>1, <1>2
<1>4. 1 .. Len(stream) = {}  BY <1>1
<1>5. Account(g, 0, refs)  BY <1>1, <1>3, <1>4 DEF Account
<1> QED  BY <1>3, <1>5 DEF Accounted

LEMMA InitInv ==
  ASSUME Init
  PROVE  UniverseInv
<1>1. /\ Len(stream) = 0 /\ stream \in Seq(Samples) /\ W(0) = 0 /\ U(0) = 0
      /\ 0 .. Len(stream) = {0} /\ 1 .. Len(stream) = {}
  BY DEF Init, W, U, Pose, Start
<1>2. /\ profile.has \in BOOLEAN /\ profile.bound \in BOOLEAN /\ profile.w = 0 /\ profile.cal = 0
      /\ ~profile.unsafe /\ profile \in Profiles
      /\ room \in Rooms /\ room.w = 0 /\ room.at = 0 /\ ~room.leapt
      /\ profile.has => room.valid
  <2>1. PICK has \in BOOLEAN, bound \in BOOLEAN, kept \in BOOLEAN :
          /\ has => kept
          /\ profile = [has |-> has, bound |-> bound, w |-> 0, cal |-> 0, unsafe |-> FALSE,
                        from |-> "own"]
          /\ room = [valid |-> kept, auto |-> kept, ver |-> FALSE, w |-> 0, at |-> 0,
                     leapt |-> FALSE]
    BY Zenon DEF Init
  <2> QED  BY <2>1 DEF Profiles, Rooms
<1>3. TypeOK
  <2>1. StreamTypes  BY <1>1 DEF Init, StreamTypes
  <2>2. JumpTypes  BY DEF Init, JumpTypes, Nowhere
  <2>3. VerdictTypes
    <3>1. /\ hmd = [state |-> "empty", n |-> 0] /\ trans = <<>> /\ seen = <<>> /\ comped = {}
          /\ grace = [at |-> "off", from |-> 0] /\ waiting = FALSE
      BY DEF Init
    <3>2. hmd \in Endpoints /\ Placed(hmd)  BY <3>1 DEF Endpoints, Placed
    <3>3. grace \in [at : {"off", "running", "over"}, from : Int]  BY <3>1
    <3>4. trans \in Seq(Transitions) /\ seen \in Seq(Transitions)  BY <3>1
    <3> QED  BY <3>1, <3>2, <3>3, <3>4 DEF VerdictTypes
  <2>4. ProfileTypes  BY <1>1, <1>2 DEF Init, ProfileTypes
  <2> QED  BY <2>1, <2>2, <2>3, <2>4 DEF TypeOK
<1>4. StreamInv  BY <1>1 DEF StreamInv
<1>5. JumpInv
  <2>1. WatchInv  BY DEF Init, WatchInv, Nowhere
  <2>2. StepsInv  BY DEF Init, StepsInv
  <2>3. RunInv  BY DEF Init, RunInv, Running
  <2> QED  BY <2>1, <2>2, <2>3 DEF JumpInv
<1>6. SpaceInv  BY DEF Init, SpaceInv, HmdAt
<1>7. BooksInv
  <2>1. comped = {} /\ pc = "idle"  BY DEF Init
  <2>2. Visited(0)  BY <1>1 DEF Visited
  <2>3. Ref = 0  BY <1>2 DEF Ref
  <2>4. FutureInv  BY <1>1, <2>1, <2>2, <2>3 DEF FutureInv
  <2>5. BindInv  BY <1>2, <2>1 DEF BindInv
  <2>6. ClearInv  BY <2>1 DEF ClearInv
  <2>7. CalInv  BY <1>2, InitBooks DEF CalInv
  <2>8. RoomInv
    <3>1. \A i \in 0 .. Len(stream) : U(i) = 0  BY <1>1
    <3>2. Accounted(0, {0})  BY InitBooks
    <3> QED  BY <1>2, <2>2, <3>1, <3>2 DEF RoomInv
  <2> QED  BY <2>4, <2>5, <2>6, <2>7, <2>8 DEF BooksInv
<1> QED  BY <1>3, <1>4, <1>5, <1>6, <1>7 DEF UniverseInv

LEMMA StutterInv ==
  ASSUME UniverseInv, UNCHANGED vars
  PROVE  UniverseInv'
<1>1. /\ UNCHANGED <<stream, crossing, incidents, pc, mon, upto, spc, hmd, seen, run, profile,
                     room, missed>>
      /\ UNCHANGED <<open, newSession, recovering, active>>
      /\ UNCHANGED <<watch, cands, lastAccept, deltas>>
      /\ UNCHANGED <<trans, comped, grace, waiting>>
  BY DEF vars, streamVars, linkVars, jumpVars, verdictVars
<1>2. /\ TypeOK /\ StreamInv /\ JumpInv /\ SpaceInv /\ BooksInv  BY DEF UniverseInv
<1>3. /\ Len(stream') = Len(stream) /\ \A i : W(i)' = W(i) /\ U(i)' = U(i)
      /\ \A n : StepAt(n)' <=> StepAt(n)
  BY <1>1, SamePoses
<1>4. TypeOK'
  <2>1. StreamTypes'  BY <1>1, <1>2 DEF TypeOK, StreamTypes
  <2>2. JumpTypes'  BY <1>1, <1>2 DEF TypeOK, JumpTypes
  <2>3. VerdictTypes'  BY <1>1, <1>2 DEF TypeOK, VerdictTypes, Placed
  <2>4. ProfileTypes'  BY <1>1, <1>2 DEF TypeOK, ProfileTypes
  <2> QED  BY <2>1, <2>2, <2>3, <2>4 DEF TypeOK
<1>5. StreamInv'  BY <1>1, <1>2, <1>3 DEF StreamInv
<1>6. JumpInv'
  <2>1. WatchInv'  BY <1>1, <1>2 DEF JumpInv, WatchInv, Nowhere, Running
  <2>2. StepsInv'  BY <1>1, <1>2, <1>3 DEF JumpInv, StepsInv, DeltaOK, CandOK
  <2>3. RunInv'  BY <1>1, <1>2 DEF JumpInv, RunInv, Nowhere, Running
  <2> QED  BY <2>1, <2>2, <2>3 DEF JumpInv
<1>7. SpaceInv'  BY <1>1, <1>2, <1>3 DEF SpaceInv, HmdAt, Gapped, Noted
<1>8. BooksInv'
  <2>1. \A n \in Nat : Future(n)' => Future(n)  BY <1>1, <1>3 DEF Future
  <2>2. mon \in Int /\ mon' \in Int /\ mon' >= mon  BY <1>1, <1>2 DEF TypeOK, StreamTypes
  <2>3. FutureInv' /\ BindInv' /\ CalInv' /\ RoomInv'
    BY <1>1, <1>2, <2>1, <2>2, BooksKept DEF BooksInv
  <2>4. ClearInv'  BY <1>1, <1>2 DEF BooksInv, ClearInv, Enabled, Observed
  <2> QED  BY <2>3, <2>4 DEF BooksInv
<1> QED  BY <1>4, <1>5, <1>6, <1>7, <1>8 DEF UniverseInv

LEMMA StepInv ==
  ASSUME ~Returns, ~Hasty, UniverseInv, [Next]_vars
  PROVE  UniverseInv'
<1>1. /\ TypeOK /\ StreamInv /\ JumpInv /\ StepsInv /\ SpaceInv /\ BooksInv /\ StreamTypes
      /\ WatchInv
  BY DEF UniverseInv, JumpInv, TypeOK
<1>2. CASE Still \/ Change
  <2>1. PICK n \in Nat : n = Len(stream) + 1  BY <1>1 DEF StreamTypes
  <2>2. StreamInv'  BY <1>1, <1>2, <2>1, PublishStream
  <2> QED  BY <1>1, <1>2, <2>2, PublishTypes, PublishJump, PublishSpace, PublishBooks DEF
              UniverseInv
<1>3. CASE Quiet
  <2>1. UNCHANGED stream  BY <1>3, QuietStream
  <2>2. TypeOK'
    BY <1>1, <1>3, QuietStreamTypes, QuietJumpTypes, QuietVerdictTypes, QuietProfileTypes
       DEF TypeOK
  <2>3. StreamInv'
    <3>1. Len(stream') = Len(stream) /\ \A i : W(i)' = W(i) /\ U(i)' = U(i)  BY <2>1, SamePoses
    <3> QED  BY <1>1, <3>1 DEF StreamInv
  <2>4. JumpInv'  BY <1>1, <1>3, QuietWatch, QuietSteps, QuietRun DEF JumpInv
  <2>5. SpaceInv'  BY <1>1, <1>3, QuietSpace
  <2>6. BooksInv'  BY <1>1, <1>3, QuietBalances, QuietClear DEF BooksInv
  <2> QED  BY <2>2, <2>3, <2>4, <2>5, <2>6 DEF UniverseInv
<1> QED  BY <1>2, <1>3, NextCases, StutterInv

\* Where the WFDs come in one order and the user waits for the headset to settle before
\* he captures a room or ends a run, the books balance after every step.
THEOREM UniverseBalances ==
  ASSUME ~Returns, ~Hasty
  PROVE  Spec => []UniverseInv
<1>1. Init => UniverseInv  BY InitInv
<1>2. UniverseInv /\ [Next]_vars => UniverseInv'  BY StepInv
<1> QED  BY <1>1, <1>2, PTL DEF Spec

\* The types of the state (the WFDs and the universe's positions are integers, and every
\* consumer stands somewhere in the stream).
THEOREM TypeCorrect ==
  ASSUME ~Returns, ~Hasty
  PROVE  Spec => []TypeOK
<1>1. UniverseInv => TypeOK  BY DEF UniverseInv
<1> QED  BY <1>1, UniverseBalances, PTL

\* ApplyUniverseDelta and the verdict between them move the calibration by what the raw
\* universe moved: a profile in force in the WFD the headset has is in place, whatever
\* the worlds, the number of samples and the order in which the two consumers meet them.
THEOREM ProfileInPlace ==
  ASSUME ~Returns, ~Hasty
  PROVE  Spec => []CalibrationFollows
<1>1. UniverseInv => CalibrationFollows
  <2> SUFFICES ASSUME UniverseInv, profile.has, profile.bound, profile.from # "leapt",
                      profile.w = Latest.w
               PROVE  profile.cal = Latest.u
    BY DEF CalibrationFollows, Enabled
  <2>1. CalInv /\ Len(stream) \in Nat  BY DEF UniverseInv, BooksInv, TypeOK, StreamTypes
  <2>2. profile.w \in ProfileRefs  BY DEF ProfileRefs, Sound, Ref
  <2>3. PICK g : Account(g, profile.cal, ProfileRefs)  BY <2>1 DEF CalInv, Accounted
  <2>4. W(Len(stream)) = Latest.w /\ U(Len(stream)) = Latest.u  BY DEF W, U, Latest
  <2>5. Len(stream) \in 0 .. Len(stream)  BY <2>1
  <2>6. g[Len(stream)] = profile.cal  BY <2>3 DEF Account
  <2>7. g[Len(stream)] = U(Len(stream))  BY <2>2, <2>3, <2>4, <2>5 DEF Account
  <2> QED  BY <2>4, <2>6, <2>7
<1> QED  BY <1>1, UniverseBalances, PTL

\* A restore the app may make puts the walls where they stand, unless the room leapt
\* (ChaperoneBaselineIsCurrent and what keeps its premise true).
THEOREM WallsInPlace ==
  ASSUME ~Returns, ~Hasty
  PROVE  Spec => []RoomFollows
<1>1. UniverseInv => RoomFollows
  <2> SUFFICES ASSUME UniverseInv, ~room.leapt, RestoreAllowed, hmd.n = Len(stream)
               PROVE  room.at = Latest.u
    BY DEF RoomFollows, RoomInPlace
  <2>1. RoomInv /\ Len(stream) \in Nat /\ room.valid /\ Fresh /\ room.w = Observed
    BY DEF UniverseInv, BooksInv, TypeOK, StreamTypes, RestoreAllowed, BaselineCurrent
  <2>2. PICK g : Account(g, room.at, {room.w})  BY <2>1 DEF RoomInv, Accounted
  <2>3. Observed = W(Len(stream))  BY <2>1, ObservedFacts DEF UniverseInv
  <2>4. Len(stream) \in 0 .. Len(stream)  BY <2>1
  <2>5. g[Len(stream)] = room.at  BY <2>2 DEF Account
  <2>6. g[Len(stream)] = U(Len(stream))  BY <2>1, <2>2, <2>3, <2>4 DEF Account
  <2>7. U(Len(stream)) = Latest.u  BY DEF U, Latest
  <2> QED  BY <2>5, <2>6, <2>7
<1> QED  BY <1>1, UniverseBalances, PTL


-----------------------------------------------------------------------------
(* A headset that could always be followed.                                *)

\* Every change could be followed, no consumer lost or skipped a sample, and the
\* profile is the launch's own.
Undisturbed ==
  /\ incidents = 0 /\ ~missed /\ profile.has /\ profile.bound /\ profile.from = "own"
  /\ \A i \in 1 .. Len(stream) : ~Unfollowable(i)

\* What only an incident brings.
CalmInv ==
  /\ recovering => ~active
  /\ incidents = 0 => ~Running /\ open /\ ~crossing /\ ~newSession

\* The detector has heard every sample it was handed.
Listens == (~active => mon = 0) /\ watch.last = mon /\ cands = {}

\* A step it has heard of is accepted, compensated, or behind the profile.
Tells ==
  \A n \in 2 .. mon : U(n) # U(n - 1) =>
    n \in comped \/ W(n) <= profile.w \/ \E k \in 1 .. Len(deltas) : deltas[k].n = n

\* The verdict has every change ahead of the profile that the space has seen, in
\* order, and knows which were re-expressed.
Sees ==
  /\ IF spc = 0 THEN hmd.state = "empty" ELSE hmd.state = "usable" /\ hmd.n = spc
  /\ \A k \in 1 .. Len(trans) : StepAt(trans[k].n)
  /\ \A k, l \in 1 .. Len(trans) : k < l => trans[k].n < trans[l].n
  /\ \A n \in 2 .. spc : W(n) # W(n - 1) /\ W(n) > profile.w =>
       \E k \in 1 .. Len(trans) : trans[k].n = n /\ (U(n) = U(n - 1) => trans[k].composed)

\* The grace period is of a change the monitors have heard of by the time of the
\* next judgement.
Times ==
  grace.at # "off" =>
    \E m \in 2 .. spc : /\ W(m - 1) = grace.from /\ W(m) # W(m - 1)
                        /\ pc \in {"drain", "judge"} => m <= mon

\* A tick's drains leave nothing behind.
Places == (pc = "judge" => spc = Len(stream)) /\ (pc = "push" => upto = Len(stream))

Prompt == Listens /\ Tells /\ Sees /\ Times /\ Places /\ profile.unsafe = FALSE

PromptInv == CalmInv /\ (Undisturbed => Prompt)

\* Every sample is good, and every change continues a pose.
LEMMA FollowableFacts ==
  ASSUME StreamTypes, Undisturbed
  PROVE  /\ \A i \in 1 .. Len(stream) : stream[i].kind = "good"
         /\ \A i \in 0 .. 1 : i <= Len(stream) => W(i) = 0
         /\ \A n \in 2 .. Len(stream) : W(n) # W(n - 1) =>
              StepAt(n) /\ (U(n) = U(n - 1) \/ U(n) - W(n) = U(n - 1) - W(n - 1))
<1>1. Len(stream) \in Nat  BY SampleFacts
<1>2. \A i \in 1 .. Len(stream) : stream[i].kind = "good"
  BY DEF Undisturbed, Unfollowable
<1>3. \A i \in 0 .. 1 : i <= Len(stream) => W(i) = 0
  <2>1. W(0) = 0  BY SampleFacts
  <2>2. ASSUME 1 <= Len(stream) PROVE W(1) = 0
    <3>1. 1 \in 1 .. Len(stream)  BY <1>1, <2>2
    <3>2. ~Unfollowable(1) /\ W(1) = stream[1].w  BY <3>1, SampleFacts DEF Undisturbed
    <3>3. Pose(1 - 1) = Start  BY DEF Pose
    <3> QED  BY <3>2, <3>3 DEF Unfollowable, Start
  <2> QED  BY <2>1, <2>2
<1>4. ASSUME NEW n \in 2 .. Len(stream), W(n) # W(n - 1)
      PROVE  StepAt(n) /\ (U(n) = U(n - 1) \/ U(n) - W(n) = U(n - 1) - W(n - 1))
  <2>1. n \in 1 .. Len(stream) /\ n - 1 \in 1 .. Len(stream) /\ n # 1  BY <1>1
  <2>2. W(n) = stream[n].w /\ U(n) = stream[n].u  BY <2>1, SampleFacts
  <2>3. W(n - 1) = Pose(n - 1).w /\ U(n - 1) = Pose(n - 1).u  BY DEF W, U
  <2>4. U(n) = U(n - 1) \/ U(n) - W(n) = U(n - 1) - W(n - 1)
    BY <1>4, <2>1, <2>2, <2>3 DEF Undisturbed, Unfollowable
  <2>5. StepAt(n)  BY <1>2, <1>4, <2>1 DEF StepAt
  <2> QED  BY <2>4, <2>5
<1> QED  BY <1>2, <1>3, <1>4

\* Without losses a batch is all there is.
LEMMA WholeBatch ==
  ASSUME StreamTypes, Undisturbed, NEW c \in 0 .. Len(stream)
  PROVE  BatchEnd(c) = Len(stream)
<1> DEFINE Ends(k) == k = Len(stream) \/ (k > c /\ stream[k + 1].kind \in Lossy)
           Clean(k) == \A i \in (c + 2) .. k : stream[i].kind \notin Lossy
<1>1. Len(stream) \in Nat /\ \A i \in 1 .. Len(stream) : stream[i].kind \notin Lossy
  BY FollowableFacts DEF Lossy, StreamTypes
<1>2. Len(stream) \in c .. Len(stream) /\ Clean(Len(stream)) /\ Ends(Len(stream))  BY <1>1
<1>3. BatchEnd(c) = CHOOSE k \in c .. Len(stream) : Clean(k) /\ Ends(k)  BY DEF BatchEnd
<1>4. BatchEnd(c) \in c .. Len(stream) /\ Ends(BatchEnd(c))
  <2> HIDE DEF Clean, Ends
  <2> QED  BY <1>2, <1>3
<1>5. BatchEnd(c) # Len(stream) => BatchEnd(c) + 1 \in 1 .. Len(stream)  BY <1>1, <1>4
<1> QED  BY <1>1, <1>4, <1>5

\* Where a world that is not the first was entered.
LEMMA EnteredAt ==
  ASSUME StreamTypes, StreamInv, Undisturbed, NEW i \in 0 .. Len(stream), W(i) # 0
  PROVE  \E n \in 2 .. i : W(n) = W(i) /\ W(n) # W(n - 1)
<1> DEFINE T == {n \in 0 .. i : W(n) = W(i)}
<1>1. Len(stream) \in Nat /\ i \in Nat /\ T \in SUBSET Nat /\ i \in T  BY SampleFacts
<1>2. PICK n \in T : \A y \in T : n <= y
  <2> HIDE DEF T
  <2> QED  BY <1>1, LeastOf
<1>3. n \in 0 .. i /\ W(n) = W(i) /\ n # 0 /\ n # 1
  <2>1. n \in 0 .. i /\ W(n) = W(i)  BY <1>2
  <2> QED  BY <1>1, <2>1, FollowableFacts
<1>4. n - 1 \notin T  BY <1>1, <1>2, <1>3
<1> QED  BY <1>1, <1>3, <1>4

-----------------------------------------------------------------------------
(* What a step that does not touch them leaves.                            *)

LEMMA SeesStill ==
  ASSUME TypeOK, Sees, UNCHANGED <<stream, spc, hmd, trans>>,
         profile'.w \in Int, profile'.w >= profile.w
  PROVE  Sees'
<1>1. \A i : W(i)' = W(i) /\ U(i)' = U(i)  BY SamePoses
<1>2. \A n : StepAt(n)' <=> StepAt(n)  BY SamePoses
<1>3. profile.w \in Int /\ Len(stream) \in Nat /\ spc \in 0 .. Len(stream)
  BY DEF TypeOK, ProfileTypes, Profiles, StreamTypes
<1>4. \A n \in 2 .. spc : W(n) \in Int /\ (W(n) > profile'.w => W(n) > profile.w)
  BY <1>3, SampleFacts DEF TypeOK
<1> QED  BY <1>1, <1>2, <1>4 DEF Sees

LEMMA TellsStill ==
  ASSUME TypeOK, Tells, UNCHANGED <<stream, mon, comped, deltas>>,
         profile'.w \in Int, profile'.w >= profile.w
  PROVE  Tells'
<1>1. \A i : W(i)' = W(i) /\ U(i)' = U(i)  BY SamePoses
<1>3. profile.w \in Int /\ Len(stream) \in Nat /\ mon \in 0 .. Len(stream)
  BY DEF TypeOK, ProfileTypes, Profiles, StreamTypes
<1>4. \A n \in 2 .. mon : W(n) \in Int /\ (W(n) <= profile.w => W(n) <= profile'.w)
  BY <1>3, SampleFacts DEF TypeOK
<1> QED  BY <1>1, <1>4 DEF Tells

LEMMA TimesStill ==
  ASSUME TypeOK, Times, UNCHANGED stream, spc' \in Nat, spc' >= spc, grace'.from = grace.from,
         grace'.at # "off" => grace.at # "off",
         pc' \in {"drain", "judge"} =>
           (pc \in {"drain", "judge"} /\ mon' = mon) \/ mon' = Len(stream)
  PROVE  Times'
<1>1. \A i : W(i)' = W(i)  BY SamePoses
<1>2. Len(stream) \in Nat /\ spc \in 0 .. Len(stream)  BY DEF TypeOK, StreamTypes
<1>3. SUFFICES ASSUME grace'.at # "off"
               PROVE  \E m \in 2 .. spc' : /\ W(m - 1)' = grace'.from /\ W(m)' # W(m - 1)'
                                           /\ pc' \in {"drain", "judge"} => m <= mon'
  BY DEF Times
<1>4. PICK m \in 2 .. spc : /\ W(m - 1) = grace.from /\ W(m) # W(m - 1)
                            /\ pc \in {"drain", "judge"} => m <= mon
  BY <1>3 DEF Times
<1>5. m \in 2 .. spc' /\ W(m - 1)' = grace'.from /\ W(m)' # W(m - 1)'  BY <1>1, <1>2, <1>4
<1>6. pc' \in {"drain", "judge"} => m <= mon'  BY <1>2, <1>4
<1> QED  BY <1>5, <1>6

-----------------------------------------------------------------------------
(* The space's drain, sample by sample.                                    *)

\* What the space has noted when it has read from c up to p.
NotedAll(acc, c, p) ==
  /\ IF p = 0 THEN acc.hmd.state = "empty" ELSE acc.hmd.state = "usable" /\ acc.hmd.n = p
  /\ \A k \in 1 .. Len(acc.seen) : StepAt(acc.seen[k].n) /\ acc.seen[k].n \in c + 1 .. p
  /\ \A k, l \in 1 .. Len(acc.seen) : k < l => acc.seen[k].n < acc.seen[l].n
  /\ \A n \in 2 .. p : n > c /\ W(n) # W(n - 1) =>
       \E k \in 1 .. Len(acc.seen) :
         acc.seen[k].n = n /\ (U(n) = U(n - 1) => acc.seen[k].composed)

LEMMA NotesNext ==
  ASSUME StreamTypes, Undisturbed, NEW c \in Nat, NEW n \in 1 .. Len(stream), c < n,
         NEW acc \in Caches, NotedAll(acc, c, n - 1)
  PROVE  NotedAll(CacheHmd(acc, n), c, n)
<1> DEFINE s == stream[n]
           p == stream[acc.hmd.n]
           near == acc.hmd.state = "usable" /\ s.kind = "good"
           t == [n |-> n, from |-> p.w, to |-> s.w,
                 local |-> near /\ s.u - s.w = p.u - p.w, composed |-> near /\ s.u = p.u]
           now == [acc EXCEPT !.hmd = [state |-> "usable", n |-> n]]
<1>1. /\ Len(stream) \in Nat /\ n \in Nat /\ s \in Samples /\ s.kind = "good"
      /\ acc.ver \in BOOLEAN /\ acc.seen \in Seq(Transitions)
      /\ W(n) = s.w /\ U(n) = s.u
  BY SampleFacts, FollowableFacts DEF Caches
<1>2. now.seen = acc.seen /\ now.hmd = [state |-> "usable", n |-> n] /\ now \in Caches
  <2>1. [state |-> "usable", n |-> n] \in Endpoints  BY <1>1 DEF Endpoints
  <2> QED  BY <1>1, <2>1 DEF Caches
<1>3. CacheHmd(acc, n) = IF acc.hmd.state = "empty" \/ s.w = p.w THEN now
                         ELSE [now EXCEPT !.seen = Append(@, t), !.ver = @ /\ t.local]
  BY <1>1 DEF CacheHmd
<1>4. n - 1 # 0 => /\ acc.hmd.state = "usable" /\ acc.hmd.n = n - 1 /\ near
                   /\ W(n - 1) = p.w /\ U(n - 1) = p.u /\ n \in 2 .. Len(stream)
  <2> SUFFICES ASSUME n - 1 # 0
               PROVE  /\ acc.hmd.state = "usable" /\ acc.hmd.n = n - 1 /\ near
                      /\ W(n - 1) = p.w /\ U(n - 1) = p.u /\ n \in 2 .. Len(stream)
    OBVIOUS
  <2>1. acc.hmd.state = "usable" /\ acc.hmd.n = n - 1  BY DEF NotedAll
  <2>2. n - 1 \in 1 .. Len(stream)  BY <1>1
  <2> QED  BY <1>1, <2>1, <2>2, SampleFacts
<1>5. n - 1 = 0 => acc.hmd.state = "empty"  BY DEF NotedAll
<1>6. CASE acc.hmd.state = "empty" \/ s.w = p.w
  <2>1. CacheHmd(acc, n) = now  BY <1>3, <1>6
  <2>2. n # 1 => W(n) = W(n - 1)  BY <1>1, <1>4, <1>6
  <2>3. PICK q : q = CacheHmd(acc, n)  OBVIOUS
  <2>4. q.hmd.state = "usable" /\ q.hmd.n = n /\ n # 0 /\ q.seen = acc.seen
    BY <1>1, <1>2, <2>1, <2>3
  <2> HIDE DEF now, t, near, s, p
  <2>5. \A k \in 1 .. Len(q.seen) : StepAt(q.seen[k].n) /\ q.seen[k].n \in c + 1 .. n
    <3> SUFFICES ASSUME NEW k \in 1 .. Len(acc.seen)
                 PROVE  StepAt(acc.seen[k].n) /\ acc.seen[k].n \in c + 1 .. n
      BY <2>4
    <3>1. StepAt(acc.seen[k].n) /\ acc.seen[k].n \in c + 1 .. n - 1  BY DEF NotedAll
    <3> QED  BY <1>1, <3>1
  <2>6. \A k, l \in 1 .. Len(q.seen) : k < l => q.seen[k].n < q.seen[l].n
    BY <2>4 DEF NotedAll
  <2>7. ASSUME NEW i \in 2 .. n, i > c, W(i) # W(i - 1)
        PROVE  \E k \in 1 .. Len(q.seen) :
                 q.seen[k].n = i /\ (U(i) = U(i - 1) => q.seen[k].composed)
    <3>1. i # n  BY <2>2, <2>7
    <3>2. i \in 2 .. n - 1  BY <1>1, <3>1
    <3> QED  BY <2>4, <2>7, <3>2 DEF NotedAll
  <2>8. NotedAll(q, c, n)  BY ONLY <2>4, <2>5, <2>6, <2>7 DEF NotedAll
  <2> QED  BY <2>3, <2>8
<1>7. CASE ~(acc.hmd.state = "empty" \/ s.w = p.w)
  <2>1. CacheHmd(acc, n) = [now EXCEPT !.seen = Append(@, t), !.ver = @ /\ t.local]
    BY <1>3, <1>7
  <2>2. n - 1 # 0 /\ near /\ W(n) # W(n - 1) /\ n \in 2 .. Len(stream)
    BY <1>1, <1>4, <1>5, <1>7
  <2>3. StepAt(n)  BY <2>2, FollowableFacts
  <2>4. t.n = n /\ (U(n) = U(n - 1) => t.composed)  BY <1>1, <1>4, <2>2
  <2>5. t \in Transitions
    <3>1. p \in Samples  BY <1>1, <1>4, <2>2, SampleFacts
    <3>2. s.w \in Int /\ p.w \in Int  BY <1>1, <3>1 DEF Samples
    <3>3. (near /\ s.u - s.w = p.u - p.w) \in BOOLEAN /\ (near /\ s.u = p.u) \in BOOLEAN
      OBVIOUS
    <3> QED  BY <1>1, <3>2, <3>3 DEF Transitions
  <2> HIDE DEF t, now
  <2>6. CacheHmd(acc, n).seen = Append(acc.seen, t) /\ CacheHmd(acc, n).hmd = now.hmd
    BY <1>2, <2>1 DEF Caches
  <2> DEFINE q == Append(acc.seen, t)
             m == Len(acc.seen)
  <2>7. /\ m \in Nat /\ Len(q) = m + 1 /\ q[m + 1] = t
        /\ \A k \in 1 .. m : q[k] = acc.seen[k]
    BY <1>1, <2>5
  <2> HIDE DEF q
  <2>8. \A k \in 1 .. Len(q) : StepAt(q[k].n) /\ q[k].n \in c + 1 .. n
    <3> SUFFICES ASSUME NEW k \in 1 .. Len(q)
                 PROVE  StepAt(q[k].n) /\ q[k].n \in c + 1 .. n
      OBVIOUS
    <3>1. CASE k = m + 1  BY <1>1, <2>3, <2>4, <2>7, <3>1
    <3>2. CASE k # m + 1
      <4>1. k \in 1 .. m  BY <2>7, <3>2
      <4>2. StepAt(acc.seen[k].n) /\ acc.seen[k].n \in c + 1 .. n - 1  BY <4>1 DEF NotedAll
      <4> QED  BY <1>1, <2>7, <4>1, <4>2
    <3> QED  BY <3>1, <3>2
  <2>9. \A k, l \in 1 .. Len(q) : k < l => q[k].n < q[l].n
    <3> SUFFICES ASSUME NEW k \in 1 .. Len(q), NEW l \in 1 .. Len(q), k < l
                 PROVE  q[k].n < q[l].n
      OBVIOUS
    <3>1. k \in 1 .. m /\ q[k] = acc.seen[k] /\ acc.seen[k].n \in c + 1 .. n - 1
      <4>1. k \in 1 .. m  BY <2>7
      <4> QED  BY <2>7, <4>1 DEF NotedAll
    <3>2. CASE l = m + 1  BY <1>1, <2>4, <2>7, <3>1, <3>2
    <3>3. CASE l # m + 1
      <4>1. l \in 1 .. m  BY <2>7, <3>3
      <4>2. acc.seen[k].n < acc.seen[l].n  BY <3>1, <4>1 DEF NotedAll
      <4> QED  BY <2>7, <3>1, <4>1, <4>2
    <3> QED  BY <3>2, <3>3
  <2>10. ASSUME NEW i \in 2 .. n, i > c, W(i) # W(i - 1)
         PROVE  \E k \in 1 .. Len(q) : q[k].n = i /\ (U(i) = U(i - 1) => q[k].composed)
    <3>1. CASE i = n
      <4>1. m + 1 \in 1 .. Len(q)  BY <2>7
      <4> QED  BY <2>4, <2>7, <3>1, <4>1
    <3>2. CASE i # n
      <4>1. i \in 2 .. n - 1  BY <1>1, <3>2
      <4>2. PICK k \in 1 .. m : acc.seen[k].n = i /\ (U(i) = U(i - 1) => acc.seen[k].composed)
        BY <2>10, <4>1 DEF NotedAll
      <4>3. k \in 1 .. Len(q) /\ q[k] = acc.seen[k]  BY <2>7
      <4> QED  BY <4>2, <4>3
    <3> QED  BY <3>1, <3>2
  <2>11. CacheHmd(acc, n).hmd.state = "usable" /\ CacheHmd(acc, n).hmd.n = n /\ n # 0
    BY <1>1, <1>2, <2>6
  <2>12. CacheHmd(acc, n).seen = q  BY <2>6 DEF q
  <2> HIDE DEF m
  <2> QED  BY <2>8, <2>9, <2>10, <2>11, <2>12 DEF NotedAll
<1> QED  BY <1>6, <1>7

LEMMA CachedNotes ==
  ASSUME StreamTypes, hmd \in Endpoints, Placed(hmd), room.ver \in BOOLEAN, HmdAt(hmd, spc),
         Undisturbed, Sees
  PROVE  Cached \in Caches /\ NotedAll(Cached, spc, Len(stream))
<1>1. Len(stream) \in Nat /\ spc \in 0 .. Len(stream) /\ spc \in Nat  BY DEF StreamTypes
<1>2. PICK m \in Nat : m = Len(stream) - spc
  <2>1. Len(stream) - spc \in Nat  BY <1>1
  <2> QED  BY <2>1
<1>3. BatchEnd(spc) = spc + m /\ spc + m = Len(stream) /\ spc + m <= Len(stream)
  BY <1>1, <1>2, WholeBatch
<1>4. CacheStart.hmd = hmd /\ CacheStart.seen = <<>> /\ CacheStart \in Caches
  <2>1. ~(spc < Len(stream) /\ stream[spc + 1].kind \in Lossy)
    <3>1. spc < Len(stream) => spc + 1 \in 1 .. Len(stream)  BY <1>1
    <3> QED  BY <3>1, FollowableFacts DEF Lossy
  <2> QED  BY <1>3, <2>1, CacheSteps DEF CacheStart
<1>5. PICK after : /\ after[0] = CacheStart
                   /\ \A k \in 1 .. m : after[k] = CacheHmd(after[k - 1], spc + k)
                   /\ Cached = after[m]
  BY <1>3, CacheSteps
<1> DEFINE Good == {k \in 0 .. m : /\ after[k] \in Caches /\ Placed(after[k].hmd)
                                   /\ NotedAll(after[k], spc, spc + k)}
<1>6. 0 \in Good
  <2>1. after[0] \in Caches /\ Placed(after[0].hmd)  BY <1>4, <1>5
  <2>2. after[0].hmd = hmd /\ Len(after[0].seen) = 0  BY <1>4, <1>5
  <2>3. NotedAll(after[0], spc, spc)  BY <1>1, <2>2 DEF NotedAll, Sees
  <2> QED  BY <1>1, <2>1, <2>3
<1>7. ASSUME NEW k \in 1 .. m, k - 1 \in Good PROVE k \in Good
  <2>1. /\ after[k - 1] \in Caches /\ Placed(after[k - 1].hmd)
        /\ NotedAll(after[k - 1], spc, spc + (k - 1))
    BY <1>7
  <2>2. PICK n \in 1 .. Len(stream) : n = spc + k /\ n - 1 = spc + (k - 1) /\ spc < n
    BY <1>1, <1>3
  <2>3. CacheHmd(after[k - 1], n) \in Caches /\ Placed(CacheHmd(after[k - 1], n).hmd)
    BY <2>1, CacheTypes
  <2>4. NotedAll(CacheHmd(after[k - 1], n), spc, n)  BY <1>1, <2>1, <2>2, NotesNext
  <2> QED  BY <1>5, <2>2, <2>3, <2>4
<1> HIDE DEF Good
<1>8. \A k \in 1 .. m : k - 1 \in Good => k \in Good  BY ONLY <1>7
<1>9. m \in Good  BY ONLY m \in Nat, <1>6, <1>8, AllAlong
<1> USE DEF Good
<1> QED  BY <1>3, <1>5, <1>9

-----------------------------------------------------------------------------
(* The verdict's walk.                                                     *)

\* Where the walk stands after k transitions: it has followed every one of them, or
\* stopped at a step that the monitors have not heard of.
WalkedTo(a, k) ==
  /\ a.ref >= profile.w /\ Visited(a.ref) /\ a.wait = FALSE
  /\ a.stopped = FALSE => \A l \in 1 .. k : trans[l].to <= a.ref
  /\ a.stopped = TRUE =>
       \E m \in 2 .. spc : a.ref = W(m - 1) /\ W(m) # W(m - 1) /\ m > mon
  /\ \A j \in 1 .. Len(a.kept) : \E l \in 1 .. k : a.kept[j] = trans[l]
  /\ \A i, j \in 1 .. Len(a.kept) : i < j => a.kept[i].n < a.kept[j].n
  /\ \A l \in 1 .. k : trans[l].to > a.ref => \E j \in 1 .. Len(a.kept) : a.kept[j] = trans[l]

\* What the verdict relies on.
Walkable ==
  /\ StreamTypes /\ StreamInv /\ VerdictTypes /\ Undisturbed /\ Listens /\ Tells /\ Sees
  /\ deltas = <<>> /\ profile.w \in Int

\* What is known of a transition.
LEMMA TransFacts ==
  ASSUME Walkable, SpaceInv, NEW k \in 1 .. Len(trans)
  PROVE  /\ trans[k] \in Transitions /\ trans[k].n \in 2 .. spc /\ spc \in 0 .. Len(stream)
         /\ trans[k].from = W(trans[k].n - 1) /\ trans[k].to = W(trans[k].n)
         /\ trans[k].from < trans[k].to
         /\ trans[k].from \in Int /\ trans[k].to \in Int
<1>1. trans \in Seq(Transitions) /\ trans[k] \in Transitions /\ Len(stream) \in Nat
      /\ spc \in 0 .. Len(stream)
  BY DEF Walkable, VerdictTypes, StreamTypes
<1>2. PICK t \in Transitions : t = trans[k]  BY <1>1
<1>3. Noted(t, spc) /\ StepAt(t.n)  BY <1>2 DEF Walkable, Sees, SpaceInv
<1>4. t.n \in 2 .. spc /\ t.from = W(t.n - 1) /\ t.to = W(t.n) /\ W(t.n) # W(t.n - 1)
  BY <1>1, <1>3 DEF Noted, StepAt
<1>5. PICK n \in 2 .. spc : n = t.n  BY <1>4
<1>6. n - 1 \in 0 .. Len(stream) /\ n \in 0 .. Len(stream) /\ n - 1 <= n  BY <1>1, <1>5
<1>7. W(n - 1) <= W(n) /\ W(n) \in Int /\ W(n - 1) \in Int
  BY <1>6, SampleFacts DEF Walkable, StreamInv
<1>8. t.from < t.to  BY <1>4, <1>5, <1>7
<1> QED  BY <1>1, <1>2, <1>4, <1>5, <1>7, <1>8

\* Every world ahead of the profile that was entered by sample i is the end of a
\* transition.
LEMMA EnteredByTransition ==
  ASSUME Walkable, SpaceInv, Visited(profile.w), NEW i \in 0 .. spc, W(i) > profile.w
  PROVE  \E l \in 1 .. Len(trans) : trans[l].n <= i /\ trans[l].to = W(i)
<1>1. Len(stream) \in Nat /\ spc \in 0 .. Len(stream) /\ i \in 0 .. Len(stream)
  BY DEF Walkable, StreamTypes
<1>2. W(i) # 0
  <2>1. PICK j \in 0 .. Len(stream) : W(j) = profile.w  BY DEF Visited
  <2>2. W(0) <= W(j) /\ W(0) = 0 /\ W(i) \in Int
    <3>1. 0 \in 0 .. Len(stream) /\ 0 <= j  BY <1>1
    <3> QED  BY <1>1, <3>1, SampleFacts DEF Walkable, StreamInv
  <2> QED  BY <2>1, <2>2 DEF Walkable
<1>3. PICK n \in 2 .. i : W(n) = W(i) /\ W(n) # W(n - 1)
  BY <1>1, <1>2, EnteredAt DEF Walkable
<1>4. n \in 2 .. spc  BY <1>1
<1>5. PICK l \in 1 .. Len(trans) : trans[l].n = n  BY <1>3, <1>4 DEF Walkable, Sees
<1> QED  BY <1>3, <1>5, TransFacts

LEMMA WalkStep ==
  ASSUME Walkable, SpaceInv, NEW k \in 1 .. Len(trans), NEW a \in Walks, WalkedTo(a, k - 1),
         Visited(profile.w)
  PROVE  WalkedTo(Follow(a, trans[k]), k)
<1>1. PICK t \in Transitions : t = trans[k]  BY TransFacts
<1>2. PICK n \in 2 .. spc : n = t.n  BY <1>1, TransFacts
<1>3. /\ t.from = W(n - 1) /\ t.to = W(n) /\ t.from < t.to /\ t.from \in Int /\ t.to \in Int
      /\ spc \in 0 .. Len(stream) /\ Len(stream) \in Nat
  BY <1>1, <1>2, TransFacts DEF Walkable, StreamTypes
<1>4. k \in Nat /\ Len(trans) \in Nat /\ \A l \in 1 .. k : l \in 1 .. Len(trans)
  BY DEF Walkable, VerdictTypes
<1>5. /\ a.ref \in Int /\ a.stopped \in BOOLEAN /\ a.kept \in Seq(Transitions)
      /\ profile.w \in Int /\ a.ref >= profile.w /\ Visited(a.ref) /\ a.wait = FALSE
  BY DEF Walks, Walkable, WalkedTo
<1>6. \A l \in 1 .. k - 1 : trans[l].n < n /\ trans[l].to <= t.to /\ trans[l].to \in Int
  <2> SUFFICES ASSUME NEW l \in 1 .. k - 1
               PROVE  trans[l].n < n /\ trans[l].to <= t.to /\ trans[l].to \in Int
    OBVIOUS
  <2>1. l \in 1 .. Len(trans) /\ l < k  BY <1>4
  <2>2. trans[l].n < n  BY <1>1, <1>2, <2>1 DEF Walkable, Sees
  <2>3. PICK i \in 2 .. spc : i = trans[l].n /\ trans[l].to = W(i)  BY <2>1, TransFacts
  <2>4. i \in 0 .. Len(stream) /\ n \in 0 .. Len(stream) /\ i <= n
    <3>1. i < n  BY <2>2, <2>3
    <3>2. spc \in 0 .. Len(stream) /\ Len(stream) \in Nat  BY <1>3
    <3> QED  BY ONLY <3>1, <3>2, i \in 2 .. spc, n \in 2 .. spc
  <2>5. W(i) <= W(n)  BY <2>4 DEF Walkable, StreamInv
  <2> QED  BY <1>3, <2>1, <2>2, <2>3, <2>5, TransFacts
\* A transition left aside starts in a world the reference has passed.
<1>7. ASSUME a.stopped = FALSE, t.from # a.ref PROVE t.to <= a.ref
  <2> SUFFICES ASSUME t.to > a.ref PROVE FALSE  BY <1>3, <1>5
  <2>1. PICK i \in 0 .. Len(stream) : W(i) = a.ref  BY <1>5 DEF Visited
  <2>2. CASE W(n - 1) > a.ref
    <3>1. n - 1 \in 0 .. spc /\ W(n - 1) > profile.w  BY <1>3, <1>5, <2>2
    <3>2. PICK l \in 1 .. Len(trans) : trans[l].n <= n - 1 /\ trans[l].to = W(n - 1)
      BY <3>1, EnteredByTransition
    <3>3. trans[l].n \in Nat /\ trans[l].n < n
      <4>1. trans[l].n \in 2 .. spc  BY TransFacts
      <4> QED  BY <3>2, <4>1
    <3>4. l \in 1 .. k - 1
      <4>1. CASE l < k  BY <1>4, <4>1
      <4>2. CASE l = k  BY <1>1, <1>2, <3>3, <4>2
      <4>3. CASE k < l
        <5>1. trans[k].n < trans[l].n  BY <4>3 DEF Walkable, Sees
        <5> QED  BY <1>1, <1>2, <3>3, <5>1
      <4> QED  BY <1>4, <4>1, <4>2, <4>3
    <3>5. trans[l].to <= a.ref  BY <1>7, <3>4 DEF WalkedTo
    <3> QED  BY <1>3, <1>5, <2>2, <3>2, <3>5
  <2>3. CASE W(n - 1) < a.ref
    <3>1. n - 1 \in 0 .. Len(stream) /\ n \in 0 .. Len(stream)  BY <1>3
    <3>2. i <= n - 1 \/ n <= i  OBVIOUS
    <3>3. W(i) <= W(n - 1) \/ W(n) <= W(i)  BY <3>1, <3>2 DEF Walkable, StreamInv
    <3> QED  BY <1>3, <1>5, <2>1, <2>3, <3>3
  <2> QED  BY <1>3, <1>5, <1>7, <2>2, <2>3
\* What is kept.
<1> DEFINE m == Len(a.kept)
           q == Append(a.kept, t)
<1>8. m \in Nat /\ Len(q) = m + 1 /\ q[m + 1] = t /\ \A j \in 1 .. m : q[j] = a.kept[j]
  BY <1>5
<1> HIDE DEF q
<1>9. /\ \A j \in 1 .. m : \E l \in 1 .. k - 1 : a.kept[j] = trans[l]
      /\ \A i, j \in 1 .. m : i < j => a.kept[i].n < a.kept[j].n
      /\ \A l \in 1 .. k - 1 : trans[l].to > a.ref => \E j \in 1 .. m : a.kept[j] = trans[l]
  BY DEF WalkedTo
<1>10. /\ \A j \in 1 .. Len(q) : \E l \in 1 .. k : q[j] = trans[l]
       /\ \A i, j \in 1 .. Len(q) : i < j => q[i].n < q[j].n
       /\ \A l \in 1 .. k : trans[l].to > a.ref => \E j \in 1 .. Len(q) : q[j] = trans[l]
  <2>1. ASSUME NEW j \in 1 .. Len(q) PROVE \E l \in 1 .. k : q[j] = trans[l]
    <3>1. CASE j = m + 1  BY <1>1, <1>4, <1>8, <3>1
    <3>2. CASE j # m + 1
      <4>1. j \in 1 .. m  BY <1>8, <3>2
      <4>2. PICK l \in 1 .. k - 1 : a.kept[j] = trans[l]  BY <1>9, <4>1
      <4> QED  BY <1>4, <1>8, <4>1, <4>2
    <3> QED  BY <3>1, <3>2
  <2>2. ASSUME NEW i \in 1 .. Len(q), NEW j \in 1 .. Len(q), i < j PROVE q[i].n < q[j].n
    <3>1. i \in 1 .. m /\ q[i] = a.kept[i]  BY <1>8, <2>2
    <3>2. CASE j = m + 1
      <4>1. PICK l \in 1 .. k - 1 : a.kept[i] = trans[l]  BY <1>9, <3>1
      <4> QED  BY <1>2, <1>6, <1>8, <3>1, <3>2, <4>1
    <3>3. CASE j # m + 1
      <4>1. j \in 1 .. m /\ q[j] = a.kept[j]  BY <1>8, <3>3
      <4> QED  BY <1>9, <2>2, <3>1, <4>1
    <3> QED  BY <3>2, <3>3
  <2>3. ASSUME NEW l \in 1 .. k, trans[l].to > a.ref PROVE \E j \in 1 .. Len(q) : q[j] = trans[l]
    <3>1. CASE l = k
      <4>1. m + 1 \in 1 .. Len(q)  BY <1>8
      <4> QED  BY <1>1, <1>8, <3>1, <4>1
    <3>2. CASE l # k
      <4>1. l \in 1 .. k - 1  BY <1>4, <3>2
      <4>2. PICK j \in 1 .. m : a.kept[j] = trans[l]  BY <1>9, <2>3, <4>1
      <4>3. j \in 1 .. Len(q) /\ q[j] = a.kept[j]  BY <1>8
      <4> QED  BY <4>2, <4>3
    <3> QED  BY <3>1, <3>2
  <2> QED  BY <2>1, <2>2, <2>3
<1>11. CASE a.stopped \/ t.from # a.ref
  <2>1. Follow(a, t) = [a EXCEPT !.kept = Append(@, t)]  BY <1>11 DEF Follow
  <2>2. /\ Follow(a, t).ref = a.ref /\ Follow(a, t).stopped = a.stopped
        /\ Follow(a, t).wait = FALSE /\ Follow(a, t).kept = q
    BY <1>5, <2>1 DEF Walks, q
  <2>3. a.stopped = FALSE => \A l \in 1 .. k : trans[l].to <= a.ref
    <3> SUFFICES ASSUME a.stopped = FALSE, NEW l \in 1 .. k PROVE trans[l].to <= a.ref
      OBVIOUS
    <3>1. CASE l = k  BY <1>1, <1>7, <1>11, <3>1
    <3>2. CASE l # k
      <4>1. l \in 1 .. k - 1  BY <1>4, <3>2
      <4> QED  BY <4>1 DEF WalkedTo
    <3> QED  BY <3>1, <3>2
  <2>4. a.stopped = TRUE =>
          \E i \in 2 .. spc : a.ref = W(i - 1) /\ W(i) # W(i - 1) /\ i > mon
    BY DEF WalkedTo
  <2>5. WalkedTo(Follow(a, t), k)  BY ONLY <1>5, <1>10, <2>2, <2>3, <2>4 DEF WalkedTo
  <2> QED  BY <1>1, <2>5
<1>12. CASE ~(a.stopped \/ t.from # a.ref) /\ (t.composed \/ t.n \in comped)
  <2>1. Follow(a, t) = [a EXCEPT !.ref = t.to]  BY <1>12 DEF Follow
  <2>2. /\ Follow(a, t).ref = t.to /\ Follow(a, t).stopped = FALSE
        /\ Follow(a, t).wait = FALSE /\ Follow(a, t).kept = a.kept
    BY <1>5, <1>12, <2>1 DEF Walks
  <2>3. t.to >= profile.w /\ Visited(t.to)
    <3>1. n \in 0 .. Len(stream)  BY <1>3
    <3>2. Visited(t.to)  BY <1>3, <3>1 DEF Visited
    <3> QED  BY <1>3, <1>5, <1>12, <3>2
  <2>4. \A l \in 1 .. k : trans[l].to <= t.to
    <3> SUFFICES ASSUME NEW l \in 1 .. k PROVE trans[l].to <= t.to  OBVIOUS
    <3>1. CASE l = k  BY <1>1, <1>3, <3>1
    <3>2. CASE l # k
      <4>1. l \in 1 .. k - 1  BY <1>4, <3>2
      <4> QED  BY <1>6, <4>1
    <3> QED  BY <3>1, <3>2
  <2>5. \A l \in 1 .. k : ~(trans[l].to > t.to)
    <3> SUFFICES ASSUME NEW l \in 1 .. k PROVE ~(trans[l].to > t.to)  OBVIOUS
    <3>1. trans[l].to <= t.to /\ trans[l].to \in Int  BY <1>4, <2>4, TransFacts
    <3> QED  BY <1>3, <3>1
  <2>6. \A j \in 1 .. m : \E l \in 1 .. k : a.kept[j] = trans[l]
    <3> SUFFICES ASSUME NEW j \in 1 .. m PROVE \E l \in 1 .. k : a.kept[j] = trans[l]  OBVIOUS
    <3>1. PICK l \in 1 .. k - 1 : a.kept[j] = trans[l]  BY <1>9
    <3> QED  BY <1>4, <3>1
  <2>7. WalkedTo(Follow(a, t), k)
    BY ONLY <1>9, <2>2, <2>3, <2>4, <2>5, <2>6 DEF WalkedTo
  <2> QED  BY <1>1, <2>7
<1>13. CASE ~(a.stopped \/ t.from # a.ref) /\ ~(t.composed \/ t.n \in comped)
  <2>1. Follow(a, t) = [a EXCEPT !.stopped = TRUE, !.wait = LiveAt(t.n), !.kept = Append(@, t)]
    BY <1>13 DEF Follow
  <2>2. LiveAt(t.n) = FALSE  BY DEF LiveAt, Walkable, Listens
  <2>3. /\ Follow(a, t).ref = a.ref /\ Follow(a, t).stopped = TRUE
        /\ Follow(a, t).wait = FALSE /\ Follow(a, t).kept = q
    BY <1>5, <2>1, <2>2 DEF Walks, q
  <2>4. U(n) # U(n - 1)
    <3>1. W(n) > profile.w /\ W(n) # W(n - 1)  BY <1>3, <1>5, <1>13
    <3>2. PICK l \in 1 .. Len(trans) :
            trans[l].n = n /\ (U(n) = U(n - 1) => trans[l].composed)
      BY <3>1 DEF Walkable, Sees
    <3>3. ~(l < k) /\ ~(k < l)
      <4>1. l < k => trans[l].n < trans[k].n  BY DEF Walkable, Sees
      <4>2. k < l => trans[k].n < trans[l].n  BY DEF Walkable, Sees
      <4> QED  BY <1>1, <1>2, <3>2, <4>1, <4>2
    <3>4. l = k  BY <1>4, <3>3
    <3> QED  BY <1>1, <1>13, <3>2, <3>4
  <2>5. n > mon
    <3> SUFFICES ASSUME n <= mon PROVE FALSE  BY <1>3 DEF Walkable, StreamTypes
    <3>1. n \in 2 .. mon  BY <1>3 DEF Walkable, StreamTypes
    <3>2. n \in comped \/ W(n) <= profile.w \/ \E l \in 1 .. Len(deltas) : deltas[l].n = n
      BY <2>4, <3>1 DEF Walkable, Tells
    <3>3. Len(deltas) = 0  BY DEF Walkable
    <3> QED  BY <1>2, <1>3, <1>5, <1>13, <3>2, <3>3
  <2>6. \E i \in 2 .. spc : a.ref = W(i - 1) /\ W(i) # W(i - 1) /\ i > mon
    BY <1>3, <1>13, <2>5
  <2>7. WalkedTo(Follow(a, t), k)  BY ONLY <1>5, <1>10, <2>3, <2>6 DEF WalkedTo
  <2> QED  BY <1>1, <2>7
<1> QED  BY <1>11, <1>12, <1>13

\* The walk ends where the space ends, or at a step the monitors have yet to hear of.
LEMMA WalkEnds ==
  ASSUME Walkable, SpaceInv, Visited(profile.w), spc = Len(stream)
  PROVE  /\ Walk(profile.w, trans) \in Walks
         /\ WalkedTo(Walk(profile.w, trans), Len(trans))
         /\ Walk(profile.w, trans).stopped = FALSE => Walk(profile.w, trans).ref = W(spc)
<1>1. trans \in Seq(Transitions) /\ profile.w \in Int /\ Len(stream) \in Nat
  BY DEF Walkable, VerdictTypes, StreamTypes
<1>2. PICK after \in [0 .. Len(trans) -> Walks] :
              /\ after[0] = WalkStart(profile.w)
              /\ \A k \in 1 .. Len(trans) : after[k] = Follow(after[k - 1], trans[k])
              /\ Walk(profile.w, trans) = after[Len(trans)]
  BY <1>1, WalkSteps
<1> DEFINE Good == {k \in 0 .. Len(trans) : WalkedTo(after[k], k)}
<1>3. 0 \in Good
  <2>1. WalkedTo(after[0], 0)  BY <1>1, <1>2 DEF WalkStart, WalkedTo
  <2> QED  BY <1>1, <2>1
<1>4. ASSUME NEW k \in 1 .. Len(trans), k - 1 \in Good PROVE k \in Good
  <2>1. after[k - 1] \in Walks /\ WalkedTo(after[k - 1], k - 1)  BY <1>2, <1>4
  <2>2. WalkedTo(Follow(after[k - 1], trans[k]), k)  BY <2>1, WalkStep
  <2> QED  BY <1>2, <2>2
<1> HIDE DEF Good
<1>5. \A k \in 1 .. Len(trans) : k - 1 \in Good => k \in Good  BY ONLY <1>4
<1>6. Len(trans) \in Nat  BY <1>1
<1>7. Len(trans) \in Good
  <2>1. PICK m \in Nat : m = Len(trans)  BY <1>6
  <2>2. \A k \in 1 .. m : k - 1 \in Good => k \in Good  BY ONLY <1>5, <2>1
  <2>3. \A k \in 0 .. m : k \in Good  BY ONLY m \in Nat, <1>3, <2>2, AllAlong
  <2> QED  BY ONLY m \in Nat, <2>1, <2>3
<1> USE DEF Good
<1>8. Walk(profile.w, trans) \in Walks /\ WalkedTo(Walk(profile.w, trans), Len(trans))
  <2>1. Len(trans) \in 0 .. Len(trans)  BY <1>6
  <2> QED  BY <1>2, <1>7, <2>1
<1>9. ASSUME Walk(profile.w, trans).stopped = FALSE
      PROVE  Walk(profile.w, trans).ref = W(spc)
  <2>1. PICK r \in Int : r = Walk(profile.w, trans).ref  BY <1>8 DEF Walks
  <2>2. /\ \A l \in 1 .. Len(trans) : trans[l].to <= r
        /\ r >= profile.w /\ Visited(r)
    BY <1>8, <1>9, <2>1 DEF WalkedTo
  <2>3. spc \in 0 .. Len(stream) /\ W(spc) \in Int  BY <1>1, SampleFacts DEF Walkable
  <2>4. W(spc) <= r
    <3> SUFFICES ASSUME W(spc) > r PROVE FALSE  BY <2>3
    <3>1. W(spc) > profile.w /\ spc \in 0 .. spc  BY <1>1, <2>2, <2>3
    <3>2. PICK l \in 1 .. Len(trans) : trans[l].to = W(spc)  BY <3>1, EnteredByTransition
    <3> QED  BY <2>2, <2>3, <3>2
  <2>5. r <= W(spc)
    <3>1. PICK i \in 0 .. Len(stream) : W(i) = r  BY <2>2 DEF Visited
    <3>2. i <= spc  BY <1>1
    <3> QED  BY <2>3, <3>1, <3>2 DEF Walkable, StreamInv
  <2> QED  BY <2>1, <2>3, <2>4, <2>5
<1> QED  BY <1>8, <1>9

-----------------------------------------------------------------------------
(* The steps of an undisturbed headset.                                    *)

\* Without incidents there are no others.
Followed ==
  \/ Recovered \/ GraceOver \/ Park \/ MonitorDrain \/ PushSample \/ ApplyDelta \/ MonitorDone
  \/ SpaceDrain \/ JudgeClear \/ JudgeStale \/ Judge

LEMMA Excluded ==
  ASSUME UniverseInv, PromptInv, Quiet, Undisturbed'
  PROVE  Undisturbed /\ Prompt /\ incidents = 0 /\ Followed
<1>1. /\ incidents \in Nat /\ UNCHANGED stream /\ missed \in BOOLEAN /\ incidents' = 0
      /\ profile'.has /\ profile'.bound /\ profile'.from = "own" /\ missed' = FALSE
      /\ profile \in Profiles /\ deltas \in Seq(Deltas)
  BY QuietStream DEF UniverseInv, TypeOK, StreamTypes, JumpTypes, ProfileTypes, Undisturbed
<1>2. ~Incident  BY <1>1 DEF Incident
<1>3. ~(SessionBoundary \/ RefuseDelta \/ Capture \/ CaptureFails \/ StartRun)
  BY <1>2 DEF SessionBoundary, RefuseDelta, Capture, CaptureFails, StartRun
<1>4. incidents = 0
  <2>1. CASE Reopen  BY <1>1, <2>1 DEF Reopen
  <2>2. CASE Recovered  BY <1>1, <2>2 DEF Recovered
  <2>3. CASE GraceOver  BY <1>1, <2>3 DEF GraceOver
  <2>4. CASE Park  BY <1>1, <2>4 DEF Park
  <2>5. CASE MonitorDrain  BY <1>1, <2>5 DEF MonitorDrain
  <2>6. CASE PushSample  BY <1>1, <2>6 DEF PushSample
  <2>7. CASE ApplyDelta  BY <1>1, <2>7 DEF ApplyDelta
  <2>8. CASE MonitorDone  BY <1>1, <2>8 DEF MonitorDone
  <2>9. CASE Ripen \/ DropCandidate \/ Confirm
    BY <1>1, <2>9 DEF Ripen, DropCandidate, Confirm
  <2>10. CASE SpaceClosed \/ SpaceDrain  BY <1>1, <2>10 DEF SpaceClosed, SpaceDrain
  <2>11. CASE JudgeClear \/ JudgeStale \/ Judge
    BY <1>1, <2>11 DEF JudgeClear, JudgeStale, Judge, RoomTick
  <2>12. CASE JudgeBind  BY <1>1, <2>12 DEF JudgeBind, RoomTick
  <2>13. CASE FinishRun \/ EndRun  BY <1>1, <2>13 DEF FinishRun, EndRun
  <2> QED
    BY <1>3, <2>1, <2>2, <2>3, <2>4, <2>5, <2>6, <2>7, <2>8, <2>9, <2>10, <2>11, <2>12, <2>13
       DEF Quiet
<1>5. ~Running /\ open  BY <1>4 DEF PromptInv, CalmInv
<1>6. ~(Reopen \/ SpaceClosed \/ FinishRun \/ EndRun)
  BY <1>5 DEF Reopen, SpaceClosed, FinishRun, EndRun
<1>7. ~JudgeBind
  <2> SUFFICES ASSUME JudgeBind PROVE FALSE  OBVIOUS
  <2>1. profile.has /\ ~profile.bound  BY DEF JudgeBind, Enabled
  <2>2. room.valid  BY <2>1 DEF UniverseInv, BooksInv, BindInv
  <2>3. profile'.from = IF ~room.valid THEN "own" ELSE IF room.leapt THEN "leapt" ELSE "room"
    BY <1>1 DEF JudgeBind, Profiles
  <2> QED  BY <1>1, <2>2, <2>3
<1>8. missed = FALSE /\ profile.has /\ profile.bound /\ profile.from = "own"
  <2>1. CASE Recovered  BY <1>1, <2>1 DEF Recovered
  <2>2. CASE GraceOver  BY <1>1, <2>2 DEF GraceOver
  <2>3. CASE Park  BY <1>1, <2>3 DEF Park, Discard
  <2>4. CASE MonitorDrain  BY <1>1, <2>4 DEF MonitorDrain, Discard
  <2>5. CASE PushSample  BY <1>1, <2>5 DEF PushSample
  <2>6. CASE ApplyDelta  BY <1>1, <2>6 DEF ApplyDelta, Profiles
  <2>7. CASE MonitorDone  BY <1>1, <2>7 DEF MonitorDone
  <2>8. CASE Ripen \/ DropCandidate \/ Confirm
    BY <1>1, <2>8 DEF Ripen, DropCandidate, Confirm
  <2>9. CASE SpaceDrain  BY <1>1, <2>9 DEF SpaceDrain
  <2>10. CASE JudgeClear  BY <1>1, <2>10 DEF JudgeClear, RoomTick
  <2>11. CASE JudgeStale  BY <1>1, <2>11 DEF JudgeStale, RoomTick
  <2>12. CASE Judge
    <3>1. PICK w, b : profile' = [profile EXCEPT !.w = w, !.unsafe = b] /\ UNCHANGED missed
      BY <2>12 DEF Judge, RoomTick
    <3> QED  BY <1>1, <3>1 DEF Profiles
  <2> QED
    BY <1>3, <1>6, <1>7, <2>1, <2>2, <2>3, <2>4, <2>5, <2>6, <2>7, <2>8, <2>9, <2>10, <2>11,
       <2>12 DEF Quiet
<1>9. \A i \in 1 .. Len(stream) : ~Unfollowable(i)
  <2>1. \A i : Unfollowable(i)' <=> Unfollowable(i)  BY <1>1 DEF Unfollowable, Pose
  <2> QED  BY <1>1, <2>1 DEF Undisturbed
<1>10. Undisturbed  BY <1>4, <1>8, <1>9 DEF Undisturbed
<1>11. Prompt  BY <1>10 DEF PromptInv
<1>12. ~(Ripen \/ DropCandidate \/ Confirm)
  BY <1>11 DEF Prompt, Listens, Ripen, DropCandidate, Confirm
<1> QED  BY <1>3, <1>4, <1>6, <1>7, <1>10, <1>11, <1>12 DEF Quiet, Followed

\* What every step of an undisturbed headset starts from.
Steady ==
  /\ UniverseInv /\ CalmInv /\ Undisturbed /\ Prompt /\ incidents = 0
  /\ Undisturbed'

LEMMA SteadyFacts ==
  ASSUME Steady
  PROVE  /\ TypeOK /\ StreamTypes /\ StreamInv /\ WatchInv /\ StepsInv /\ SpaceInv /\ FutureInv
         /\ Listens /\ Tells /\ Sees /\ Times /\ Places /\ Undisturbed
         /\ ~Running /\ Enabled /\ open /\ ~newSession /\ profile.bound
         /\ profile.unsafe = FALSE /\ profile \in Profiles /\ profile.w \in Int
         /\ Visited(profile.w) /\ ~missed' /\ (recovering => ~active)
         /\ mon \in 0 .. Len(stream) /\ upto \in 0 .. Len(stream) /\ spc \in 0 .. Len(stream)
         /\ Len(stream) \in Nat
<1>1. /\ TypeOK /\ StreamTypes /\ StreamInv /\ WatchInv /\ StepsInv /\ SpaceInv /\ FutureInv
  BY DEF Steady, UniverseInv, TypeOK, JumpInv, BooksInv
<1>2. /\ Listens /\ Tells /\ Sees /\ Times /\ Places /\ Undisturbed /\ profile.unsafe = FALSE
  BY DEF Steady, Prompt
<1>3. ~Running /\ open /\ ~newSession /\ (recovering => ~active)  BY DEF Steady, CalmInv
<1>4. profile.has /\ profile.bound /\ ~missed'  BY DEF Steady, Undisturbed
<1>5. Enabled  BY <1>2, <1>4 DEF Enabled
<1>6. profile \in Profiles /\ profile.w \in Int  BY <1>1 DEF TypeOK, ProfileTypes, Profiles
<1>7. Visited(profile.w)  BY <1>1, <1>4 DEF FutureInv, Ref
<1>8. mon \in 0 .. Len(stream) /\ upto \in 0 .. Len(stream) /\ spc \in 0 .. Len(stream)
      /\ Len(stream) \in Nat
  BY <1>1 DEF StreamTypes
<1> QED  BY <1>1, <1>2, <1>3, <1>4, <1>5, <1>6, <1>7, <1>8

LEMMA SameProfile ==
  ASSUME Steady, UNCHANGED profile
  PROVE  profile'.w \in Int /\ profile'.w >= profile.w /\ profile'.unsafe = FALSE
<1>1. profile.w \in Int /\ profile.unsafe = FALSE  BY SteadyFacts
<1>2. profile'.w = profile.w /\ profile'.unsafe = profile.unsafe  OBVIOUS
<1>3. profile'.w >= profile.w  BY ONLY <1>1, <1>2
<1> QED  BY ONLY <1>1, <1>2, <1>3

LEMMA IdlePrompt ==
  ASSUME Steady, Recovered \/ GraceOver
  PROVE  Prompt'
<1>1. /\ UNCHANGED <<stream, active, jumpVars, trans, comped, pc, mon, upto, spc, hmd, profile>>
      /\ pc = "idle"
      /\ grace'.from = grace.from /\ (grace'.at # "off" => grace.at # "off")
  <2>1. CASE Recovered  BY <2>1 DEF Recovered, streamVars, verdictVars
  <2>2. CASE GraceOver
    <3>1. grace \in [at : {"off", "running", "over"}, from : Int]
      BY SteadyFacts DEF TypeOK, VerdictTypes
    <3> QED  BY <2>2, <3>1 DEF GraceOver, streamVars, linkVars
  <2> QED  BY <2>1, <2>2
<1>2. Listens'  BY <1>1, SteadyFacts DEF Listens, jumpVars
<1>3. profile'.w \in Int /\ profile'.w >= profile.w /\ profile'.unsafe = FALSE
  BY <1>1, SameProfile
<1>4. Tells'  BY <1>1, <1>3, SteadyFacts, TellsStill DEF jumpVars
<1>5. Sees'  BY <1>1, <1>3, SteadyFacts, SeesStill
<1>6. Times'
  <2>1. pc' \notin {"drain", "judge"} /\ spc' \in Nat /\ spc' >= spc  BY <1>1, SteadyFacts
  <2> QED  BY <1>1, <2>1, SteadyFacts, TimesStill
<1>7. Places'  BY <1>1 DEF Places
<1> QED  BY <1>2, <1>3, <1>4, <1>5, <1>6, <1>7 DEF Prompt

LEMMA ParkPrompt ==
  ASSUME Steady, Park
  PROVE  Prompt'
<1>1. /\ UNCHANGED <<stream, verdictVars, upto, spc, hmd, profile>> /\ pc' = "drain"
      /\ recovering /\ mon' = Len(stream) /\ missed' = (missed \/ mon < Len(stream))
      /\ watch' = Nowhere /\ cands' = {}
  BY SteadyFacts DEF Park, Discard, ResetJumps, streamVars
<1>2. mon = 0 /\ Len(stream) = 0 /\ mon' = 0
  <2>1. ~active /\ ~missed' /\ Len(stream) \in Nat  BY <1>1, SteadyFacts
  <2>2. mon = 0  BY <2>1, SteadyFacts DEF Listens
  <2>3. ~(mon < Len(stream))  BY <1>1, <2>1
  <2> QED  BY <1>1, <2>1, <2>2, <2>3
<1>3. Listens'  BY <1>1, <1>2 DEF Listens, Nowhere
<1>4. profile'.w \in Int /\ profile'.w >= profile.w /\ profile'.unsafe = FALSE
  BY <1>1, SameProfile
<1>5. Tells'  BY <1>2 DEF Tells
<1>6. Sees'  BY <1>1, <1>4, SteadyFacts, SeesStill DEF verdictVars
<1>7. Times'
  <2>1. spc' \in Nat /\ spc' >= spc  BY <1>1, SteadyFacts
  <2> QED  BY <1>1, <2>1, SteadyFacts, TimesStill DEF verdictVars
<1>8. Places'  BY <1>1 DEF Places
<1> QED  BY <1>3, <1>4, <1>5, <1>6, <1>7, <1>8 DEF Prompt

LEMMA DrainPrompt ==
  ASSUME Steady, MonitorDrain
  PROVE  Prompt'
<1>1. /\ UNCHANGED <<stream, verdictVars, spc, hmd, profile>> /\ pc' = "push" /\ active' = TRUE
  BY DEF MonitorDrain, streamVars
<1>2. UNCHANGED <<mon, jumpVars>> /\ upto' = Len(stream)
  <2>1. CASE ~active /\ Discard /\ upto' = Len(stream) /\ UNCHANGED jumpVars
    <3>1. mon = 0 /\ mon' = Len(stream) /\ ~(mon < Len(stream))
      BY <2>1, SteadyFacts DEF Listens, Discard
    <3> QED  BY <2>1, <3>1, SteadyFacts
  <2>2. CASE /\ active /\ upto' = BatchEnd(mon) /\ UNCHANGED <<mon, missed>>
             /\ \/ HoleInFront \in {"hole", "session"} /\ ResetJumps
                \/ HoleInFront = "drop" /\ NoteStreamHole
                \/ HoleInFront \notin Lossy /\ UNCHANGED jumpVars
    <3>1. upto' = Len(stream)  BY <2>2, SteadyFacts, WholeBatch
    <3>2. HoleInFront = "good"
      <4>1. mon < Len(stream) => mon + 1 \in 1 .. Len(stream)  BY SteadyFacts
      <4> QED  BY <4>1, SteadyFacts, FollowableFacts DEF HoleInFront
    <3> QED  BY <2>2, <3>1, <3>2
  <2> QED  BY <2>1, <2>2 DEF MonitorDrain
<1>3. Listens'  BY <1>1, <1>2, SteadyFacts DEF Listens, jumpVars
<1>4. profile'.w \in Int /\ profile'.w >= profile.w /\ profile'.unsafe = FALSE
  BY <1>1, SameProfile
<1>5. Tells'  BY <1>1, <1>2, <1>4, SteadyFacts, TellsStill DEF jumpVars, verdictVars
<1>6. Sees'  BY <1>1, <1>4, SteadyFacts, SeesStill DEF verdictVars
<1>7. Times'
  <2>1. spc' \in Nat /\ spc' >= spc /\ pc' \notin {"drain", "judge"}  BY <1>1, SteadyFacts
  <2> QED  BY <1>1, <2>1, SteadyFacts, TimesStill DEF verdictVars
<1>8. Places'  BY <1>1, <1>2 DEF Places
<1> QED  BY <1>3, <1>4, <1>5, <1>6, <1>7, <1>8 DEF Prompt

LEMMA PushPrompt ==
  ASSUME Steady, PushSample
  PROVE  Prompt'
<1>1. PICK n \in 1 .. Len(stream) : n = mon + 1
  <2>1. mon + 1 \in 1 .. Len(stream)  BY SteadyFacts DEF PushSample
  <2> QED  BY <2>1
<1> DEFINE s == stream[n]
           p == stream[watch.last]
           near == watch.last # 0 /\ s.kind = "good"
           rebased == near /\ s.w # p.w /\ s.u - s.w = p.u - p.w
<1>2. /\ UNCHANGED <<stream, active, verdictVars, pc, upto, spc, hmd, profile>>
      /\ pc = "push" /\ mon' = n /\ active
      /\ \/ ~Running /\ s.kind = "bad" /\ BreakObservationContinuity
         \/ ~Running /\ s.kind # "bad" /\ rebased /\ DetectWfdRebase(n)
         \/ /\ ~Running /\ s.kind # "bad" /\ ~rebased
            /\ watch' = [first |-> IF watch.last = 0 THEN n ELSE watch.first, last |-> n]
            /\ DetectDiscontinuity(n, near)
            /\ UNCHANGED <<lastAccept, deltas>>
  BY <1>1, SteadyFacts DEF PushSample, WatchInv, streamVars, linkVars
<1>3. /\ s.kind = "good" /\ watch.last = mon /\ cands = {} /\ mon \in Nat /\ n \in Nat
      /\ deltas \in Seq(Deltas) /\ s \in Samples /\ W(n) = s.w /\ U(n) = s.u
  <2>1. s.kind = "good" /\ s \in Samples /\ W(n) = s.w /\ U(n) = s.u
    BY <1>1, SteadyFacts, SampleFacts, FollowableFacts
  <2>2. watch.last = mon /\ cands = {}  BY SteadyFacts DEF Listens
  <2>3. mon \in Nat /\ n \in Nat /\ deltas \in Seq(Deltas)
    BY <1>1, SteadyFacts DEF TypeOK, JumpTypes
  <2> QED  BY <2>1, <2>2, <2>3
<1>4. mon # 0 => /\ near /\ p \in Samples /\ W(n - 1) = p.w /\ U(n - 1) = p.u
                 /\ n \in 2 .. Len(stream)
  <2>1. mon # 0 => mon \in 1 .. Len(stream) /\ n - 1 = mon /\ n \in 2 .. Len(stream)
    BY <1>1, <1>3
  <2> QED  BY <1>3, <2>1, SteadyFacts, SampleFacts
\* A sample whose raw pose moved is a re-base.
<1>5. (mon # 0 /\ U(n) # U(n - 1)) => rebased
  <2> SUFFICES ASSUME mon # 0, U(n) # U(n - 1) PROVE rebased  OBVIOUS
  <2>1. n - 1 \in 0 .. Len(stream) /\ n \in 0 .. Len(stream) /\ n - 1 <= n  BY <1>1
  <2>2. W(n) # W(n - 1)  BY <2>1, SteadyFacts DEF StreamInv
  <2>3. U(n) - W(n) = U(n - 1) - W(n - 1)  BY <1>4, <2>2, SteadyFacts, FollowableFacts
  <2>4. near /\ s.w # p.w /\ s.u - s.w = p.u - p.w  BY <1>3, <1>4, <2>2, <2>3
  <2> QED  BY <2>4
<1>6. /\ watch'.last = n /\ cands' = {}
      /\ \/ deltas' = deltas /\ ~rebased
         \/ \E d \in Deltas : deltas' = Append(deltas, d) /\ d.n = n
  <2>1. CASE s.kind # "bad" /\ rebased /\ DetectWfdRebase(n)
    <3> DEFINE d == [n |-> n, exact |-> TRUE, prev |-> p.w, d |-> s.w - p.w]
    <3>1. mon # 0  BY <1>3, <2>1
    <3>2. s.w \in Int /\ p.w \in Int  BY <1>3, <1>4, <3>1 DEF Samples
    <3>3. d \in Deltas /\ d.n = n  BY <1>3, <3>2 DEF Deltas
    <3>4. /\ watch' = [first |-> n, last |-> n] /\ cands' = {}
          /\ deltas' = Append(deltas, d)
      BY <2>1 DEF DetectWfdRebase
    <3> QED  BY <3>3, <3>4
  <2>2. CASE /\ ~rebased /\ DetectDiscontinuity(n, near) /\ UNCHANGED <<lastAccept, deltas>>
             /\ watch' = [first |-> IF watch.last = 0 THEN n ELSE watch.first, last |-> n]
    <3>1. UNCHANGED cands
      <4> SUFFICES ASSUME near, stream[n].u # stream[watch.last].u PROVE FALSE
        BY <2>2 DEF DetectDiscontinuity
      <4>1. mon # 0  BY <1>3
      <4> QED  BY <1>3, <1>4, <1>5, <2>2, <4>1
    <3> QED  BY <1>3, <2>2, <3>1
  <2> QED  BY <1>2, <1>3, <2>1, <2>2
<1> HIDE DEF rebased, near, s, p
<1>7. Listens'  BY <1>2, <1>6 DEF Listens
<1>8. profile'.w \in Int /\ profile'.w >= profile.w /\ profile'.unsafe = FALSE
  BY <1>2, SameProfile
<1>9. Tells'
  <2>1. \A i : W(i)' = W(i) /\ U(i)' = U(i)  BY <1>2, SamePoses
  <2>2. SUFFICES ASSUME NEW m \in 2 .. n, U(m) # U(m - 1)
                 PROVE  \/ m \in comped \/ W(m) <= profile.w
                        \/ \E k \in 1 .. Len(deltas') : deltas'[k].n = m
    BY <1>2, <2>1 DEF Tells, verdictVars
  <2>3. CASE m = n
    <3>1. mon # 0  BY <1>1, <1>3, <2>3
    <3>2. PICK d \in Deltas : deltas' = Append(deltas, d) /\ d.n = n
      BY <1>5, <1>6, <2>2, <2>3, <3>1
    <3>3. Len(deltas') \in 1 .. Len(deltas') /\ deltas'[Len(deltas')] = d  BY <1>3, <3>2
    <3> QED  BY <2>3, <3>2, <3>3
  <2>4. CASE m # n
    <3>1. m \in 2 .. mon  BY <1>1, <1>3, <2>4
    <3>2. \A k \in 1 .. Len(deltas) : k \in 1 .. Len(deltas') /\ deltas'[k] = deltas[k]
      BY <1>3, <1>6
    <3> QED  BY <2>2, <3>1, <3>2, SteadyFacts DEF Tells
  <2> QED  BY <2>3, <2>4
<1>10. Sees'  BY <1>2, <1>8, SteadyFacts, SeesStill DEF verdictVars
<1>11. Times'
  <2>1. spc' \in Nat /\ spc' >= spc /\ pc' \notin {"drain", "judge"}  BY <1>2, SteadyFacts
  <2> QED  BY <1>2, <2>1, SteadyFacts, TimesStill DEF verdictVars
<1>12. Places'  BY <1>2, SteadyFacts DEF Places
<1> QED  BY <1>7, <1>8, <1>9, <1>10, <1>11, <1>12 DEF Prompt

\* A compensation moves the profile forward, if at all.
LEMMA ApplyPrompt ==
  ASSUME Steady, ApplyDelta
  PROVE  Prompt'
<1>1. /\ UNCHANGED <<stream, active, watch, cands, mon, pc, upto, spc, hmd, trans, grace>>
      /\ pc = "push" /\ deltas # <<>> /\ deltas \in Seq(Deltas) /\ deltas' = Tail(deltas)
      /\ comped' = comped \cup {Head(deltas).n}
  BY SteadyFacts DEF ApplyDelta, streamVars, linkVars, TypeOK, JumpTypes
<1>2. PICK d \in Deltas : d = Head(deltas)  BY <1>1
<1>3. PICK n \in 2 .. Len(stream) : n = d.n /\ d.prev = W(n - 1) /\ W(n - 1) < W(n)
  BY <1>1, <1>2, SteadyFacts, DeltaNext DEF Enabled
<1>4. n \in 1 .. Len(stream) /\ stream[n].w = W(n) /\ W(n) \in Int /\ W(n - 1) \in Int
  <2>1. n \in 1 .. Len(stream) /\ n - 1 \in 0 .. Len(stream) /\ n \in 0 .. Len(stream)
    OBVIOUS
  <2> QED  BY <2>1, SteadyFacts, SampleFacts
<1>5. profile'.w \in Int /\ profile'.w >= profile.w /\ profile'.unsafe = FALSE
  <2>1. profile.w \in Int /\ profile.unsafe = FALSE /\ profile \in Profiles  BY SteadyFacts
  <2>2. PICK c, v : /\ profile' = [profile EXCEPT !.cal = c, !.w = v]
                    /\ (v = W(n) /\ profile.w = W(n - 1)) \/ v = profile.w
    BY <1>2, <1>3, <1>4 DEF ApplyDelta, ExactDeltaRebasesProfile
  <2>3. profile'.w = v /\ profile'.unsafe = profile.unsafe  BY <2>1, <2>2 DEF Profiles
  <2> QED  BY <1>3, <1>4, <2>1, <2>2, <2>3
<1>6. Listens'  BY <1>1, SteadyFacts DEF Listens
<1>7. Tells'
  <2>1. \A i : W(i)' = W(i) /\ U(i)' = U(i)  BY <1>1, SamePoses
  <2>2. SUFFICES ASSUME NEW m \in 2 .. mon, U(m) # U(m - 1)
                 PROVE  \/ m \in comped' \/ W(m) <= profile'.w
                        \/ \E k \in 1 .. Len(deltas') : deltas'[k].n = m
    BY <1>1, <2>1 DEF Tells
  <2>3. m \in comped \/ W(m) <= profile.w \/ \E k \in 1 .. Len(deltas) : deltas[k].n = m
    BY <2>2, SteadyFacts DEF Tells
  <2>4. CASE m \in comped  BY <1>1, <2>4
  <2>5. CASE W(m) <= profile.w
    <3>1. m \in 0 .. Len(stream)  BY SteadyFacts
    <3>2. W(m) \in Int  BY <3>1, SteadyFacts, SampleFacts
    <3> QED  BY <1>5, <2>5, <3>2, SteadyFacts
  <2>6. CASE \E k \in 1 .. Len(deltas) : deltas[k].n = m
    <3>1. PICK k \in 1 .. Len(deltas) : deltas[k].n = m  BY <2>6
    <3>2. CASE k = 1  BY <1>1, <3>1, <3>2
    <3>3. CASE k # 1
      <4>1. k - 1 \in 1 .. Len(deltas') /\ deltas'[k - 1] = deltas[k]  BY <1>1, <3>3
      <4> QED  BY <3>1, <4>1
    <3> QED  BY <3>2, <3>3
  <2> QED  BY <2>3, <2>4, <2>5, <2>6
<1>8. Sees'  BY <1>1, <1>5, SteadyFacts, SeesStill
<1>9. Times'
  <2>1. spc' \in Nat /\ spc' >= spc /\ pc' \notin {"drain", "judge"}  BY <1>1, SteadyFacts
  <2> QED  BY <1>1, <2>1, SteadyFacts, TimesStill
<1>10. Places'  BY <1>1, SteadyFacts DEF Places
<1> QED  BY <1>5, <1>6, <1>7, <1>8, <1>9, <1>10 DEF Prompt

LEMMA DonePrompt ==
  ASSUME Steady, MonitorDone
  PROVE  Prompt'
<1>1. /\ UNCHANGED <<stream, active, jumpVars, verdictVars, mon, spc, hmd, profile>>
      /\ pc = "push" /\ pc' = "drain" /\ mon = upto
  BY SteadyFacts DEF MonitorDone, streamVars, linkVars
<1>2. mon' = Len(stream)  BY <1>1, SteadyFacts DEF Places
<1>3. Listens'  BY <1>1, SteadyFacts DEF Listens, jumpVars
<1>4. profile'.w \in Int /\ profile'.w >= profile.w /\ profile'.unsafe = FALSE
  BY <1>1, SameProfile
<1>5. Tells'  BY <1>1, <1>4, SteadyFacts, TellsStill DEF jumpVars, verdictVars
<1>6. Sees'  BY <1>1, <1>4, SteadyFacts, SeesStill DEF verdictVars
<1>7. Times'
  <2>1. spc' \in Nat /\ spc' >= spc  BY <1>1, SteadyFacts
  <2> QED  BY <1>1, <1>2, <2>1, SteadyFacts, TimesStill DEF verdictVars
<1>8. Places'  BY <1>1 DEF Places
<1> QED  BY <1>3, <1>4, <1>5, <1>6, <1>7, <1>8 DEF Prompt

\* The space notes every change in front of it.
LEMMA NotedPrompt ==
  ASSUME Steady, SpaceDrain
  PROVE  Prompt'
<1>1. /\ UNCHANGED <<stream, active, jumpVars, comped, grace, mon, profile>>
      /\ pc = "drain" /\ pc' = "judge" /\ spc' = BatchEnd(spc)
      /\ hmd' = Cached.hmd /\ trans' = trans \o Cached.seen
  BY DEF SpaceDrain, streamVars, linkVars
<1>2. spc' = Len(stream) /\ Len(stream) \in Nat /\ spc \in 0 .. Len(stream)
  BY <1>1, SteadyFacts, WholeBatch
<1>3. PICK acc \in Caches : acc = Cached /\ NotedAll(acc, spc, Len(stream))
  <2>1. hmd \in Endpoints /\ Placed(hmd) /\ room.ver \in BOOLEAN /\ HmdAt(hmd, spc)
    BY SteadyFacts DEF TypeOK, VerdictTypes, ProfileTypes, Rooms, SpaceInv
  <2> QED  BY <2>1, SteadyFacts, CachedNotes
<1>4. trans \in Seq(Transitions) /\ acc.seen \in Seq(Transitions) /\ trans' = trans \o acc.seen
      /\ hmd' = acc.hmd
  BY <1>1, <1>3, SteadyFacts DEF Caches, TypeOK, VerdictTypes
<1> DEFINE a == Len(trans)
           b == Len(acc.seen)
<1>5. PICK q : q = trans'  OBVIOUS
<1>6. /\ a \in Nat /\ b \in Nat /\ Len(q) = a + b
      /\ \A k \in 1 .. a : q[k] = trans[k]
      /\ \A k \in 1 .. b : q[a + k] = acc.seen[k]
  BY <1>4, <1>5
<1>7. \A k \in 1 .. a : /\ StepAt(trans[k].n) /\ trans[k].n \in 1 .. spc
  <2> SUFFICES ASSUME NEW k \in 1 .. a PROVE StepAt(trans[k].n) /\ trans[k].n \in 1 .. spc
    OBVIOUS
  <2>1. PICK t \in Transitions : t = trans[k]  BY <1>4
  <2>2. Noted(t, spc)  BY <2>1, SteadyFacts DEF SpaceInv
  <2> QED  BY <2>1, <2>2, SteadyFacts DEF Noted, Sees
<1>8. \A k \in 1 .. b : StepAt(acc.seen[k].n) /\ acc.seen[k].n \in spc + 1 .. Len(stream)
  BY <1>3 DEF NotedAll
<1> HIDE DEF a, b
<1>9. \A k \in 1 .. Len(q) : k \in 1 .. a \/ (k - a \in 1 .. b /\ q[k] = acc.seen[k - a])
  <2> SUFFICES ASSUME NEW k \in 1 .. Len(q), k \notin 1 .. a
               PROVE  k - a \in 1 .. b /\ q[k] = acc.seen[k - a]
    OBVIOUS
  <2>1. PICK j \in 1 .. b : j = k - a /\ k = a + j  BY <1>6
  <2> QED  BY <1>6, <2>1
<1>10. \A i : W(i)' = W(i) /\ U(i)' = U(i)  BY <1>1, SamePoses
<1>11. \A n : StepAt(n)' <=> StepAt(n)  BY <1>1, SamePoses
<1>12. \A k \in 1 .. Len(q) : StepAt(q[k].n)  BY <1>6, <1>7, <1>8, <1>9
<1>13. \A k, l \in 1 .. Len(q) : k < l => q[k].n < q[l].n
  <2> SUFFICES ASSUME NEW k \in 1 .. Len(q), NEW l \in 1 .. Len(q), k < l
               PROVE  q[k].n < q[l].n
    OBVIOUS
  <2>1. CASE l \in 1 .. a
    <3>1. k \in 1 .. a  BY <1>6, <2>1
    <3>2. trans[k].n < trans[l].n  BY <2>1, <3>1, SteadyFacts DEF Sees, a
    <3> QED  BY <1>6, <2>1, <3>1, <3>2
  <2>2. CASE l \notin 1 .. a /\ k \in 1 .. a
    <3>1. q[l].n \in spc + 1 .. Len(stream)  BY <1>8, <1>9, <2>2
    <3>2. q[k].n \in 1 .. spc  BY <1>6, <1>7, <2>2
    <3> QED  BY <1>2, <3>1, <3>2
  <2>3. CASE l \notin 1 .. a /\ k \notin 1 .. a
    <3>1. k - a \in 1 .. b /\ l - a \in 1 .. b /\ k - a < l - a  BY <1>6, <1>9, <2>3
    <3>2. acc.seen[k - a].n < acc.seen[l - a].n  BY <1>3, <3>1 DEF NotedAll, b
    <3> QED  BY <1>9, <2>3, <3>2
  <2> QED  BY <2>1, <2>2, <2>3
<1>14. ASSUME NEW n \in 2 .. Len(stream), W(n) # W(n - 1), W(n) > profile.w
       PROVE  \E k \in 1 .. Len(q) : q[k].n = n /\ (U(n) = U(n - 1) => q[k].composed)
  <2>1. CASE n <= spc
    <3>1. n \in 2 .. spc  BY <1>2, <2>1
    <3>2. PICK k \in 1 .. a : trans[k].n = n /\ (U(n) = U(n - 1) => trans[k].composed)
      BY <1>14, <3>1, SteadyFacts DEF Sees, a
    <3>3. k \in 1 .. Len(q) /\ q[k] = trans[k]  BY <1>6
    <3> QED  BY <3>2, <3>3
  <2>2. CASE n > spc
    <3>1. PICK k \in 1 .. b : acc.seen[k].n = n /\ (U(n) = U(n - 1) => acc.seen[k].composed)
      BY <1>3, <1>14, <2>2 DEF NotedAll, b
    <3>2. a + k \in 1 .. Len(q) /\ q[a + k] = acc.seen[k]  BY <1>6
    <3> QED  BY <3>1, <3>2
  <2> QED  BY <1>2, <2>1, <2>2
<1>15. IF Len(stream) = 0 THEN acc.hmd.state = "empty"
       ELSE acc.hmd.state = "usable" /\ acc.hmd.n = Len(stream)
  BY <1>3 DEF NotedAll
<1>16. Sees'
  <2>1. UNCHANGED profile /\ hmd' = acc.hmd /\ trans' = q /\ spc' = Len(stream)
    BY <1>1, <1>2, <1>4, <1>5
  <2> QED  BY ONLY <1>10, <1>11, <1>12, <1>13, <1>14, <1>15, <2>1 DEF Sees
<1>17. Listens'  BY <1>1, SteadyFacts DEF Listens, jumpVars
<1>18. profile'.w \in Int /\ profile'.w >= profile.w /\ profile'.unsafe = FALSE
  BY <1>1, SameProfile
<1>19. Tells'  BY <1>1, <1>18, SteadyFacts, TellsStill DEF jumpVars
<1>20. Times'
  <2>1. spc' \in Nat /\ spc' >= spc /\ pc \in {"drain", "judge"} /\ mon' = mon  BY <1>1, <1>2
  <2>2. /\ TypeOK /\ Times  BY SteadyFacts
  <2>3. UNCHANGED stream /\ grace'.from = grace.from /\ (grace'.at # "off" => grace.at # "off")
    BY <1>1
  <2> QED  BY <2>1, <2>2, <2>3, TimesStill
<1>21. Places'  BY <1>1, <1>2 DEF Places
<1> QED  BY <1>16, <1>17, <1>18, <1>19, <1>20, <1>21 DEF Prompt

\* A profile that has the headset's WFD has every change behind it.
LEMMA Matched ==
  ASSUME Steady, pc = "judge", NoVerdict, UNCHANGED <<stream, active, jumpVars, mon, spc, hmd>>,
         pc' = "idle", profile'.w = W(spc), profile'.unsafe = FALSE
  PROVE  Prompt'
<1>1. \A i : W(i)' = W(i) /\ U(i)' = U(i)  BY SamePoses
<1>2. spc = Len(stream) /\ mon \in 0 .. spc /\ Len(stream) \in Nat
  BY SteadyFacts DEF Places
<1>3. \A n \in 2 .. spc : W(n) <= W(spc) /\ ~(W(n) > W(spc))
  <2> SUFFICES ASSUME NEW n \in 2 .. spc PROVE W(n) <= W(spc) /\ ~(W(n) > W(spc))  OBVIOUS
  <2>1. n \in 0 .. Len(stream) /\ spc \in 0 .. Len(stream) /\ n <= spc  BY <1>2
  <2>2. W(n) <= W(spc) /\ W(n) \in Int /\ W(spc) \in Int
    BY <2>1, SteadyFacts, SampleFacts DEF StreamInv
  <2> QED  BY <2>2
<1>4. trans' = <<>> /\ grace'.at = "off"  BY DEF NoVerdict
<1>5. Listens'  BY SteadyFacts DEF Listens, jumpVars
<1>6. Tells'
  <2>1. \A n \in 2 .. mon : W(n) <= W(spc)  BY <1>2, <1>3
  <2>2. \A n \in 2 .. mon' : W(n)' <= profile'.w  BY <1>1, <2>1
  <2> QED  BY ONLY <2>2 DEF Tells
<1>7. Sees'
  <2>1. IF spc = 0 THEN hmd.state = "empty" ELSE hmd.state = "usable" /\ hmd.n = spc
    BY SteadyFacts DEF Sees
  <2>2. \A n \in 2 .. spc' : ~(W(n)' > profile'.w)  BY <1>1, <1>3
  <2>3. Len(trans') = 0  BY <1>4
  <2> QED  BY <2>1, <2>2, <2>3 DEF Sees
<1>8. Times'  BY <1>4 DEF Times
<1>9. Places'  BY DEF Places
<1> QED  BY <1>5, <1>6, <1>7, <1>8, <1>9 DEF Prompt

\* What the headset shows is where the space stands.
LEMMA SeenNow ==
  ASSUME Steady, pc = "judge", Fresh
  PROVE  /\ spc = Len(stream) /\ spc \in 1 .. Len(stream) /\ hmd.n = spc
         /\ Observed = W(spc) /\ W(spc) \in Int
<1>1. spc = Len(stream) /\ spc \in 0 .. Len(stream)  BY SteadyFacts DEF Places
<1>2. spc # 0 /\ hmd.n = spc  BY SteadyFacts DEF Fresh, Sees
<1>3. spc \in 1 .. Len(stream)  BY <1>1, <1>2
<1> QED  BY <1>1, <1>2, <1>3, SteadyFacts, SampleFacts DEF Observed

LEMMA ClearPrompt ==
  ASSUME Steady, JudgeClear
  PROVE  Prompt'
<1>1. /\ pc = "judge" /\ Fresh /\ profile.w = Observed /\ NoVerdict /\ UNCHANGED profile
      /\ pc' = "idle" /\ UNCHANGED <<stream, active, jumpVars, mon, spc, hmd>>
  BY SteadyFacts DEF JudgeClear, RoomTick, streamVars, linkVars
<1>2. Observed = W(spc)  BY <1>1, SeenNow
<1>3. profile'.w = W(spc) /\ profile'.unsafe = FALSE  BY <1>1, <1>2, SteadyFacts
<1> QED  BY <1>1, <1>3, Matched

LEMMA StalePrompt ==
  ASSUME Steady, JudgeStale
  PROVE  Prompt'
<1>1. /\ UNCHANGED <<stream, active, jumpVars, verdictVars, mon, spc, hmd, profile>>
      /\ pc' = "idle"
  BY DEF JudgeStale, RoomTick, streamVars, linkVars
<1>2. Listens'  BY <1>1, SteadyFacts DEF Listens, jumpVars
<1>3. profile'.w \in Int /\ profile'.w >= profile.w /\ profile'.unsafe = FALSE
  BY <1>1, SameProfile
<1>4. Tells'  BY <1>1, <1>3, SteadyFacts, TellsStill DEF jumpVars, verdictVars
<1>5. Sees'  BY <1>1, <1>3, SteadyFacts, SeesStill DEF verdictVars
<1>6. Times'
  <2>1. spc' \in Nat /\ spc' >= spc /\ pc' \notin {"drain", "judge"}  BY <1>1, SteadyFacts
  <2> QED  BY <1>1, <2>1, SteadyFacts, TimesStill DEF verdictVars
<1>7. Places'  BY <1>1 DEF Places
<1> QED  BY <1>2, <1>3, <1>4, <1>5, <1>6, <1>7 DEF Prompt

\* The verdict waits for no step that the monitors have heard of, and a grace period
\* that an earlier verdict began is of another WFD than the one it stops at now.
LEMMA JudgePrompt ==
  ASSUME Steady, Judge
  PROVE  Prompt'
<1> DEFINE walk == Walk(profile.w, trans)
           matched == walk.ref = Observed
           timed == grace.at # "off" /\ grace.from = walk.ref
           expired == ~matched /\ ~walk.wait /\ timed /\ grace.at = "over"
<1>1. /\ pc = "judge" /\ Fresh /\ pc' = "idle"
      /\ UNCHANGED <<stream, active, jumpVars, mon, spc, hmd>>
      /\ profile' = [profile EXCEPT !.w = walk.ref, !.unsafe = expired]
      /\ IF matched \/ expired THEN NoVerdict
         ELSE /\ trans' = walk.kept /\ waiting' = walk.wait /\ UNCHANGED comped
              /\ grace' = IF walk.wait THEN [at |-> "off", from |-> 0]
                          ELSE IF timed THEN grace ELSE [at |-> "running", from |-> walk.ref]
  BY DEF Judge, RoomTick, streamVars, linkVars
<1>2. /\ spc = Len(stream) /\ spc \in 1 .. Len(stream) /\ Observed = W(spc) /\ W(spc) \in Int
      /\ Len(stream) \in Nat /\ mon \in 0 .. Len(stream)
  BY <1>1, SeenNow, SteadyFacts
<1>3. Walkable /\ SpaceInv /\ Visited(profile.w)
  <2>1. deltas = <<>>  BY <1>1, SteadyFacts DEF WatchInv
  <2> QED  BY <2>1, SteadyFacts DEF Walkable, TypeOK
<1>4. /\ walk \in Walks /\ WalkedTo(walk, Len(trans))
      /\ walk.stopped = FALSE => walk.ref = W(spc)
  BY <1>2, <1>3, WalkEnds
<1>5. PICK a \in Walks : a = walk  BY <1>4
<1>6. /\ a.ref \in Int /\ a.stopped \in BOOLEAN /\ a.kept \in Seq(Transitions)
      /\ a.wait = FALSE /\ a.ref >= profile.w
  BY <1>4, <1>5 DEF Walks, WalkedTo
<1>7. trans \in Seq(Transitions) /\ Len(trans) \in Nat
  BY SteadyFacts DEF TypeOK, VerdictTypes
\* Where it stopped, if it did not reach the headset's WFD.
<1>8. ~matched => \E m \in 2 .. spc : a.ref = W(m - 1) /\ W(m) # W(m - 1) /\ m > mon
  <2> SUFFICES ASSUME ~matched
               PROVE  \E m \in 2 .. spc : a.ref = W(m - 1) /\ W(m) # W(m - 1) /\ m > mon
    OBVIOUS
  <2>1. a.stopped = TRUE  BY <1>2, <1>4, <1>5, <1>6
  <2> QED  BY <1>4, <1>5, <2>1 DEF WalkedTo
<1>9. ~matched => ~timed
  <2> SUFFICES ASSUME ~matched, timed PROVE FALSE  OBVIOUS
  <2>1. PICK m \in 2 .. spc : a.ref = W(m - 1) /\ W(m) # W(m - 1) /\ m > mon  BY <1>8
  <2>2. PICK o \in 2 .. spc : W(o - 1) = grace.from /\ W(o) # W(o - 1) /\ o <= mon
    BY <1>1, SteadyFacts DEF Times
  <2>3. W(o - 1) = W(m - 1)  BY <1>5, <2>1, <2>2
  <2>4. /\ o - 1 \in 0 .. Len(stream) /\ o \in 0 .. Len(stream) /\ m - 1 \in 0 .. Len(stream)
        /\ o - 1 <= o /\ o <= m - 1
    BY <1>2, <2>1, <2>2
  <2>5. /\ W(o - 1) <= W(o) /\ W(o) <= W(m - 1)
        /\ W(o - 1) \in Int /\ W(o) \in Int /\ W(m - 1) \in Int
    BY <2>4, SteadyFacts, SampleFacts DEF StreamInv
  <2> QED  BY <2>2, <2>3, <2>5
<1>10. expired = FALSE  BY <1>9
<1> HIDE DEF matched, timed, expired, walk
<1>11. profile'.w = a.ref /\ profile'.unsafe = FALSE /\ profile.w \in Int
  BY <1>1, <1>5, <1>10, SteadyFacts DEF Profiles
<1>12. CASE matched
  <2>1. profile'.w = W(spc)  BY <1>2, <1>5, <1>11, <1>12 DEF matched
  <2> QED  BY <1>1, <1>11, <1>12, <2>1, Matched
<1>13. CASE ~matched
  <2>1. /\ trans' = a.kept /\ UNCHANGED comped
        /\ grace' = [at |-> "running", from |-> a.ref]
    BY <1>1, <1>5, <1>6, <1>9, <1>10, <1>13
  <2>2. profile'.w \in Int /\ profile'.w >= profile.w  BY <1>6, <1>11
  <2>3. Listens'  BY <1>1, SteadyFacts DEF Listens, jumpVars
  <2>4. Tells'  BY <1>1, <2>1, <2>2, SteadyFacts, TellsStill DEF jumpVars
  <2>5. \A i : W(i)' = W(i) /\ U(i)' = U(i)  BY <1>1, SamePoses
  <2>6. Sees'
    <3>1. \A n : StepAt(n)' <=> StepAt(n)  BY <1>1, SamePoses
    <3>2. WalkedTo(a, Len(trans))  BY <1>4, <1>5
    <3>3. \A k \in 1 .. Len(a.kept) : StepAt(a.kept[k].n)
      <4> SUFFICES ASSUME NEW k \in 1 .. Len(a.kept) PROVE StepAt(a.kept[k].n)  OBVIOUS
      <4>1. PICK l \in 1 .. Len(trans) : a.kept[k] = trans[l]  BY <3>2 DEF WalkedTo
      <4> QED  BY <4>1, SteadyFacts DEF Sees
    <3>4. \A k, l \in 1 .. Len(a.kept) : k < l => a.kept[k].n < a.kept[l].n
      BY <3>2 DEF WalkedTo
    <3>5. ASSUME NEW n \in 2 .. spc, W(n) # W(n - 1), W(n) > a.ref
          PROVE  \E k \in 1 .. Len(a.kept) :
                   a.kept[k].n = n /\ (U(n) = U(n - 1) => a.kept[k].composed)
      <4>1. n \in 0 .. Len(stream)  BY <1>2
      <4>2. W(n) \in Int  BY <4>1, SteadyFacts, SampleFacts
      <4>3. W(n) > profile.w  BY <1>6, <1>11, <3>5, <4>2
      <4>4. PICK l \in 1 .. Len(trans) :
              trans[l].n = n /\ (U(n) = U(n - 1) => trans[l].composed)
        BY <3>5, <4>3, SteadyFacts DEF Sees
      <4>5. trans[l].to > a.ref  BY <1>3, <3>5, <4>4, TransFacts
      <4>6. PICK k \in 1 .. Len(a.kept) : a.kept[k] = trans[l]  BY <3>2, <4>5 DEF WalkedTo
      <4> QED  BY <4>4, <4>6
    <3>6. IF spc = 0 THEN hmd.state = "empty" ELSE hmd.state = "usable" /\ hmd.n = spc
      BY SteadyFacts DEF Sees
    <3>7. UNCHANGED <<spc, hmd>>  BY <1>1
    <3> QED  BY ONLY <1>11, <2>1, <2>5, <3>1, <3>3, <3>4, <3>5, <3>6, <3>7 DEF Sees
  <2>7. Times'
    <3>1. PICK m \in 2 .. spc : a.ref = W(m - 1) /\ W(m) # W(m - 1)  BY <1>8, <1>13
    <3>2. grace'.from = a.ref /\ spc' = spc  BY <1>1, <2>1
    <3>3. pc' \notin {"drain", "judge"}  BY <1>1
    <3> QED  BY <2>5, <3>1, <3>2, <3>3 DEF Times
  <2>8. Places'  BY <1>1 DEF Places
  <2> QED  BY <1>11, <2>3, <2>4, <2>6, <2>7, <2>8 DEF Prompt
<1> QED  BY <1>12, <1>13

\* A published sample is for the drains to come.
LEMMA PublishPrompt ==
  ASSUME UniverseInv, PromptInv, ~Returns, Still \/ Change, Undisturbed'
  PROVE  Prompt'
<1>1. TypeOK /\ StreamTypes  BY DEF UniverseInv, TypeOK
<1>2. PICK n \in Nat : n = Len(stream) + 1  BY <1>1 DEF StreamTypes
<1>3. /\ Len(stream') = n /\ Len(stream) \in Nat
      /\ \A i \in 1 .. Len(stream) : stream'[i] = stream[i]
      /\ \A i \in 0 .. Len(stream) : W(i)' = W(i) /\ U(i)' = U(i)
      /\ pc \in {"idle", "drain"}
      /\ UNCHANGED <<incidents, linkVars, jumpVars, verdictVars, pc, mon, upto, spc, hmd,
                     seen, run, profile, room, missed>>
  BY <1>1, <1>2, Published
<1>4. Undisturbed
  <2>1. \A i \in 1 .. Len(stream) : ~Unfollowable(i)
    <3> SUFFICES ASSUME NEW i \in 1 .. Len(stream), Unfollowable(i) PROVE FALSE  OBVIOUS
    <3>1. i \in 1 .. Len(stream') /\ i \in 0 .. Len(stream) /\ i - 1 \in 0 .. Len(stream)
      BY <1>2, <1>3
    <3>2. Pose(i - 1)' = Pose(i - 1)
      <4>1. CASE i - 1 = 0  BY <4>1 DEF Pose
      <4>2. CASE i - 1 # 0
        <5>1. i - 1 \in 1 .. Len(stream)  BY <3>1, <4>2
        <5> QED  BY <1>3, <4>2, <5>1 DEF Pose
      <4> QED  BY <4>1, <4>2
    <3>3. Unfollowable(i)'  BY <1>3, <3>2 DEF Unfollowable
    <3> QED  BY <3>1, <3>3 DEF Undisturbed
  <2> QED  BY <1>3, <2>1 DEF Undisturbed
<1>5. Listens /\ Tells /\ Sees /\ Times /\ profile.unsafe = FALSE
  BY <1>4 DEF PromptInv, Prompt
<1>6. mon \in 0 .. Len(stream) /\ spc \in 0 .. Len(stream)  BY <1>1 DEF StreamTypes
<1>7. Listens'  BY <1>3, <1>5 DEF Listens, linkVars, jumpVars
<1>8. Tells'
  <2>1. \A k \in 2 .. mon : k \in 0 .. Len(stream) /\ k - 1 \in 0 .. Len(stream)  BY <1>3, <1>6
  <2>2. UNCHANGED <<mon, comped, profile, deltas>>  BY <1>3 DEF verdictVars, jumpVars
  <2> QED  BY ONLY <1>3, <1>5, <2>1, <2>2 DEF Tells
<1>9. \A k \in 2 .. spc : k \in 0 .. Len(stream) /\ k - 1 \in 0 .. Len(stream)  BY <1>3, <1>6
<1>10. UNCHANGED <<spc, hmd, trans, profile, grace, mon, pc>>  BY <1>3 DEF verdictVars
<1>11. Sees'
  <2>1. \A k \in 1 .. Len(trans) : StepAt(trans[k].n)'
    <3> SUFFICES ASSUME NEW k \in 1 .. Len(trans) PROVE StepAt(trans[k].n)'  OBVIOUS
    <3>1. PICK m : m = trans[k].n  OBVIOUS
    <3>2. StepAt(m)  BY <1>5, <3>1 DEF Sees
    <3>3. m \in 1 .. Len(stream)  BY <1>3, <3>2 DEF StepAt
    <3>4. StepAt(m)'  BY <1>1, <3>2, <3>3, PublishedKeeps
    <3>5. trans'[k].n = m  BY <1>10, <3>1
    <3> QED  BY <3>4, <3>5
  <2>2. \A k \in 1 .. Len(trans') : StepAt(trans[k].n)'  BY <1>10, <2>1
  <2> QED  BY ONLY <1>3, <1>5, <1>9, <1>10, <2>2 DEF Sees
<1>12. Times'
  <2> SUFFICES ASSUME grace.at # "off"
               PROVE  \E m \in 2 .. spc' : /\ W(m - 1)' = grace'.from /\ W(m)' # W(m - 1)'
                                           /\ pc' \in {"drain", "judge"} => m <= mon'
    BY <1>10 DEF Times
  <2>1. PICK m \in 2 .. spc : /\ W(m - 1) = grace.from /\ W(m) # W(m - 1)
                              /\ pc \in {"drain", "judge"} => m <= mon
    BY <1>5 DEF Times
  <2>2. W(m - 1)' = W(m - 1) /\ W(m)' = W(m)  BY <1>3, <1>9
  <2> QED  BY <1>10, <2>1, <2>2
<1>13. Places'  BY <1>3 DEF Places
<1>14. profile'.unsafe = FALSE  BY <1>5, <1>10
<1> QED  BY <1>7, <1>8, <1>11, <1>12, <1>13, <1>14 DEF Prompt

\* Only an incident ends an active monitor, closes the ring or begins a run.
LEMMA CalmStep ==
  ASSUME UniverseInv, CalmInv, Quiet
  PROVE  CalmInv'
<1>1. incidents \in Nat /\ run \in [at : 0 .. Len(stream), ticked : BOOLEAN]
  BY DEF UniverseInv, TypeOK, StreamTypes, ProfileTypes
<1>2. CASE SessionBoundary
  BY <1>1, <1>2 DEF SessionBoundary, Incident, CalmInv
<1>3. CASE RefuseDelta \/ Capture \/ CaptureFails \/ StartRun
  <2>1. incidents' = incidents + 1 /\ UNCHANGED <<recovering, active>>
    BY <1>3 DEF RefuseDelta, Capture, CaptureFails, StartRun, Incident, linkVars
  <2> QED  BY <1>1, <2>1 DEF CalmInv
<1>4. CASE Reopen
  BY <1>4 DEF Reopen, CalmInv, streamVars, Running
<1>5. CASE Park
  <2>1. /\ newSession' = FALSE /\ active' = FALSE
        /\ run'.at = run.at /\ UNCHANGED <<incidents, open, crossing>>
    BY <1>1, <1>5 DEF Park, streamVars
  <2> QED  BY <2>1 DEF CalmInv, Running
<1>6. CASE MonitorDrain
  <2>1. ~recovering /\ UNCHANGED <<recovering, incidents, open, crossing, newSession, run>>
    BY <1>6 DEF MonitorDrain, streamVars
  <2> QED  BY <2>1 DEF CalmInv, Running
<1>7. CASE MonitorDone
  <2>1. run'.at = run.at /\ UNCHANGED <<incidents, crossing, linkVars>>
    BY <1>1, <1>7 DEF MonitorDone, streamVars
  <2> QED  BY <2>1 DEF CalmInv, Running, linkVars
<1>8. CASE FinishRun \/ EndRun
  <2>1. run'.at = 0 /\ UNCHANGED <<incidents, crossing, linkVars>>
    BY <1>8 DEF FinishRun, EndRun, streamVars
  <2> QED  BY <2>1 DEF CalmInv, Running, linkVars
<1>9. CASE Recovered
  BY <1>9 DEF Recovered, CalmInv, Running, streamVars
<1>10. CASE GraceOver \/ PushSample \/ ApplyDelta \/ Ripen \/ DropCandidate \/ Confirm
  <2>1. UNCHANGED <<incidents, crossing, linkVars, run>>
    BY <1>10 DEF GraceOver, PushSample, ApplyDelta, Ripen, DropCandidate, Confirm, streamVars
  <2> QED  BY <2>1 DEF CalmInv, Running, linkVars
<1>11. CASE SpaceClosed \/ SpaceDrain \/ JudgeClear \/ JudgeStale \/ JudgeBind \/ Judge
  <2>1. UNCHANGED <<incidents, crossing, linkVars, run>>
    BY <1>11 DEF SpaceClosed, SpaceDrain, JudgeClear, JudgeStale, JudgeBind, Judge, RoomTick,
       streamVars
  <2> QED  BY <2>1 DEF CalmInv, Running, linkVars
<1> QED
  BY <1>2, <1>3, <1>4, <1>5, <1>6, <1>7, <1>8, <1>9, <1>10, <1>11 DEF Quiet

LEMMA PromptStep ==
  ASSUME ~Returns, UniverseInv, PromptInv, [Next]_vars
  PROVE  PromptInv'
<1>1. CASE Still \/ Change
  <2>1. PICK n \in Nat : n = Len(stream) + 1  BY DEF UniverseInv, TypeOK, StreamTypes
  <2>2. UNCHANGED <<incidents, linkVars, run>> /\ crossing' = FALSE
    BY <1>1, <2>1, Published DEF UniverseInv, TypeOK
  <2>3. CalmInv'  BY <2>2 DEF PromptInv, CalmInv, Running, linkVars
  <2> QED  BY <1>1, <2>3, PublishPrompt DEF PromptInv
<1>2. CASE Quiet
  <2>1. CalmInv'  BY <1>2, CalmStep DEF PromptInv
  <2>2. ASSUME Undisturbed' PROVE Prompt'
    <3>1. Undisturbed /\ Prompt /\ incidents = 0 /\ Followed  BY <1>2, <2>2, Excluded
    <3>2. Steady  BY <2>2, <3>1 DEF Steady, PromptInv
    <3> QED
      BY <3>1, <3>2, IdlePrompt, ParkPrompt, DrainPrompt, PushPrompt, ApplyPrompt, DonePrompt,
         NotedPrompt, ClearPrompt, StalePrompt, JudgePrompt DEF Followed
  <2> QED  BY <2>1, <2>2 DEF PromptInv
<1>3. CASE UNCHANGED vars
  <2>1. UNCHANGED <<stream, crossing, open, newSession, recovering, active, watch, cands, deltas,
                    trans, comped, grace, incidents, pc, mon, upto, spc, hmd, run, profile,
                    missed>>
    BY <1>3 DEF vars, streamVars, linkVars, jumpVars, verdictVars
  <2>2. CalmInv'  BY <2>1 DEF PromptInv, CalmInv, Running
  <2>3. \A i : W(i)' = W(i) /\ U(i)' = U(i)  BY <2>1, SamePoses
  <2>4. \A n : StepAt(n)' <=> StepAt(n)  BY <2>1, SamePoses
  <2>5. \A i : Unfollowable(i)' <=> Unfollowable(i)  BY <2>1 DEF Unfollowable, Pose
  <2>6. ASSUME Undisturbed' PROVE Prompt'
    <3>1. Undisturbed  BY <2>1, <2>5, <2>6 DEF Undisturbed
    <3>2. Prompt  BY <3>1 DEF PromptInv
    <3>3. Listens' /\ Places' /\ profile'.unsafe = FALSE
      BY <2>1, <3>2 DEF Prompt, Listens, Places
    <3>4. Tells'  BY <2>1, <2>3, <3>2 DEF Prompt, Tells
    <3>5. Sees'  BY <2>1, <2>3, <2>4, <3>2 DEF Prompt, Sees
    <3>6. Times'  BY <2>1, <2>3, <3>2 DEF Prompt, Times
    <3> QED  BY <3>3, <3>4, <3>5, <3>6 DEF Prompt
  <2> QED  BY <2>2, <2>6 DEF PromptInv
<1> QED  BY <1>1, <1>2, <1>3, NextCases

LEMMA InitPrompt ==
  ASSUME Init
  PROVE  PromptInv
<1>1. /\ stream = <<>> /\ mon = 0 /\ spc = 0 /\ watch = Nowhere /\ cands = {} /\ trans = <<>>
      /\ hmd.state = "empty" /\ grace.at = "off" /\ pc = "idle" /\ ~active
      /\ open /\ ~crossing /\ ~newSession /\ run.at = 0
  BY DEF Init
<1>2. profile.unsafe = FALSE
  <2>1. PICK h, b : profile = [has |-> h, bound |-> b, w |-> 0, cal |-> 0, unsafe |-> FALSE,
                               from |-> "own"]
    BY DEF Init
  <2> QED  BY <2>1
<1>3. CalmInv  BY <1>1 DEF CalmInv, Running
<1>4. Listens /\ Times /\ Places  BY <1>1 DEF Listens, Times, Places, Nowhere
<1>5. Tells  BY <1>1 DEF Tells
<1>6. Sees  BY <1>1 DEF Sees
<1> QED  BY <1>2, <1>3, <1>4, <1>5, <1>6 DEF PromptInv, Prompt

\* A headset whose every change could be followed never has its calibration latched off,
\* however the two consumers meet the changes (UniverseVerdict::Evaluate): by the time the
\* verdict stops at a change a second time, the monitors have compensated it.
THEOREM NeverLatched ==
  ASSUME ~Returns, ~Hasty
  PROVE  Spec => []FollowedNotLatched
<1>1. Init => UniverseInv /\ PromptInv  BY InitInv, InitPrompt
<1>2. UniverseInv /\ PromptInv /\ [Next]_vars => (UniverseInv /\ PromptInv)'
  BY StepInv, PromptStep
<1>3. UniverseInv /\ PromptInv => FollowedNotLatched
  <2> SUFFICES ASSUME UniverseInv, PromptInv, profile.unsafe, profile.from = "own",
                      incidents = 0, ~missed, \A i \in DOMAIN stream : ~Unfollowable(i)
               PROVE  FALSE
    BY DEF FollowedNotLatched
  <2>1. profile.has /\ profile.bound
    BY DEF UniverseInv, BooksInv, BindInv
  <2>2. DOMAIN stream = 1 .. Len(stream)  BY DEF UniverseInv, TypeOK, StreamTypes
  <2>3. Undisturbed  BY <2>1, <2>2 DEF Undisturbed
  <2> QED  BY <2>3 DEF PromptInv, Prompt
<1> QED  BY <1>1, <1>2, <1>3, PTL DEF Spec

=============================================================================
