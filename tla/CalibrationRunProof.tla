------------------------ MODULE CalibrationRunProof ------------------------
(***************************************************************************)
(* Where a tracker's correction stands, for any number of trackers,        *)
(* stations, moves and samples: a tracker whose frame the code followed    *)
(* reads right, a calibration that a run applies is right on the last      *)
(* sample it was measured with, and a run is turned down only for cause.   *)
(*                                                                         *)
(* A correction is right against one place of the tracker's frame, and the *)
(* frame moves at any time: so the invariant keeps a history, the place    *)
(* the frame had at every time from the one the correction was made for to *)
(* the present one.  Samples say that place at their time, the moves the   *)
(* watch infers lead from one place of the history to a later one, and     *)
(* following them in the order of time carries the correction along.  A    *)
(* run does the same with the samples it holds.  The sections: loops over  *)
(* sequences and what each keeps, transforms, types, what the watch makes  *)
(* of a sample, histories, the moves followed, Join, the run's samples,    *)
(* one lemma for each action, and what stands between run and corrections. *)
(***************************************************************************)
EXTENDS CalibrationRun, WellFoundedInduction, FiniteSetTheorems, TLAPS

-----------------------------------------------------------------------------
(* Loops over sequences, step by step.                                     *)

\* A nonempty set of naturals has a least element.
LEMMA LeastOf ==
  ASSUME NEW T \in SUBSET Nat, T # {}
  PROVE  \E x \in T : \A y \in T : x <= y
<1> DEFINE R == OpToRel(<, Nat)
<1>1. IsWellFoundedOn(R, Nat)  BY NatLessThanWellFounded
<1>2. \A a \in Nat, b \in Nat : a < b => <<a, b>> \in R  BY DEF OpToRel
<1> HIDE DEF R
<1>3. PICK x \in T : \A y \in T : ~(<<y, x>> \in R)  BY <1>1, WFMin
<1>4. T \subseteq Nat  OBVIOUS
<1>5. ASSUME NEW y \in T PROVE x <= y
  <2>1. y \in Nat /\ x \in Nat  BY <1>4
  <2>2. ~(y < x)  BY <1>2, <1>3, <2>1
  <2> QED  BY <2>1, <2>2
<1> QED  BY <1>5

\* A nonempty set of naturals that has a bound has a maximum.
LEMMA MaxOf ==
  ASSUME NEW T \in SUBSET Nat, T # {}, NEW m \in Nat, \A y \in T : y <= m
  PROVE  Max(T) \in T
<1> DEFINE B == {u \in Nat : \A y \in T : y <= u}
<1>1. B \in SUBSET Nat /\ B # {}
  <2>1. m \in B  OBVIOUS
  <2> QED  BY <2>1
<1>2. PICK u \in B : \A v \in B : u <= v  BY <1>1, LeastOf
<1>3. u \in T
  <2>1. CASE u = 0
    <3>1. PICK x \in T : TRUE  OBVIOUS
    <3>2. x \in Nat /\ x <= 0  BY <2>1
    <3>3. x = u  BY <2>1, <3>2
    <3> QED  BY <3>3
  <2>2. CASE u # 0
    <3>1. u - 1 \in Nat /\ ~(u <= u - 1)  BY <2>2
    <3>2. u - 1 \notin B  BY <1>2, <3>1
    <3>3. PICK y \in T : ~(y <= u - 1)  BY <3>1, <3>2
    <3>4. y \in Nat /\ y <= u  OBVIOUS
    <3>5. y = u  BY <3>1, <3>3, <3>4
    <3> QED  BY <3>5
  <2> QED  BY <2>1, <2>2
<1>4. \E x \in T : \A y \in T : x >= y  BY <1>3
<1> QED  BY <1>4 DEF Max

\* What holds at the start and after every step holds all along.
LEMMA AllAlong ==
  ASSUME NEW n \in Nat, NEW Good, 0 \in Good,
         \A k \in 1 .. n : k - 1 \in Good => k \in Good
  PROVE  \A k \in 0 .. n : k \in Good
<1> DEFINE Bad == {k \in 0 .. n : k \notin Good}
<1>1. ASSUME Bad # {} PROVE FALSE
  <2>1. Bad \in SUBSET Nat  OBVIOUS
  <2>2. PICK x \in Bad : \A y \in Bad : x <= y  BY <1>1, <2>1, LeastOf
  <2>3. x \in 1 .. n /\ x \notin Good  BY <2>2
  <2>4. x - 1 \in 0 .. n /\ ~(x <= x - 1)  BY <2>3
  <2>5. x - 1 \in Good  BY <2>2, <2>4
  <2> QED  BY <2>3, <2>5
<1> QED  BY <1>1

\* What a loop of n steps accumulates, from a on.
Accumulates(t, S, n, a, f) ==
  /\ t \in [0 .. n -> S]
  /\ t[0] = a
  /\ \A k \in 1 .. n : t[k] = f[<<t[k - 1], k>>]

\* A loop over n steps has an outcome.
LEMMA LoopExists ==
  ASSUME NEW S, NEW n \in Nat, NEW a \in S, NEW f \in [S \X (1 .. n) -> S]
  PROVE  \E t : Accumulates(t, S, n, a, f)
<1> DEFINE Runs(m, t) == t[0] = a /\ \A k \in 1 .. m : t[k] = f[<<t[k - 1], k>>]
           Good == {m \in 0 .. n : \E t \in [0 .. m -> S] : Runs(m, t)}
<1>1. 0 \in Good
  <2> DEFINE first == [k \in 0 .. 0 |-> a]
  <2>1. first \in [0 .. 0 -> S] /\ first[0] = a /\ \A k \in 1 .. 0 : FALSE  OBVIOUS
  <2>2. \E t \in [0 .. 0 -> S] : Runs(0, t)  BY <2>1
  <2> QED  BY <2>2
<1>2. ASSUME NEW m \in 1 .. n, m - 1 \in Good PROVE m \in Good
  <2>1. PICK t \in [0 .. m - 1 -> S] : Runs(m - 1, t)  BY <1>2
  <2> DEFINE next == [k \in 0 .. m |-> IF k = m THEN f[<<t[m - 1], m>>] ELSE t[k]]
  <2>2. t[m - 1] \in S /\ f[<<t[m - 1], m>>] \in S
    <3>1. t[m - 1] \in S  OBVIOUS
    <3>2. <<t[m - 1], m>> \in S \X (1 .. n)  BY <3>1
    <3> QED  BY <3>1, <3>2
  <2>3. next \in [0 .. m -> S]
    <3> SUFFICES ASSUME NEW k \in 0 .. m PROVE next[k] \in S  OBVIOUS
    <3>1. CASE k = m  BY <2>2, <3>1
    <3>2. CASE k # m  BY <3>2
    <3> QED  BY <3>1, <3>2
  <2>4. Runs(m, next)
    <3>1. next[0] = a  BY <2>1
    <3>2. ASSUME NEW k \in 1 .. m PROVE next[k] = f[<<next[k - 1], k>>]
      <4>1. next[k - 1] = t[k - 1]  OBVIOUS
      <4>2. CASE k = m
        <5>1. next[k] = f[<<t[m - 1], m>>]  BY <4>2
        <5>2. next[k - 1] = t[m - 1]  BY <4>1, <4>2
        <5> QED  BY <4>2, <5>1, <5>2
      <4>3. CASE k # m
        <5>1. k \in 1 .. m - 1 /\ next[k] = t[k]  BY <4>3
        <5> QED  BY <2>1, <4>1, <5>1
      <4> QED  BY <4>2, <4>3
    <3> QED  BY <3>1, <3>2
  <2> HIDE DEF next
  <2> QED  BY <2>3, <2>4
<1> HIDE DEF Good
<1>3. n \in Good  BY <1>1, <1>2, AllAlong
<1> USE DEF Good
<1> QED  BY <1>3 DEF Accumulates

\* The steps keep G, which may speak of where the loop is; the loop t runs within G.
Keeps(n, S, G, a, f) ==
  /\ n \in Nat /\ G \in SUBSET ((0 .. n) \X S) /\ <<0, a>> \in G
  /\ \A k \in 1 .. n, x \in S : <<k - 1, x>> \in G => <<k, f[<<k, x>>]>> \in G

RunsIn(t, n, S, G, a, f) ==
  /\ t \in [0 .. n -> S]
  /\ t[0] = a /\ \A k \in 1 .. n : t[k] = f[<<k, t[k - 1]>>]
  /\ \A k \in 0 .. n : <<k, t[k]>> \in G

LEMMA LoopKeeps ==
  ASSUME NEW n, NEW S, NEW G, NEW a, NEW f, Keeps(n, S, G, a, f)
  PROVE  \E t : RunsIn(t, n, S, G, a, f)
<1> USE DEF Keeps
<1> DEFINE h == [p \in S \X (1 .. n) |-> IF <<p[2] - 1, p[1]>> \in G THEN f[<<p[2], p[1]>>]
                                          ELSE p[1]]
<1>1. a \in S  OBVIOUS
<1>2. \A x \in S, k \in 1 .. n :
        h[<<x, k>>] = IF <<k - 1, x>> \in G THEN f[<<k, x>>] ELSE x
  OBVIOUS
<1>3. h \in [S \X (1 .. n) -> S]
  <2> SUFFICES ASSUME NEW x \in S, NEW k \in 1 .. n
               PROVE  (IF <<k - 1, x>> \in G THEN f[<<k, x>>] ELSE x) \in S
    OBVIOUS
  <2> QED  OBVIOUS
<1> HIDE DEF h
<1>4. PICK t : Accumulates(t, S, n, a, h)  BY ONLY <1>1, <1>3, n \in Nat, LoopExists
<1>5. /\ t \in [0 .. n -> S] /\ t[0] = a
      /\ \A k \in 1 .. n : t[k] = h[<<t[k - 1], k>>]
  BY <1>4 DEF Accumulates
<1> DEFINE Good == {k \in 0 .. n : <<k, t[k]>> \in G}
<1>6. 0 \in Good  BY <1>5
<1>7. ASSUME NEW k \in 1 .. n, k - 1 \in Good
      PROVE  k \in Good /\ t[k] = f[<<k, t[k - 1]>>]
  <2>1. <<k - 1, t[k - 1]>> \in G /\ t[k - 1] \in S  BY <1>5, <1>7
  <2>2. t[k] = f[<<k, t[k - 1]>>]  BY <1>2, <1>5, <2>1
  <2> QED  BY <2>1, <2>2
<1> HIDE DEF Good
<1>8. \A k \in 0 .. n : k \in Good  BY ONLY n \in Nat, <1>6, <1>7, AllAlong
<1>9. \A k \in 1 .. n : t[k] = f[<<k, t[k - 1]>>]  BY <1>7, <1>8
<1> USE DEF Good
<1> QED  BY <1>5, <1>8, <1>9 DEF RunsIn

\* The loops of the model, each an instance of it.
Compensated(w, a, s) ==
  LET CompensateNext(acc, move) == Compensate(acc, w, move) IN Along(CompensateNext, a, s)
Joined(w, keep, a, s) ==
  LET JoinNext(acc, switch) == Join(acc, w, Headset, keep, switch) IN Along(JoinNext, a, s)
Given(keep, d, a, s) ==
  LET Give(acc, mate) == Take(acc, keep, mate, d) IN Along(Give, a, s)

LEMMA NoteKeeps ==
  ASSUME NEW a, NEW s, Len(s) \in Nat, NEW S, NEW G \in SUBSET ((0 .. Len(s)) \X S),
         <<0, a>> \in G,
         \A k \in 1 .. Len(s), x \in S :
           <<k - 1, x>> \in G => <<k, Note(x, s[k])>> \in G
  PROVE  <<Len(s), Along(Note, a, s)>> \in G
<1> DEFINE n == Len(s)
           f == [p \in (1 .. n) \X S |-> Note(p[2], s[p[1]])]
<1>1. \A k \in 1 .. n, x \in S : f[<<k, x>>] = Note(x, s[k])  OBVIOUS
<1>2. n \in Nat /\ \A k \in 1 .. n, x \in S : <<k - 1, x>> \in G => <<k, f[<<k, x>>]>> \in G
  BY <1>1
<1> HIDE DEF f
<1>3. Keeps(n, S, G, a, f)  BY <1>2 DEF Keeps
<1>4. PICK t : RunsIn(t, n, S, G, a, f)  BY ONLY <1>3, LoopKeeps
<1>5. /\ t \in [0 .. n -> S]
      /\ t[0] = a /\ \A k \in 1 .. n : t[k] = f[<<k, t[k - 1]>>]
  BY <1>4 DEF RunsIn
<1>6. t = [k \in 0 .. Len(s) |-> IF k = 0 THEN a ELSE Note(t[k - 1], s[k])]
  <2>1. t = [k \in 0 .. n |-> t[k]]  BY <1>5
  <2>2. \A k \in 0 .. n : t[k] = IF k = 0 THEN a ELSE Note(t[k - 1], s[k])
    <3> SUFFICES ASSUME NEW k \in 1 .. n PROVE t[k] = Note(t[k - 1], s[k])
      BY <1>5
    <3>1. t[k - 1] \in S  BY <1>2, <1>5
    <3> QED  BY <1>1, <1>5, <3>1
  <2> QED  BY <2>1, <2>2
<1> DEFINE after == CHOOSE h : h = [k \in 0 .. Len(s) |-> IF k = 0 THEN a
                                                         ELSE Note(h[k - 1], s[k])]
<1>7. Along(Note, a, s) = after[Len(s)]  BY DEF Along
<1>8. after = [k \in 0 .. Len(s) |-> IF k = 0 THEN a ELSE Note(after[k - 1], s[k])]
  BY ONLY <1>6
<1> HIDE DEF after
<1>9. after[0] = a /\ \A k \in 1 .. n : after[k] = Note(after[k - 1], s[k])
  BY ONLY <1>2, <1>8
<1> DEFINE Good == {k \in 0 .. n : <<k, after[k]>> \in G}
<1>10. 0 \in Good  BY <1>2, <1>9
<1>11. ASSUME NEW k \in 1 .. n, k - 1 \in Good PROVE k \in Good
  <2>1. <<k - 1, after[k - 1]>> \in G /\ after[k - 1] \in S  BY <1>11
  <2> QED  BY <1>9, <2>1
<1> HIDE DEF Good
<1>12. \A k \in 0 .. n : k \in Good  BY ONLY <1>2, <1>10, <1>11, AllAlong
<1>13. n \in Good  BY <1>2, <1>12
<1> USE DEF Good
<1> QED  BY <1>7, <1>13

LEMMA ExpireKeeps ==
  ASSUME NEW a, NEW s, Len(s) \in Nat, NEW S, NEW G \in SUBSET ((0 .. Len(s)) \X S),
         <<0, a>> \in G,
         \A k \in 1 .. Len(s), x \in S :
           <<k - 1, x>> \in G => <<k, Expire(x, s[k])>> \in G
  PROVE  <<Len(s), Along(Expire, a, s)>> \in G
<1> DEFINE n == Len(s)
           f == [p \in (1 .. n) \X S |-> Expire(p[2], s[p[1]])]
<1>1. \A k \in 1 .. n, x \in S : f[<<k, x>>] = Expire(x, s[k])  OBVIOUS
<1>2. n \in Nat /\ \A k \in 1 .. n, x \in S : <<k - 1, x>> \in G => <<k, f[<<k, x>>]>> \in G
  BY <1>1
<1> HIDE DEF f
<1>3. Keeps(n, S, G, a, f)  BY <1>2 DEF Keeps
<1>4. PICK t : RunsIn(t, n, S, G, a, f)  BY ONLY <1>3, LoopKeeps
<1>5. /\ t \in [0 .. n -> S]
      /\ t[0] = a /\ \A k \in 1 .. n : t[k] = f[<<k, t[k - 1]>>]
  BY <1>4 DEF RunsIn
<1>6. t = [k \in 0 .. Len(s) |-> IF k = 0 THEN a ELSE Expire(t[k - 1], s[k])]
  <2>1. t = [k \in 0 .. n |-> t[k]]  BY <1>5
  <2>2. \A k \in 0 .. n : t[k] = IF k = 0 THEN a ELSE Expire(t[k - 1], s[k])
    <3> SUFFICES ASSUME NEW k \in 1 .. n PROVE t[k] = Expire(t[k - 1], s[k])
      BY <1>5
    <3>1. t[k - 1] \in S  BY <1>2, <1>5
    <3> QED  BY <1>1, <1>5, <3>1
  <2> QED  BY <2>1, <2>2
<1> DEFINE after == CHOOSE h : h = [k \in 0 .. Len(s) |-> IF k = 0 THEN a
                                                         ELSE Expire(h[k - 1], s[k])]
<1>7. Along(Expire, a, s) = after[Len(s)]  BY DEF Along
<1>8. after = [k \in 0 .. Len(s) |-> IF k = 0 THEN a ELSE Expire(after[k - 1], s[k])]
  BY ONLY <1>6
<1> HIDE DEF after
<1>9. after[0] = a /\ \A k \in 1 .. n : after[k] = Expire(after[k - 1], s[k])
  BY ONLY <1>2, <1>8
<1> DEFINE Good == {k \in 0 .. n : <<k, after[k]>> \in G}
<1>10. 0 \in Good  BY <1>2, <1>9
<1>11. ASSUME NEW k \in 1 .. n, k - 1 \in Good PROVE k \in Good
  <2>1. <<k - 1, after[k - 1]>> \in G /\ after[k - 1] \in S  BY <1>11
  <2> QED  BY <1>9, <2>1
<1> HIDE DEF Good
<1>12. \A k \in 0 .. n : k \in Good  BY ONLY <1>2, <1>10, <1>11, AllAlong
<1>13. n \in Good  BY <1>2, <1>12
<1> USE DEF Good
<1> QED  BY <1>7, <1>13

LEMMA ResolveKeeps ==
  ASSUME NEW a, NEW s, Len(s) \in Nat, NEW S, NEW G \in SUBSET ((0 .. Len(s)) \X S),
         <<0, a>> \in G,
         \A k \in 1 .. Len(s), x \in S :
           <<k - 1, x>> \in G => <<k, Resolve(x, s[k])>> \in G
  PROVE  <<Len(s), Along(Resolve, a, s)>> \in G
<1> DEFINE n == Len(s)
           f == [p \in (1 .. n) \X S |-> Resolve(p[2], s[p[1]])]
<1>1. \A k \in 1 .. n, x \in S : f[<<k, x>>] = Resolve(x, s[k])  OBVIOUS
<1>2. n \in Nat /\ \A k \in 1 .. n, x \in S : <<k - 1, x>> \in G => <<k, f[<<k, x>>]>> \in G
  BY <1>1
<1> HIDE DEF f
<1>3. Keeps(n, S, G, a, f)  BY <1>2 DEF Keeps
<1>4. PICK t : RunsIn(t, n, S, G, a, f)  BY ONLY <1>3, LoopKeeps
<1>5. /\ t \in [0 .. n -> S]
      /\ t[0] = a /\ \A k \in 1 .. n : t[k] = f[<<k, t[k - 1]>>]
  BY <1>4 DEF RunsIn
<1>6. t = [k \in 0 .. Len(s) |-> IF k = 0 THEN a ELSE Resolve(t[k - 1], s[k])]
  <2>1. t = [k \in 0 .. n |-> t[k]]  BY <1>5
  <2>2. \A k \in 0 .. n : t[k] = IF k = 0 THEN a ELSE Resolve(t[k - 1], s[k])
    <3> SUFFICES ASSUME NEW k \in 1 .. n PROVE t[k] = Resolve(t[k - 1], s[k])
      BY <1>5
    <3>1. t[k - 1] \in S  BY <1>2, <1>5
    <3> QED  BY <1>1, <1>5, <3>1
  <2> QED  BY <2>1, <2>2
<1> DEFINE after == CHOOSE h : h = [k \in 0 .. Len(s) |-> IF k = 0 THEN a
                                                         ELSE Resolve(h[k - 1], s[k])]
<1>7. Along(Resolve, a, s) = after[Len(s)]  BY DEF Along
<1>8. after = [k \in 0 .. Len(s) |-> IF k = 0 THEN a ELSE Resolve(after[k - 1], s[k])]
  BY ONLY <1>6
<1> HIDE DEF after
<1>9. after[0] = a /\ \A k \in 1 .. n : after[k] = Resolve(after[k - 1], s[k])
  BY ONLY <1>2, <1>8
<1> DEFINE Good == {k \in 0 .. n : <<k, after[k]>> \in G}
<1>10. 0 \in Good  BY <1>2, <1>9
<1>11. ASSUME NEW k \in 1 .. n, k - 1 \in Good PROVE k \in Good
  <2>1. <<k - 1, after[k - 1]>> \in G /\ after[k - 1] \in S  BY <1>11
  <2> QED  BY <1>9, <2>1
<1> HIDE DEF Good
<1>12. \A k \in 0 .. n : k \in Good  BY ONLY <1>2, <1>10, <1>11, AllAlong
<1>13. n \in Good  BY <1>2, <1>12
<1> USE DEF Good
<1> QED  BY <1>7, <1>13

LEMMA InsertKeeps ==
  ASSUME NEW a, NEW s, Len(s) \in Nat, NEW S, NEW G \in SUBSET ((0 .. Len(s)) \X S),
         <<0, a>> \in G,
         \A k \in 1 .. Len(s), x \in S :
           <<k - 1, x>> \in G => <<k, Insert(x, s[k])>> \in G
  PROVE  <<Len(s), Along(Insert, a, s)>> \in G
<1> DEFINE n == Len(s)
           f == [p \in (1 .. n) \X S |-> Insert(p[2], s[p[1]])]
<1>1. \A k \in 1 .. n, x \in S : f[<<k, x>>] = Insert(x, s[k])  OBVIOUS
<1>2. n \in Nat /\ \A k \in 1 .. n, x \in S : <<k - 1, x>> \in G => <<k, f[<<k, x>>]>> \in G
  BY <1>1
<1> HIDE DEF f
<1>3. Keeps(n, S, G, a, f)  BY <1>2 DEF Keeps
<1>4. PICK t : RunsIn(t, n, S, G, a, f)  BY ONLY <1>3, LoopKeeps
<1>5. /\ t \in [0 .. n -> S]
      /\ t[0] = a /\ \A k \in 1 .. n : t[k] = f[<<k, t[k - 1]>>]
  BY <1>4 DEF RunsIn
<1>6. t = [k \in 0 .. Len(s) |-> IF k = 0 THEN a ELSE Insert(t[k - 1], s[k])]
  <2>1. t = [k \in 0 .. n |-> t[k]]  BY <1>5
  <2>2. \A k \in 0 .. n : t[k] = IF k = 0 THEN a ELSE Insert(t[k - 1], s[k])
    <3> SUFFICES ASSUME NEW k \in 1 .. n PROVE t[k] = Insert(t[k - 1], s[k])
      BY <1>5
    <3>1. t[k - 1] \in S  BY <1>2, <1>5
    <3> QED  BY <1>1, <1>5, <3>1
  <2> QED  BY <2>1, <2>2
<1> DEFINE after == CHOOSE h : h = [k \in 0 .. Len(s) |-> IF k = 0 THEN a
                                                         ELSE Insert(h[k - 1], s[k])]
<1>7. Along(Insert, a, s) = after[Len(s)]  BY DEF Along
<1>8. after = [k \in 0 .. Len(s) |-> IF k = 0 THEN a ELSE Insert(after[k - 1], s[k])]
  BY ONLY <1>6
<1> HIDE DEF after
<1>9. after[0] = a /\ \A k \in 1 .. n : after[k] = Insert(after[k - 1], s[k])
  BY ONLY <1>2, <1>8
<1> DEFINE Good == {k \in 0 .. n : <<k, after[k]>> \in G}
<1>10. 0 \in Good  BY <1>2, <1>9
<1>11. ASSUME NEW k \in 1 .. n, k - 1 \in Good PROVE k \in Good
  <2>1. <<k - 1, after[k - 1]>> \in G /\ after[k - 1] \in S  BY <1>11
  <2> QED  BY <1>9, <2>1
<1> HIDE DEF Good
<1>12. \A k \in 0 .. n : k \in Good  BY ONLY <1>2, <1>10, <1>11, AllAlong
<1>13. n \in Good  BY <1>2, <1>12
<1> USE DEF Good
<1> QED  BY <1>7, <1>13

LEMMA CollectKeeps ==
  ASSUME NEW a, NEW s, Len(s) \in Nat, NEW S, NEW G \in SUBSET ((0 .. Len(s)) \X S),
         <<0, a>> \in G,
         \A k \in 1 .. Len(s), x \in S :
           <<k - 1, x>> \in G => <<k, Collect(x, s[k])>> \in G
  PROVE  <<Len(s), Along(Collect, a, s)>> \in G
<1> DEFINE n == Len(s)
           f == [p \in (1 .. n) \X S |-> Collect(p[2], s[p[1]])]
<1>1. \A k \in 1 .. n, x \in S : f[<<k, x>>] = Collect(x, s[k])  OBVIOUS
<1>2. n \in Nat /\ \A k \in 1 .. n, x \in S : <<k - 1, x>> \in G => <<k, f[<<k, x>>]>> \in G
  BY <1>1
<1> HIDE DEF f
<1>3. Keeps(n, S, G, a, f)  BY <1>2 DEF Keeps
<1>4. PICK t : RunsIn(t, n, S, G, a, f)  BY ONLY <1>3, LoopKeeps
<1>5. /\ t \in [0 .. n -> S]
      /\ t[0] = a /\ \A k \in 1 .. n : t[k] = f[<<k, t[k - 1]>>]
  BY <1>4 DEF RunsIn
<1>6. t = [k \in 0 .. Len(s) |-> IF k = 0 THEN a ELSE Collect(t[k - 1], s[k])]
  <2>1. t = [k \in 0 .. n |-> t[k]]  BY <1>5
  <2>2. \A k \in 0 .. n : t[k] = IF k = 0 THEN a ELSE Collect(t[k - 1], s[k])
    <3> SUFFICES ASSUME NEW k \in 1 .. n PROVE t[k] = Collect(t[k - 1], s[k])
      BY <1>5
    <3>1. t[k - 1] \in S  BY <1>2, <1>5
    <3> QED  BY <1>1, <1>5, <3>1
  <2> QED  BY <2>1, <2>2
<1> DEFINE after == CHOOSE h : h = [k \in 0 .. Len(s) |-> IF k = 0 THEN a
                                                         ELSE Collect(h[k - 1], s[k])]
<1>7. Along(Collect, a, s) = after[Len(s)]  BY DEF Along
<1>8. after = [k \in 0 .. Len(s) |-> IF k = 0 THEN a ELSE Collect(after[k - 1], s[k])]
  BY ONLY <1>6
<1> HIDE DEF after
<1>9. after[0] = a /\ \A k \in 1 .. n : after[k] = Collect(after[k - 1], s[k])
  BY ONLY <1>2, <1>8
<1> DEFINE Good == {k \in 0 .. n : <<k, after[k]>> \in G}
<1>10. 0 \in Good  BY <1>2, <1>9
<1>11. ASSUME NEW k \in 1 .. n, k - 1 \in Good PROVE k \in Good
  <2>1. <<k - 1, after[k - 1]>> \in G /\ after[k - 1] \in S  BY <1>11
  <2> QED  BY <1>9, <2>1
<1> HIDE DEF Good
<1>12. \A k \in 0 .. n : k \in Good  BY ONLY <1>2, <1>10, <1>11, AllAlong
<1>13. n \in Good  BY <1>2, <1>12
<1> USE DEF Good
<1> QED  BY <1>7, <1>13

LEMMA CompensatedKeeps ==
  ASSUME NEW w, NEW a, NEW s, Len(s) \in Nat, NEW S, NEW G \in SUBSET ((0 .. Len(s)) \X S),
         <<0, a>> \in G,
         \A k \in 1 .. Len(s), x \in S :
           <<k - 1, x>> \in G => <<k, Compensate(x, w, s[k])>> \in G
  PROVE  <<Len(s), Compensated(w, a, s)>> \in G
<1> DEFINE n == Len(s)
           f == [p \in (1 .. n) \X S |-> Compensate(p[2], w, s[p[1]])]
<1>1. \A k \in 1 .. n, x \in S : f[<<k, x>>] = Compensate(x, w, s[k])  OBVIOUS
<1>2. n \in Nat /\ \A k \in 1 .. n, x \in S : <<k - 1, x>> \in G => <<k, f[<<k, x>>]>> \in G
  BY <1>1
<1> HIDE DEF f
<1>3. Keeps(n, S, G, a, f)  BY <1>2 DEF Keeps
<1>4. PICK t : RunsIn(t, n, S, G, a, f)  BY ONLY <1>3, LoopKeeps
<1>5. /\ t \in [0 .. n -> S]
      /\ t[0] = a /\ \A k \in 1 .. n : t[k] = f[<<k, t[k - 1]>>]
  BY <1>4 DEF RunsIn
<1>6. t = [k \in 0 .. Len(s) |-> IF k = 0 THEN a ELSE Compensate(t[k - 1], w, s[k])]
  <2>1. t = [k \in 0 .. n |-> t[k]]  BY <1>5
  <2>2. \A k \in 0 .. n : t[k] = IF k = 0 THEN a ELSE Compensate(t[k - 1], w, s[k])
    <3> SUFFICES ASSUME NEW k \in 1 .. n PROVE t[k] = Compensate(t[k - 1], w, s[k])
      BY <1>5
    <3>1. t[k - 1] \in S  BY <1>2, <1>5
    <3> QED  BY <1>1, <1>5, <3>1
  <2> QED  BY <2>1, <2>2
<1> DEFINE after == CHOOSE h : h = [k \in 0 .. Len(s) |-> IF k = 0 THEN a
                                                         ELSE Compensate(h[k - 1], w, s[k])]
<1>7. Compensated(w, a, s) = after[Len(s)]  BY DEF Compensated, Along
<1>8. after = [k \in 0 .. Len(s) |-> IF k = 0 THEN a ELSE Compensate(after[k - 1], w, s[k])]
  BY ONLY <1>6
<1> HIDE DEF after
<1>9. after[0] = a /\ \A k \in 1 .. n : after[k] = Compensate(after[k - 1], w, s[k])
  BY ONLY <1>2, <1>8
<1> DEFINE Good == {k \in 0 .. n : <<k, after[k]>> \in G}
<1>10. 0 \in Good  BY <1>2, <1>9
<1>11. ASSUME NEW k \in 1 .. n, k - 1 \in Good PROVE k \in Good
  <2>1. <<k - 1, after[k - 1]>> \in G /\ after[k - 1] \in S  BY <1>11
  <2> QED  BY <1>9, <2>1
<1> HIDE DEF Good
<1>12. \A k \in 0 .. n : k \in Good  BY ONLY <1>2, <1>10, <1>11, AllAlong
<1>13. n \in Good  BY <1>2, <1>12
<1> USE DEF Good
<1> QED  BY <1>7, <1>13

LEMMA JoinedKeeps ==
  ASSUME NEW w, NEW keep, NEW a, NEW s, Len(s) \in Nat, NEW S, NEW G \in SUBSET ((0 .. Len(s)) \X S),
         <<0, a>> \in G,
         \A k \in 1 .. Len(s), x \in S :
           <<k - 1, x>> \in G => <<k, Join(x, w, Headset, keep, s[k])>> \in G
  PROVE  <<Len(s), Joined(w, keep, a, s)>> \in G
<1> DEFINE n == Len(s)
           f == [p \in (1 .. n) \X S |-> Join(p[2], w, Headset, keep, s[p[1]])]
<1>1. \A k \in 1 .. n, x \in S : f[<<k, x>>] = Join(x, w, Headset, keep, s[k])  OBVIOUS
<1>2. n \in Nat /\ \A k \in 1 .. n, x \in S : <<k - 1, x>> \in G => <<k, f[<<k, x>>]>> \in G
  BY <1>1
<1> HIDE DEF f
<1>3. Keeps(n, S, G, a, f)  BY <1>2 DEF Keeps
<1>4. PICK t : RunsIn(t, n, S, G, a, f)  BY ONLY <1>3, LoopKeeps
<1>5. /\ t \in [0 .. n -> S]
      /\ t[0] = a /\ \A k \in 1 .. n : t[k] = f[<<k, t[k - 1]>>]
  BY <1>4 DEF RunsIn
<1>6. t = [k \in 0 .. Len(s) |-> IF k = 0 THEN a ELSE Join(t[k - 1], w, Headset, keep, s[k])]
  <2>1. t = [k \in 0 .. n |-> t[k]]  BY <1>5
  <2>2. \A k \in 0 .. n : t[k] = IF k = 0 THEN a ELSE Join(t[k - 1], w, Headset, keep, s[k])
    <3> SUFFICES ASSUME NEW k \in 1 .. n PROVE t[k] = Join(t[k - 1], w, Headset, keep, s[k])
      BY <1>5
    <3>1. t[k - 1] \in S  BY <1>2, <1>5
    <3> QED  BY <1>1, <1>5, <3>1
  <2> QED  BY <2>1, <2>2
<1> DEFINE after == CHOOSE h : h = [k \in 0 .. Len(s) |-> IF k = 0 THEN a
                                                         ELSE Join(h[k - 1], w, Headset, keep, s[k])]
<1>7. Joined(w, keep, a, s) = after[Len(s)]  BY DEF Joined, Along
<1>8. after = [k \in 0 .. Len(s) |-> IF k = 0 THEN a ELSE Join(after[k - 1], w, Headset, keep, s[k])]
  BY ONLY <1>6
<1> HIDE DEF after
<1>9. after[0] = a /\ \A k \in 1 .. n : after[k] = Join(after[k - 1], w, Headset, keep, s[k])
  BY ONLY <1>2, <1>8
<1> DEFINE Good == {k \in 0 .. n : <<k, after[k]>> \in G}
<1>10. 0 \in Good  BY <1>2, <1>9
<1>11. ASSUME NEW k \in 1 .. n, k - 1 \in Good PROVE k \in Good
  <2>1. <<k - 1, after[k - 1]>> \in G /\ after[k - 1] \in S  BY <1>11
  <2> QED  BY <1>9, <2>1
<1> HIDE DEF Good
<1>12. \A k \in 0 .. n : k \in Good  BY ONLY <1>2, <1>10, <1>11, AllAlong
<1>13. n \in Good  BY <1>2, <1>12
<1> USE DEF Good
<1> QED  BY <1>7, <1>13

LEMMA GivenKeeps ==
  ASSUME NEW keep, NEW d, NEW a, NEW s, Len(s) \in Nat, NEW S, NEW G \in SUBSET ((0 .. Len(s)) \X S),
         <<0, a>> \in G,
         \A k \in 1 .. Len(s), x \in S :
           <<k - 1, x>> \in G => <<k, Take(x, keep, s[k], d)>> \in G
  PROVE  <<Len(s), Given(keep, d, a, s)>> \in G
<1> DEFINE n == Len(s)
           f == [p \in (1 .. n) \X S |-> Take(p[2], keep, s[p[1]], d)]
<1>1. \A k \in 1 .. n, x \in S : f[<<k, x>>] = Take(x, keep, s[k], d)  OBVIOUS
<1>2. n \in Nat /\ \A k \in 1 .. n, x \in S : <<k - 1, x>> \in G => <<k, f[<<k, x>>]>> \in G
  BY <1>1
<1> HIDE DEF f
<1>3. Keeps(n, S, G, a, f)  BY <1>2 DEF Keeps
<1>4. PICK t : RunsIn(t, n, S, G, a, f)  BY ONLY <1>3, LoopKeeps
<1>5. /\ t \in [0 .. n -> S]
      /\ t[0] = a /\ \A k \in 1 .. n : t[k] = f[<<k, t[k - 1]>>]
  BY <1>4 DEF RunsIn
<1>6. t = [k \in 0 .. Len(s) |-> IF k = 0 THEN a ELSE Take(t[k - 1], keep, s[k], d)]
  <2>1. t = [k \in 0 .. n |-> t[k]]  BY <1>5
  <2>2. \A k \in 0 .. n : t[k] = IF k = 0 THEN a ELSE Take(t[k - 1], keep, s[k], d)
    <3> SUFFICES ASSUME NEW k \in 1 .. n PROVE t[k] = Take(t[k - 1], keep, s[k], d)
      BY <1>5
    <3>1. t[k - 1] \in S  BY <1>2, <1>5
    <3> QED  BY <1>1, <1>5, <3>1
  <2> QED  BY <2>1, <2>2
<1> DEFINE after == CHOOSE h : h = [k \in 0 .. Len(s) |-> IF k = 0 THEN a
                                                         ELSE Take(h[k - 1], keep, s[k], d)]
<1>7. Given(keep, d, a, s) = after[Len(s)]  BY DEF Given, Along
<1>8. after = [k \in 0 .. Len(s) |-> IF k = 0 THEN a ELSE Take(after[k - 1], keep, s[k], d)]
  BY ONLY <1>6
<1> HIDE DEF after
<1>9. after[0] = a /\ \A k \in 1 .. n : after[k] = Take(after[k - 1], keep, s[k], d)
  BY ONLY <1>2, <1>8
<1> DEFINE Good == {k \in 0 .. n : <<k, after[k]>> \in G}
<1>10. 0 \in Good  BY <1>2, <1>9
<1>11. ASSUME NEW k \in 1 .. n, k - 1 \in Good PROVE k \in Good
  <2>1. <<k - 1, after[k - 1]>> \in G /\ after[k - 1] \in S  BY <1>11
  <2> QED  BY <1>9, <2>1
<1> HIDE DEF Good
<1>12. \A k \in 0 .. n : k \in Good  BY ONLY <1>2, <1>10, <1>11, AllAlong
<1>13. n \in Good  BY <1>2, <1>12
<1> USE DEF Good
<1> QED  BY <1>7, <1>13

-----------------------------------------------------------------------------
(* Transforms.                                                             *)

Transforms == [r : {1, -1}, t : Int]

LEMMA TransformTypes ==
  ASSUME NEW f \in Transforms, NEW g \in Transforms
  PROVE  /\ Identity \in Transforms /\ Compose(f, g) \in Transforms
         /\ Between(f, g) \in Transforms /\ Undo(f, g) \in Transforms
         /\ BackToStart(f, g) \in Transforms
  BY DEF Transforms, Identity, Compose, Between, Undo, BackToStart

\* A calibration that reads a device right still does when its correction follows
\* the device's frame.
LEMMA FollowedReads ==
  ASSUME NEW c \in Transforms, NEW n \in Transforms, NEW old \in Transforms,
         NEW new \in Transforms, ReadsRight(c, n, old)
  PROVE  ReadsRight(c, Undo(n, Between(old, new)), new)
<1>1. Compose(Undo(n, Between(old, new)), new) = Compose(n, old)
  BY DEF Transforms, Undo, Between, Compose
<1> QED  BY <1>1 DEF ReadsRight

\* What a run carries back to its start stays where it was.
LEMMA CarriedBack ==
  ASSUME NEW s \in Transforms, NEW old \in Transforms, NEW new \in Transforms
  PROVE  Compose(BackToStart(s, Between(old, new)), new) = Compose(s, old)
  BY DEF Transforms, BackToStart, Between, Compose

\* The calibration of a run reads right on the frame it ended in: as solved, with every
\* correction begun anew; or expressed by the correction of its start, when the
\* target's followed.
LEMMA SolvedReads ==
  ASSUME NEW s \in Transforms, NEW e \in Transforms, NEW n \in Transforms
  PROVE  /\ ReadsRight(CarryCalibration(Solve(Compose(s, e)), s), Identity, e)
         /\ ReadsRight(Solve(Compose(Identity, e)), Identity, e)
         /\ ReadsRight(ExpressCalibration(Solve(Compose(s, e)), n), Compose(n, s), e)
<1> USE ScaleAssumption
<1>1. ReadsRight(CarryCalibration(Solve(Compose(s, e)), s), Identity, e)
  BY DEF Transforms, ReadsRight, CarryCalibration, Solve, Compose, Identity
<1>2. ReadsRight(Solve(Compose(Identity, e)), Identity, e)
  BY DEF Transforms, ReadsRight, Solve, Compose, Identity
<1>3. ReadsRight(ExpressCalibration(Solve(Compose(s, e)), n), Compose(n, s), e)
  BY DEF Transforms, ReadsRight, ExpressCalibration, Solve, Compose
<1> QED  BY <1>1, <1>2, <1>3

\* The calibration measured in a place reads right on what lies there, and there only.
LEMMA SolvedStands ==
  ASSUME NEW p \in Transforms, NEW n \in Transforms, NEW e \in Transforms
  PROVE  Solve(p) \in Transforms /\ (ReadsRight(Solve(p), n, e) <=> Compose(n, e) = p)
<1> USE ScaleAssumption
<1>1. ASSUME NEW a \in Int, NEW b \in Int, -(Scale * a) + Scale * b = 0 PROVE a = b
  <2>1. Scale * (b - a) = 0  BY <1>1
  <2>2. \A k \in Int : Scale * k = 0 => k = 0  OBVIOUS
  <2> QED  BY <2>1, <2>2
<1>2. Solve(p) \in Transforms  BY DEF Transforms, Solve
<1>3. ASSUME NEW f \in Transforms
      PROVE  /\ f.r = p.r /\ f.t = p.t =>
                  p.r * f.r = 1 /\ -(Scale * (p.r * p.t)) + Scale * (p.r * f.t) = 0
             /\ p.r * f.r = 1 => f.r = p.r
             /\ -(Scale * (p.r * p.t)) + Scale * (p.r * f.t) = 0 => f.t = p.t
  <2>1. CASE p.r = 1
    <3>1. p.t \in Int /\ f.t \in Int /\ f.r \in {1, -1}  BY DEF Transforms
    <3>2. -(Scale * p.t) + Scale * f.t = 0 => f.t = p.t  BY <1>1, <3>1
    <3> QED  BY <2>1, <3>1, <3>2
  <2>2. CASE p.r = -1
    <3>1. p.t \in Int /\ f.t \in Int /\ f.r \in {1, -1}  BY DEF Transforms
    <3>2. -(Scale * (-p.t)) + Scale * (-f.t) = 0 => f.t = p.t
      <4>1. -p.t \in Int /\ -f.t \in Int /\ (-p.t = -f.t => f.t = p.t)  BY <3>1
      <4> QED  BY <1>1, <4>1
    <3> QED  BY <2>2, <3>1, <3>2
  <2> QED  BY <2>1, <2>2 DEF Transforms
<1>4. Compose(n, e) \in Transforms  BY TransformTypes
<1> DEFINE f == Compose(n, e)
<1>5. ReadsRight(Solve(p), n, e) <=>
        p.r * f.r = 1 /\ -(Scale * (p.r * p.t)) + Scale * (p.r * f.t) = 0
  BY DEF ReadsRight, Solve
<1>6. f \in Transforms  BY <1>4
<1> HIDE DEF f
<1>7. f.r = p.r /\ f.t = p.t <=> f = p  BY <1>6 DEF Transforms
<1> QED  BY <1>2, <1>3, <1>5, <1>6, <1>7 DEF f

\* A correction that puts a frame where that of the start, carried, does is the carried one.
LEMMA CarriedOnly ==
  ASSUME NEW n \in Transforms, NEW m \in Transforms, NEW s \in Transforms, NEW e \in Transforms,
         Compose(n, e) = Compose(m, Compose(s, e))
  PROVE  n = Compose(m, s)
  BY DEF Transforms, Compose

-----------------------------------------------------------------------------
(* Sequences.                                                              *)

\* SetToSeq lists a finite set, each element once.
LEMMA ListOf ==
  ASSUME NEW S, IsFiniteSet(S)
  PROVE  /\ Len(SetToSeq(S)) \in Nat /\ SetToSeq(S) \in Seq(S)
         /\ \A k \in 1 .. Len(SetToSeq(S)) : SetToSeq(S)[k] \in S
         /\ \A k, l \in 1 .. Len(SetToSeq(S)) : SetToSeq(S)[k] = SetToSeq(S)[l] => k = l
<1> DEFINE n == Cardinality(S)
<1>1. n \in Nat /\ ExistsBijection(1 .. n, S)  BY FS_CardinalityType
<1>2. PICK f \in [1 .. n -> S] : IsInjective(f)
  BY <1>1 DEF ExistsBijection, Bijection, Injection
<1>3. SetToSeq(S) \in [1 .. n -> S] /\ IsInjective(SetToSeq(S))  BY <1>2 DEF SetToSeq
<1> DEFINE s == SetToSeq(S)
<1> HIDE DEF s, n
<1>4. s \in [1 .. n -> S] /\ DOMAIN s = 1 .. n /\ IsInjective(s)  BY <1>3 DEF s, n
<1>5. s \in Seq(S) /\ Len(s) = n  BY <1>1, <1>4
<1>6. \A k, l \in 1 .. n : s[k] = s[l] => k = l  BY <1>4 DEF IsInjective
<1> QED  BY <1>1, <1>4, <1>5, <1>6 DEF s

LEMMA InsertedAt ==
  ASSUME NEW S, NEW s \in Seq(S), NEW k \in 1 .. Len(s) + 1, NEW e \in S
  PROVE  /\ InsertAt(s, k, e) \in Seq(S) /\ Len(InsertAt(s, k, e)) = Len(s) + 1
         /\ \A i \in 1 .. Len(s) + 1 :
              InsertAt(s, k, e)[i] = IF i < k THEN s[i] ELSE IF i = k THEN e ELSE s[i - 1]
<1> DEFINE front == SubSeq(s, 1, k - 1)
           back == SubSeq(s, k, Len(s))
<1>1. /\ front \in Seq(S) /\ Len(front) = k - 1
      /\ \A i \in 1 .. k - 1 : front[i] = s[i]
  OBVIOUS
<1>2. /\ back \in Seq(S) /\ Len(back) = Len(s) + 1 - k
      /\ \A i \in 1 .. Len(s) + 1 - k : back[i] = s[k + i - 1]
  OBVIOUS
<1> HIDE DEF front, back
<1> DEFINE head == front \o <<e>>
<1>3. /\ head \in Seq(S) /\ Len(head) = k
      /\ \A i \in 1 .. k : head[i] = IF i < k THEN s[i] ELSE e
  BY <1>1
<1> HIDE DEF head
<1>4. /\ head \o back \in Seq(S) /\ Len(head \o back) = Len(s) + 1
      /\ \A i \in 1 .. Len(s) + 1 :
           (head \o back)[i] = IF i <= k THEN head[i] ELSE back[i - k]
  <2>1. Len(head) + Len(back) = Len(s) + 1  BY <1>2, <1>3
  <2>2. head \o back \in Seq(S) /\ Len(head \o back) = Len(head) + Len(back)
    BY ONLY <1>2, <1>3
  <2>3. \A i \in 1 .. Len(head) + Len(back) :
          (head \o back)[i] = IF i <= Len(head) THEN head[i] ELSE back[i - Len(head)]
    BY ONLY <1>2, <1>3
  <2> QED  BY ONLY <1>3, <2>1, <2>2, <2>3
<1>5. \A i \in 1 .. Len(s) + 1 : i > k => back[i - k] = s[i - 1]
  BY <1>2
<1>6. InsertAt(s, k, e) = head \o back  BY DEF InsertAt, head, front, back
<1> QED  BY <1>3, <1>4, <1>5, <1>6

-----------------------------------------------------------------------------
(* The order of moves.                                                     *)

Frames == [station : Stations, err : Transforms]
Moves == [dev : Trackers, time : Nat, setup : BOOLEAN, f : Transforms]

\* No device has two moves of one time.
Apart(s) ==
  \A k, l \in 1 .. Len(s) : k # l /\ s[k].dev = s[l].dev => s[k].time # s[l].time

\* q holds the first k moves of s in the order of their times.
InOrder(q, s, k) ==
  /\ q \in Seq(Moves)
  /\ \A i \in 1 .. Len(q) : \E l \in 1 .. k : q[i] = s[l]
  /\ \A l \in 1 .. k : \E i \in 1 .. Len(q) : q[i] = s[l]
  /\ \A i, j \in 1 .. Len(q) : i < j => q[i].time <= q[j].time
  /\ Apart(s) => Apart(q)

LEMMA InsertPlace ==
  ASSUME NEW q \in Seq(Moves), NEW m \in Moves,
         \A i, j \in 1 .. Len(q) : i < j => q[i].time <= q[j].time
  PROVE  \E p \in 1 .. Len(q) + 1 :
           /\ Insert(q, m) = InsertAt(q, p, m)
           /\ \A i \in 1 .. Len(q) : IF i < p THEN q[i].time <= m.time ELSE m.time < q[i].time
<1> DEFINE later == {i \in DOMAIN q : m.time < q[i].time}
<1>0. DOMAIN q = 1 .. Len(q) /\ Len(q) \in Nat /\ \A i \in 1 .. Len(q) : q[i] \in Moves
  OBVIOUS
<1>1. /\ DOMAIN q = 1 .. Len(q) /\ Len(q) \in Nat /\ m.time \in Nat
      /\ \A i \in 1 .. Len(q) : q[i].time \in Nat
  BY ONLY <1>0, m \in Moves DEF Moves
<1>2. CASE later = {}
  <2>1. Insert(q, m) = InsertAt(q, Len(q) + 1, m)  BY <1>2 DEF Insert
  <2>2. \A i \in 1 .. Len(q) : q[i].time <= m.time  BY <1>1, <1>2
  <2> QED  BY <1>1, <2>1, <2>2
<1>3. CASE later # {}
  <2>1. Insert(q, m) = InsertAt(q, Min(later), m)  BY <1>3 DEF Insert
  <2>2. later \in SUBSET Nat  BY <1>1
  <2>3. \E x \in later : \A y \in later : x <= y  BY <1>3, <2>2, LeastOf
  <2>4. Min(later) \in later /\ \A y \in later : Min(later) <= y  BY <2>3 DEF Min
  <2> DEFINE p == Min(later)
  <2>5. p \in 1 .. Len(q) /\ m.time < q[p].time /\ p \in Nat  BY <1>1, <2>4
  <2>8. \A y \in 1 .. Len(q) : m.time < q[y].time => p <= y  BY <1>1, <2>4
  <2> HIDE DEF p
  <2>6. ASSUME NEW i \in 1 .. Len(q), i < p PROVE q[i].time <= m.time
    BY ONLY <1>1, <2>5, <2>6, <2>8
  <2>7. ASSUME NEW i \in 1 .. Len(q), ~(i < p) PROVE m.time < q[i].time
    <3>1. CASE i = p  BY <2>5, <3>1
    <3>2. CASE i # p
      <4>1. p < i /\ q[p].time <= q[i].time  BY <1>1, <2>5, <2>7, <3>2
      <4> QED  BY <1>1, <2>5, <4>1
    <3> QED  BY <3>1, <3>2
  <2>9. Insert(q, m) = InsertAt(q, p, m) /\ p \in 1 .. Len(q) + 1  BY <1>1, <2>1, <2>5 DEF p
  <2> QED  BY ONLY <2>6, <2>7, <2>9
<1> QED  BY <1>2, <1>3

LEMMA InsertOrders ==
  ASSUME NEW s \in Seq(Moves), NEW k \in 1 .. Len(s), NEW q, InOrder(q, s, k - 1)
  PROVE  InOrder(Insert(q, s[k]), s, k)
<1> DEFINE m == s[k]
<1>1. /\ q \in Seq(Moves) /\ Len(q) \in Nat /\ m \in Moves /\ Len(s) \in Nat
      /\ k \in Nat /\ 1 <= k /\ k <= Len(s)
      /\ \A i \in 1 .. Len(q) : q[i].time \in Nat
      /\ m.time \in Nat
      /\ \A i \in 1 .. Len(q) : \E l \in 1 .. k - 1 : q[i] = s[l]
      /\ \A l \in 1 .. k - 1 : \E i \in 1 .. Len(q) : q[i] = s[l]
      /\ \A i, j \in 1 .. Len(q) : i < j => q[i].time <= q[j].time
      /\ Apart(s) => Apart(q)
  <2>1. m \in Moves /\ Len(s) \in Nat /\ k \in Nat /\ 1 <= k /\ k <= Len(s)  OBVIOUS
  <2>2. /\ q \in Seq(Moves)
        /\ \A i \in 1 .. Len(q) : \E l \in 1 .. k - 1 : q[i] = s[l]
        /\ \A l \in 1 .. k - 1 : \E i \in 1 .. Len(q) : q[i] = s[l]
        /\ \A i, j \in 1 .. Len(q) : i < j => q[i].time <= q[j].time
        /\ Apart(s) => Apart(q)
    BY DEF InOrder
  <2>3. Len(q) \in Nat /\ \A i \in 1 .. Len(q) : q[i] \in Moves  BY ONLY <2>2
  <2>4. m.time \in Nat /\ \A i \in 1 .. Len(q) : q[i].time \in Nat
    BY ONLY <2>1, <2>3 DEF Moves
  <2> HIDE DEF m
  <2> QED  BY ONLY <2>1, <2>2, <2>3, <2>4
<1>8. m = s[k]  OBVIOUS
<1> HIDE DEF m
<1>2. PICK p \in 1 .. Len(q) + 1 :
           /\ Insert(q, m) = InsertAt(q, p, m)
           /\ \A i \in 1 .. Len(q) : IF i < p THEN q[i].time <= m.time ELSE m.time < q[i].time
  BY ONLY <1>1, InsertPlace
<1>9. p \in Nat /\ 1 <= p /\ p <= Len(q) + 1  BY <1>1, <1>2
<1> DEFINE n == Insert(q, m)
<1>3. /\ n \in Seq(Moves) /\ Len(n) = Len(q) + 1
      /\ \A i \in 1 .. Len(q) + 1 :
           n[i] = IF i < p THEN q[i] ELSE IF i = p THEN m ELSE q[i - 1]
  <2>1. /\ InsertAt(q, p, m) \in Seq(Moves) /\ Len(InsertAt(q, p, m)) = Len(q) + 1
        /\ \A i \in 1 .. Len(q) + 1 :
             InsertAt(q, p, m)[i] = IF i < p THEN q[i] ELSE IF i = p THEN m ELSE q[i - 1]
    <3>1. q \in Seq(Moves) /\ m \in Moves /\ p \in 1 .. Len(q) + 1  BY <1>1
    <3> QED  BY ONLY <3>1, InsertedAt
  <2> QED  BY ONLY <1>2, <2>1
<1> HIDE DEF n
<1>4. ASSUME NEW i \in 1 .. Len(n) PROVE \E l \in 1 .. k : n[i] = s[l]
  <2>1. CASE i < p
    <3>1. i \in 1 .. Len(q) /\ n[i] = q[i]  BY <1>1, <1>2, <1>3, <2>1
    <3>2. PICK l \in 1 .. k - 1 : q[i] = s[l]  BY <1>1, <3>1
    <3> QED  BY <1>1, <3>1, <3>2
  <2>2. CASE i = p  BY <1>1, <1>3, <1>8, <2>2
  <2>3. CASE i > p
    <3>1. i - 1 \in 1 .. Len(q) /\ n[i] = q[i - 1]  BY <1>1, <1>2, <1>3, <2>3
    <3>2. PICK l \in 1 .. k - 1 : q[i - 1] = s[l]  BY <1>1, <3>1
    <3> QED  BY <1>1, <3>1, <3>2
  <2> QED  BY <2>1, <2>2, <2>3
<1>5. ASSUME NEW l \in 1 .. k PROVE \E i \in 1 .. Len(n) : n[i] = s[l]
  <2>1. CASE l = k
    <3>1. p \in 1 .. Len(n) /\ n[p] = m  BY <1>1, <1>2, <1>3
    <3> QED  BY <1>8, <2>1, <3>1
  <2>2. CASE l # k
    <3>0. l \in 1 .. k - 1  BY <1>1, <2>2
    <3>1. PICK i \in 1 .. Len(q) : q[i] = s[l]  BY <1>1, <3>0
    <3>2. CASE i < p
      <4>2. i \in 1 .. Len(q) + 1 /\ i < p  BY <1>1, <3>2
      <4>1. i \in 1 .. Len(n) /\ n[i] = q[i]  BY ONLY <1>3, <4>2
      <4> QED  BY <3>1, <4>1
    <3>3. CASE ~(i < p)
      <4>2. i + 1 \in 1 .. Len(q) + 1 /\ ~(i + 1 < p) /\ i + 1 # p /\ (i + 1) - 1 = i
        BY <1>1, <1>2, <3>3
      <4>1. i + 1 \in 1 .. Len(n) /\ n[i + 1] = q[i]  BY ONLY <1>3, <4>2
      <4> QED  BY <3>1, <4>1
    <3> QED  BY <3>2, <3>3
  <2> QED  BY <2>1, <2>2
<1>6. ASSUME NEW i \in 1 .. Len(n), NEW j \in 1 .. Len(n), i < j
      PROVE  n[i].time <= n[j].time
  <2>1. \A x \in 1 .. Len(q) : q[x].time \in Nat  BY <1>1
  <2>2. m.time \in Nat  BY <1>1
  <2>3. CASE j < p
    <3>1. i \in 1 .. Len(q) /\ j \in 1 .. Len(q) /\ n[i] = q[i] /\ n[j] = q[j]
      BY <1>1, <1>2, <1>3, <1>6, <2>3
    <3> QED  BY <1>1, <1>6, <3>1
  <2>4. CASE j = p
    <3>2. i \in 1 .. Len(q) + 1 /\ i < p /\ i \in 1 .. Len(q)
      BY ONLY <1>1, <1>3, <1>6, <1>9, <2>4, i \in 1 .. Len(n)
    <3>1. i \in 1 .. Len(q) /\ n[i] = q[i] /\ n[j] = m  BY ONLY <1>3, <2>4, <3>2, j \in 1 .. Len(n)
    <3> QED  BY <1>2, <1>6, <2>4, <3>1
  <2>5. CASE j > p
    <3>6. j \in 1 .. Len(q) + 1 /\ j \in Nat  BY <1>1, <1>3
    <3>7. n[j] = q[j - 1]  BY ONLY <1>3, <1>9, <2>5, <3>6
    <3>8. j - 1 \in 1 .. Len(q) /\ ~(j - 1 < p)  BY ONLY <1>1, <1>9, <2>5, <3>6
    <3>1. j - 1 \in 1 .. Len(q) /\ n[j] = q[j - 1] /\ ~(j - 1 < p)  BY <3>7, <3>8
    <3>2. m.time < q[j - 1].time  BY <1>2, <3>1
    <3>3. CASE i = p  BY <1>3, <2>1, <2>2, <3>1, <3>2, <3>3
    <3>4. CASE i < p
      <4>1. i \in 1 .. Len(q) /\ n[i] = q[i] /\ i < j - 1  BY <1>1, <1>2, <1>3, <2>5, <3>4
      <4> QED  BY ONLY <1>1, <3>1, <4>1
    <3>5. CASE i > p
      <4>1. i - 1 \in 1 .. Len(q) /\ n[i] = q[i - 1] /\ i - 1 < j - 1
        BY <1>1, <1>2, <1>3, <1>6, <3>5
      <4> QED  BY ONLY <1>1, <3>1, <4>1
    <3> QED  BY <3>3, <3>4, <3>5
  <2> QED  BY <2>3, <2>4, <2>5
<1>7. ASSUME Apart(s) PROVE Apart(n)
  <2>1. Apart(q)  BY <1>1, <1>7
  <2>2. ASSUME NEW x \in 1 .. Len(q) PROVE ~(q[x].dev = m.dev /\ q[x].time = m.time)
    <3>1. PICK l \in 1 .. k - 1 : q[x] = s[l]  BY <1>1
    <3>2. l \in 1 .. Len(s) /\ l # k  OBVIOUS
    <3> QED  BY <1>7, <1>8, <3>1, <3>2 DEF Apart
  <2> DEFINE old(i) == IF i < p THEN i ELSE i - 1
  <2>3. ASSUME NEW i \in 1 .. Len(n), i # p
        PROVE  old(i) \in 1 .. Len(q) /\ n[i] = q[old(i)]
    <3>1. i \in 1 .. Len(q) + 1 /\ i \in Nat  BY <1>1, <1>3
    <3>2. n[i] = q[old(i)]  BY <1>3, <2>3, <3>1
    <3>3. old(i) \in 1 .. Len(q)  BY ONLY <1>1, <1>9, <2>3, <3>1
    <3> QED  BY <3>2, <3>3
  <2>4. \A i, j \in 1 .. Len(n) : i # p /\ j # p /\ i # j => old(i) # old(j)
    BY ONLY <1>1, <1>3, <1>9
  <2>5. n[p] = m  BY <1>1, <1>2, <1>3
  <2> HIDE DEF old
  <2>6. ASSUME NEW i \in 1 .. Len(n), NEW j \in 1 .. Len(n), i # j, n[i].dev = n[j].dev
        PROVE  n[i].time # n[j].time
    <3>1. CASE i = p  BY <2>2, <2>3, <2>5, <2>6, <3>1
    <3>2. CASE j = p  BY <2>2, <2>3, <2>5, <2>6, <3>2
    <3>3. CASE i # p /\ j # p
      <4>1. old(i) \in 1 .. Len(q) /\ n[i] = q[old(i)]  BY <2>3, <3>3
      <4>2. old(j) \in 1 .. Len(q) /\ n[j] = q[old(j)]  BY <2>3, <3>3
      <4>3. old(i) # old(j)  BY <2>4, <2>6, <3>3
      <4>4. q[old(i)].dev = q[old(j)].dev  BY <2>6, <4>1, <4>2
      <4> QED  BY ONLY <2>1, <4>1, <4>2, <4>3, <4>4 DEF Apart
    <3> QED  BY <3>1, <3>2, <3>3
  <2> QED  BY <2>6 DEF Apart
<1>10. InOrder(n, s, k)
  BY ONLY <1>3, <1>4, <1>5, <1>6, <1>7 DEF InOrder
<1> QED  BY ONLY <1>8, <1>10 DEF n

LEMMA MovesInOrder ==
  ASSUME NEW s \in Seq(Moves)
  PROVE  InOrder(Along(Insert, <<>>, s), s, Len(s))
<1> DEFINE n == Len(s)
           G == {p \in (0 .. n) \X Seq(Moves) : InOrder(p[2], s, p[1])}
<1>1. n \in Nat  OBVIOUS
<1>2. <<0, <<>>>> \in G
  <2>1. InOrder(<<>>, s, 0)  BY DEF InOrder, Apart
  <2>2. 0 \in 0 .. n /\ <<>> \in Seq(Moves)  BY <1>1
  <2>3. <<0, <<>>>>[1] = 0 /\ <<0, <<>>>>[2] = <<>>  OBVIOUS
  <2> QED  BY ONLY <2>1, <2>2, <2>3
<1>3. ASSUME NEW k \in 1 .. n, NEW x \in Seq(Moves), <<k - 1, x>> \in G
      PROVE  <<k, Insert(x, s[k])>> \in G
  <2>0. k - 1 \in 0 .. n /\ <<k - 1, x>>[1] = k - 1 /\ <<k - 1, x>>[2] = x  BY <1>1
  <2>1. InOrder(x, s, k - 1)  BY <1>3, <2>0
  <2>2. InOrder(Insert(x, s[k]), s, k)  BY <2>1, InsertOrders
  <2>3. Insert(x, s[k]) \in Seq(Moves)  BY <2>2 DEF InOrder
  <2> QED  BY <1>1, <2>2, <2>3
<1>4. G \in SUBSET ((0 .. n) \X Seq(Moves))  OBVIOUS
<1> HIDE DEF G
<1>5. <<n, Along(Insert, <<>>, s)>> \in G  BY <1>1, <1>2, <1>3, <1>4, InsertKeeps
<1> USE DEF G
<1> QED  BY <1>5

-----------------------------------------------------------------------------
(* The watch, sample by sample.                                            *)

Seen == [at : {"here", "away", "apart"}, frame : Frames, mark : Nat]
Changes == [time : Nat \ {0}, setup : BOOLEAN, since : Nat, from : Frames, to : Frames,
            returned : BOOLEAN]
Causes == {"appeared", "re-expressed", "returned", "own jump"}
Switches == [dev : Trackers, time : Nat, cause : Causes]
Watches == [dev : [Trackers \cup Stations -> Seen \cup {Unseen}],
            known : Seq([from : Frames, to : Frames]),
            waiting : [Trackers -> Changes \cup {Nothing}], moves : Seq(Moves),
            switches : Seq(Switches), dropped : SUBSET Trackers]
Samples == [dev : Trackers \cup Stations, time : Nat \ {0}, frame : Frames, smooth : BOOLEAN,
            tracks : BOOLEAN, setup : BOOLEAN]

LEMMA Distinct == Nothing \notin Changes /\ Unseen \notin Seen /\ Nothing \notin Frames
<1>1. Nothing \notin Changes  BY DEF Nothing, Changes
<1>2. Unseen \notin Seen
  <2>1. Unseen.at = "unseen"  BY DEF Unseen
  <2>2. \A x \in Seen : x.at # "unseen"  BY DEF Seen
  <2> QED  BY <2>1, <2>2
<1>3. Nothing \notin Frames
  <2>1. DOMAIN Nothing = {"time"}  BY DEF Nothing
  <2>2. \A x \in Frames : DOMAIN x = {"station", "err"}  BY DEF Frames
  <2> QED  BY <2>1, <2>2
<1> QED  BY <1>1, <1>2, <1>3

\* What was read by `now', each change of a device at a time of its own.
Timely(w, now) ==
  /\ Apart(w.moves)
  /\ \A i \in 1 .. Len(w.moves) : 0 < w.moves[i].time /\ w.moves[i].time <= now
  /\ \A d \in Trackers : w.waiting[d] # Nothing =>
       /\ w.waiting[d].time <= now
       /\ \A i \in 1 .. Len(w.moves) : w.moves[i].dev = d => w.moves[i].time # w.waiting[d].time

Event(w, d, t) ==
  \/ \E i \in 1 .. Len(w.moves) : w.moves[i].dev = d /\ w.moves[i].time = t
  \/ w.waiting[d] # Nothing /\ w.waiting[d].time = t

\* g says where the frame of d stood at each time, up to cur since now: it moves with the
\* moves handed out and the change that waits, and stays between them.
Chain(w, d, g, now, cur) ==
  /\ \A i \in 1 .. Len(w.moves) : w.moves[i].dev = d =>
       w.moves[i].f = Between(g[w.moves[i].time - 1], g[w.moves[i].time])
  /\ w.waiting[d] # Nothing =>
       /\ g[w.waiting[d].time - 1] = w.waiting[d].from.err
       /\ g[w.waiting[d].time] = w.waiting[d].to.err
  /\ \A a, b \in Nat : a <= b /\ (\A t \in Nat : a < t /\ t <= b => ~Event(w, d, t)) => g[a] = g[b]
  /\ \A a \in Nat : now <= a => g[a] = cur

Histories == [Nat -> Transforms]

\* h says of the times up to now what g does.
Extends(h, g, now) == \A a \in 0 .. now : h[a] = g[a]

LEMMA ExtendsSelf == \A g, now : Extends(g, g, now)
  BY DEF Extends

\* What x hands out and has waiting says no less than what w did.
Carries(w, x, now) ==
  /\ x \in Watches /\ Timely(x, now)
  /\ x.dev = w.dev /\ x.switches = w.switches /\ x.dropped = w.dropped
  /\ \A e \in Trackers, g \in Histories, cur \in Transforms :
       Chain(w, e, g, now, cur) => Chain(x, e, g, now, cur)

LEMMA WaitingChange ==
  ASSUME NEW w \in Watches, NEW d \in Trackers, w.waiting[d] # Nothing
  PROVE  /\ w.waiting[d] \in Changes /\ w.waiting[d].time \in Nat \ {0}
         /\ w.waiting[d].setup \in BOOLEAN
         /\ w.waiting[d].from.err \in Transforms /\ w.waiting[d].to.err \in Transforms
<1>1. w.waiting[d] \in Changes  BY DEF Watches
<1> QED  BY <1>1 DEF Changes, Frames

\* A waiting change handed out as a move.
LEMMA ResolveCarries ==
  ASSUME NEW w \in Watches, NEW d \in Trackers, w.waiting[d] # Nothing,
         NEW now \in Nat, Timely(w, now)
  PROVE  /\ Carries(w, Resolve(w, d), now)
         /\ Resolve(w, d).waiting = [w.waiting EXCEPT ![d] = Nothing]
<1> DEFINE c == w.waiting[d]
           m == [dev |-> d, time |-> c.time, setup |-> c.setup, f |-> Between(c.from.err, c.to.err)]
           x == Resolve(w, d)
<1>1. /\ c \in Changes /\ c.time \in Nat \ {0} /\ c.setup \in BOOLEAN
      /\ c.from.err \in Transforms /\ c.to.err \in Transforms
  BY WaitingChange
<1>2. m \in Moves
  <2>1. Between(c.from.err, c.to.err) \in Transforms  BY <1>1, TransformTypes
  <2> QED  BY <1>1, <2>1 DEF Moves
<1>3. /\ x.dev = w.dev /\ x.known = w.known /\ x.switches = w.switches /\ x.dropped = w.dropped
      /\ x.moves = Append(w.moves, m) /\ x.waiting = [w.waiting EXCEPT ![d] = Nothing]
      /\ x = [w EXCEPT !.moves = Append(w.moves, m), !.waiting = [w.waiting EXCEPT ![d] = Nothing]]
  BY DEF Resolve, Hand, Watches
<1>4. m.dev = d /\ m.time = c.time /\ m.f = Between(c.from.err, c.to.err)  OBVIOUS
<1>5. w.moves \in Seq(Moves) /\ w.waiting \in [Trackers -> Changes \cup {Nothing}]  BY DEF Watches
<1>6. c # Nothing /\ c = w.waiting[d]  OBVIOUS
<1> HIDE DEF m, x, c
<1>7. x \in Watches
  <2>1. Append(w.moves, m) \in Seq(Moves)  BY <1>2, <1>5
  <2>2. [w.waiting EXCEPT ![d] = Nothing] \in [Trackers -> Changes \cup {Nothing}]  BY <1>5
  <2> QED  BY <1>3, <2>1, <2>2 DEF Watches
<1> DEFINE n == Len(w.moves)
<1>8. /\ n \in Nat /\ Len(x.moves) = n + 1 /\ x.moves[n + 1] = m
      /\ \A i \in 1 .. n : x.moves[i] = w.moves[i] /\ w.moves[i] \in Moves
  BY <1>2, <1>3, <1>5
<1>9. /\ x.waiting[d] = Nothing
      /\ \A e \in Trackers \ {d} : x.waiting[e] = w.waiting[e]
  BY <1>3, <1>5
<1> HIDE DEF n
<1>10. \A i \in 1 .. n + 1 : i \in 1 .. n \/ i = n + 1  BY <1>8
<1>11. /\ Apart(w.moves)
       /\ \A i \in 1 .. n : 0 < w.moves[i].time /\ w.moves[i].time <= now
       /\ c.time <= now /\ \A i \in 1 .. n : w.moves[i].dev = d => w.moves[i].time # c.time
  BY <1>6 DEF Timely, n
<1>12. Timely(x, now)
  <2>1. Apart(x.moves)
    <3> SUFFICES ASSUME NEW k \in 1 .. n + 1, NEW l \in 1 .. n + 1, k # l,
                        x.moves[k].dev = x.moves[l].dev
                 PROVE  x.moves[k].time # x.moves[l].time
      BY <1>8 DEF Apart
    <3>1. CASE k = n + 1
      <4>1. l \in 1 .. n  BY <1>10, <3>1
      <4> QED  BY <1>4, <1>8, <1>11, <3>1, <4>1
    <3>2. CASE l = n + 1
      <4>1. k \in 1 .. n  BY <1>10, <3>2
      <4> QED  BY <1>4, <1>8, <1>11, <3>2, <4>1
    <3>3. CASE k \in 1 .. n /\ l \in 1 .. n  BY <1>8, <1>11, <3>3 DEF Apart, n
    <3> QED  BY <1>10, <3>1, <3>2, <3>3
  <2>2. \A i \in 1 .. n + 1 : 0 < x.moves[i].time /\ x.moves[i].time <= now
    BY <1>1, <1>4, <1>8, <1>10, <1>11
  <2>3. ASSUME NEW e \in Trackers, x.waiting[e] # Nothing
        PROVE  /\ x.waiting[e].time <= now
               /\ \A i \in 1 .. n + 1 : x.moves[i].dev = e => x.moves[i].time # x.waiting[e].time
    <3>1. e # d /\ x.waiting[e] = w.waiting[e] /\ w.waiting[e] # Nothing  BY <1>9, <2>3
    <3>2. w.waiting[e].time <= now /\ \A i \in 1 .. n :
            w.moves[i].dev = e => w.moves[i].time # w.waiting[e].time
      BY <3>1 DEF Timely, n
    <3> QED  BY <1>4, <1>8, <1>10, <3>1, <3>2
  <2> QED  BY <1>8, <2>1, <2>2, <2>3 DEF Timely
<1>13. \A e \in Trackers, t \in Nat : Event(x, e, t) <=> Event(w, e, t)
  <2> SUFFICES ASSUME NEW e \in Trackers, NEW t \in Nat PROVE Event(x, e, t) <=> Event(w, e, t)
    OBVIOUS
  <2>1. ASSUME Event(x, e, t) PROVE Event(w, e, t)
    <3>1. CASE x.waiting[e] # Nothing /\ x.waiting[e].time = t  BY <1>9, <3>1 DEF Event
    <3>2. CASE \E i \in 1 .. n + 1 : x.moves[i].dev = e /\ x.moves[i].time = t
      <4>1. PICK i \in 1 .. n + 1 : x.moves[i].dev = e /\ x.moves[i].time = t  BY <3>2
      <4>2. CASE i \in 1 .. n  BY <1>8, <4>1, <4>2 DEF Event, n
      <4>3. CASE i = n + 1  BY <1>4, <1>6, <1>8, <4>1, <4>3 DEF Event
      <4> QED  BY <1>10, <4>2, <4>3
    <3> QED  BY <1>8, <2>1, <3>1, <3>2 DEF Event
  <2>2. ASSUME Event(w, e, t) PROVE Event(x, e, t)
    <3>1. CASE \E i \in 1 .. n : w.moves[i].dev = e /\ w.moves[i].time = t
      <4>1. PICK i \in 1 .. n : w.moves[i].dev = e /\ w.moves[i].time = t  BY <3>1
      <4>2. i \in 1 .. Len(x.moves) /\ x.moves[i].dev = e /\ x.moves[i].time = t
        BY <1>8, <4>1
      <4> QED  BY <4>2 DEF Event
    <3>2. CASE w.waiting[e] # Nothing /\ w.waiting[e].time = t
      <4>1. CASE e = d
        <5>1. n + 1 \in 1 .. Len(x.moves) /\ x.moves[n + 1].dev = e /\ x.moves[n + 1].time = t
          BY <1>4, <1>6, <1>8, <3>2, <4>1
        <5> QED  BY <5>1 DEF Event
      <4>2. CASE e # d  BY <1>9, <3>2, <4>2 DEF Event
      <4> QED  BY <4>1, <4>2
    <3> QED  BY <2>2, <3>1, <3>2 DEF Event, n
  <2> QED  BY <2>1, <2>2
<1>14. ASSUME NEW e \in Trackers, NEW g \in Histories, NEW cur \in Transforms,
              Chain(w, e, g, now, cur)
       PROVE  Chain(x, e, g, now, cur)
  <2>1. ASSUME NEW i \in 1 .. n + 1, x.moves[i].dev = e
        PROVE  x.moves[i].f = Between(g[x.moves[i].time - 1], g[x.moves[i].time])
    <3>1. CASE i \in 1 .. n  BY <1>8, <1>14, <2>1, <3>1 DEF Chain, n
    <3>2. CASE i = n + 1
      <4>1. e = d /\ x.moves[i] = m  BY <1>4, <1>8, <2>1, <3>2
      <4>2. g[c.time - 1] = c.from.err /\ g[c.time] = c.to.err  BY <1>6, <1>14, <4>1 DEF Chain
      <4> QED  BY <1>4, <4>1, <4>2
    <3> QED  BY <1>10, <3>1, <3>2
  <2>2. ASSUME x.waiting[e] # Nothing
        PROVE  /\ g[x.waiting[e].time - 1] = x.waiting[e].from.err
               /\ g[x.waiting[e].time] = x.waiting[e].to.err
    <3>1. x.waiting[e] = w.waiting[e]  BY <1>9, <2>2
    <3> QED  BY <1>14, <2>2, <3>1 DEF Chain
  <2>3. ASSUME NEW a \in Nat, NEW b \in Nat, a <= b,
               \A t \in Nat : a < t /\ t <= b => ~Event(x, e, t)
        PROVE  g[a] = g[b]
    <3>1. \A t \in Nat : a < t /\ t <= b => ~Event(w, e, t)  BY <1>13, <2>3
    <3> QED  BY <1>14, <2>3, <3>1 DEF Chain
  <2>4. \A a \in Nat : now <= a => g[a] = cur  BY <1>14 DEF Chain
  <2> QED  BY <1>8, <2>1, <2>2, <2>3, <2>4 DEF Chain
<1> QED  BY <1>3, <1>7, <1>12, <1>14 DEF Carries, x

LEMMA CarriesOn ==
  ASSUME NEW w, NEW x, NEW y, NEW now, Carries(w, x, now), Carries(x, y, now)
  PROVE  Carries(w, y, now)
  BY DEF Carries

\* A transition reported: whatever it leads to is handed out.
LEMMA AddCarries ==
  ASSUME NEW w \in Watches, NEW from \in Frames, NEW to \in Frames,
         NEW now \in Nat, Timely(w, now)
  PROVE  Carries(w, AddTransition(w, from, to), now)
<1> DEFINE next == [w EXCEPT !.known = Append(@, [from |-> from, to |-> to])]
           led == {d \in Trackers : next.waiting[d] # Nothing /\ Leads(next.known, next.waiting[d])}
           s == SetToSeq(led)
           n == Len(s)
<1>1. CASE \E i \in DOMAIN w.known : w.known[i] = [from |-> from, to |-> to]
  <2>1. AddTransition(w, from, to) = w  BY <1>1 DEF AddTransition
  <2> QED  BY <2>1 DEF Carries
<1>2. CASE ~\E i \in DOMAIN w.known : w.known[i] = [from |-> from, to |-> to]
  <2>1. AddTransition(w, from, to) = Along(Resolve, next, s)  BY <1>2 DEF AddTransition
  <2>2. /\ next \in Watches /\ next.moves = w.moves /\ next.waiting = w.waiting
        /\ next.dev = w.dev /\ next.switches = w.switches /\ next.dropped = w.dropped
    <3>1. Append(w.known, [from |-> from, to |-> to]) \in Seq([from : Frames, to : Frames])
      BY DEF Watches
    <3> QED  BY <3>1 DEF Watches
  <2>3. Timely(next, now)  BY <2>2 DEF Timely
  <2>4. Carries(w, next, now)
    <3> HIDE DEF next
    <3>1. ASSUME NEW e \in Trackers, NEW g \in Histories, NEW cur \in Transforms,
                 Chain(w, e, g, now, cur)
          PROVE  Chain(next, e, g, now, cur)
      BY <2>2, <3>1 DEF Chain, Event
    <3> QED  BY <2>2, <2>3, <3>1 DEF Carries
  <2>5. Carries(next, next, now)  BY <2>2, <2>3 DEF Carries
  <2>6. IsFiniteSet(led) /\ \A d \in led : d \in Trackers /\ next.waiting[d] # Nothing
    BY DevicesAssumption, FS_Subset
  <2> HIDE DEF led, next
  <2>7. /\ n \in Nat /\ \A k \in 1 .. n : s[k] \in led
        /\ \A k, l \in 1 .. n : s[k] = s[l] => k = l
    BY <2>6, ListOf
  <2> HIDE DEF s
  <2> DEFINE P(k, x) == Carries(next, x, now) /\ \A l \in 1 .. n : k < l => x.waiting[s[l]] # Nothing
             G == {p \in (0 .. n) \X Watches : P(p[1], p[2])}
  <2>8. P(0, next)  BY <2>5, <2>6, <2>7
  <2>9. ASSUME NEW k \in 1 .. n, NEW x \in Watches, P(k - 1, x)
        PROVE  Resolve(x, s[k]) \in Watches /\ P(k, Resolve(x, s[k]))
    <3>1. s[k] \in Trackers /\ x.waiting[s[k]] # Nothing /\ Timely(x, now)
      BY <2>6, <2>7, <2>9 DEF Carries
    <3>2. /\ Carries(x, Resolve(x, s[k]), now)
          /\ Resolve(x, s[k]).waiting = [x.waiting EXCEPT ![s[k]] = Nothing]
      BY <3>1, ResolveCarries
    <3>3. Carries(next, Resolve(x, s[k]), now)  BY <2>9, <3>2, CarriesOn
    <3>4. ASSUME NEW l \in 1 .. n, k < l PROVE Resolve(x, s[k]).waiting[s[l]] # Nothing
      <4>1. x.waiting \in [Trackers -> Changes \cup {Nothing}]  BY DEF Watches
      <4>2. s[l] # s[k] /\ s[l] \in Trackers  BY <2>6, <2>7, <3>4
      <4>3. x.waiting[s[l]] # Nothing  BY <2>7, <2>9, <3>4
      <4> QED  BY <3>2, <4>1, <4>2, <4>3
    <3> QED  BY <3>2, <3>3, <3>4 DEF Carries
  <2> HIDE DEF P
  <2>10. <<0, next>> \in G  BY <2>2, <2>7, <2>8
  <2>11. ASSUME NEW k \in 1 .. n, NEW x \in Watches, <<k - 1, x>> \in G
         PROVE  <<k, Resolve(x, s[k])>> \in G
    <3>1. P(k - 1, x)  BY <2>11
    <3> QED  BY <2>9, <3>1
  <2>12. G \in SUBSET ((0 .. n) \X Watches)  OBVIOUS
  <2> HIDE DEF G
  <2>17. n \in Nat /\ <<0, next>> \in G  BY <2>7, <2>10
  <2>18. \A k \in 1 .. n, x \in Watches : <<k - 1, x>> \in G => <<k, Resolve(x, s[k])>> \in G
    BY <2>11
  <2>13. <<n, Along(Resolve, next, s)>> \in G
    BY ONLY <2>12, <2>17, <2>18, ResolveKeeps
  <2> DEFINE y == Along(Resolve, next, s)
  <2>14. <<n, y>> \in G  BY <2>13
  <2> HIDE DEF y
  <2>15. P(n, y)  BY <2>14 DEF G
  <2>16. Carries(w, y, now)  BY <2>4, <2>15, CarriesOn DEF P
  <2> QED  BY <2>1, <2>16 DEF y
<1> QED  BY <1>1, <1>2

\* A tracker whose frame the watch cannot vouch for: it was first seen, or switched, or a
\* change of it was ousted by a newer one.
Broken(w, d) ==
  \/ d \in w.dropped
  \/ \E i \in 1 .. Len(w.switches) : w.switches[i].dev = d /\ w.switches[i].cause # "re-expressed"

\* A device that nothing new is known of stands where it stood.
LEMMA ChainStays ==
  ASSUME NEW w \in Watches, NEW x \in Watches, NEW e \in Trackers,
         NEW now \in Nat, NEW m \in Nat, now <= m, NEW g \in Histories, NEW cur \in Transforms,
         Chain(w, e, g, now, cur), x.waiting[e] = w.waiting[e],
         \A i \in 1 .. Len(x.moves) : x.moves[i].dev = e =>
           \E j \in 1 .. Len(w.moves) : x.moves[i] = w.moves[j],
         \A j \in 1 .. Len(w.moves) : w.moves[j].dev = e =>
           \E i \in 1 .. Len(x.moves) : x.moves[i] = w.moves[j]
  PROVE  Chain(x, e, g, m, cur)
<1>1. ASSUME NEW i \in 1 .. Len(x.moves), x.moves[i].dev = e
      PROVE  x.moves[i].f = Between(g[x.moves[i].time - 1], g[x.moves[i].time])
  <2>1. PICK j \in 1 .. Len(w.moves) : x.moves[i] = w.moves[j]  BY <1>1
  <2> QED  BY <1>1, <2>1 DEF Chain
<1>2. \A t \in Nat : Event(w, e, t) => Event(x, e, t)
  <2> SUFFICES ASSUME NEW t \in Nat, Event(w, e, t) PROVE Event(x, e, t)  OBVIOUS
  <2>1. CASE \E j \in 1 .. Len(w.moves) : w.moves[j].dev = e /\ w.moves[j].time = t
    <3>1. PICK j \in 1 .. Len(w.moves) : w.moves[j].dev = e /\ w.moves[j].time = t  BY <2>1
    <3>2. PICK i \in 1 .. Len(x.moves) : x.moves[i] = w.moves[j]  BY <3>1
    <3> QED  BY <3>1, <3>2 DEF Event
  <2>2. CASE w.waiting[e] # Nothing /\ w.waiting[e].time = t  BY <2>2 DEF Event
  <2> QED  BY <2>1, <2>2 DEF Event
<1>3. ASSUME NEW a \in Nat, NEW b \in Nat, a <= b,
             \A t \in Nat : a < t /\ t <= b => ~Event(x, e, t)
      PROVE  g[a] = g[b]
  <2>1. \A t \in Nat : a < t /\ t <= b => ~Event(w, e, t)  BY <1>2, <1>3
  <2> QED  BY <1>3, <2>1 DEF Chain
<1>4. \A a \in Nat : m <= a => g[a] = cur  BY DEF Chain
<1>5. x.waiting[e] # Nothing =>
        /\ g[x.waiting[e].time - 1] = x.waiting[e].from.err
        /\ g[x.waiting[e].time] = x.waiting[e].to.err
  BY DEF Chain
<1> QED  BY <1>1, <1>3, <1>4, <1>5 DEF Chain

\* x says of d what w did, and that it moved at m.
MovesAt(w, x, d, m, old, new) ==
  /\ x.waiting[d] # Nothing =>
       \/ x.waiting[d] = w.waiting[d]
       \/ /\ x.waiting[d].time = m
          /\ x.waiting[d].from.err = old /\ x.waiting[d].to.err = new
  /\ \A i \in 1 .. Len(x.moves) : x.moves[i].dev = d =>
       \/ \E j \in 1 .. Len(w.moves) : x.moves[i] = w.moves[j]
       \/ x.moves[i].time = m /\ x.moves[i].f = Between(old, new)
  /\ \A t \in Nat : Event(w, d, t) \/ t = m => Event(x, d, t)

\* A device that moves at m stands where it stood until then.
LEMMA ChainMoves ==
  ASSUME NEW w \in Watches, NEW x \in Watches, NEW d \in Trackers,
         NEW now \in Nat, NEW m \in Nat, now < m, NEW g \in Histories,
         NEW old \in Transforms, NEW new \in Transforms,
         Timely(w, now), Chain(w, d, g, now, old), MovesAt(w, x, d, m, old, new)
  PROVE  \E h \in Histories : Extends(h, g, now) /\ Chain(x, d, h, m, new)
<1> USE DEF MovesAt
<1> DEFINE h == [t \in Nat |-> IF t < m THEN g[t] ELSE new]
<1>1. h \in Histories /\ Extends(h, g, now)
  <2>1. h \in Histories  BY DEF Histories
  <2>2. \A a \in 0 .. now : a \in Nat /\ a < m  OBVIOUS
  <2> QED  BY <2>1, <2>2 DEF Extends
<1>2. /\ \A t \in Nat : t < m => h[t] = g[t]
      /\ \A t \in Nat : m <= t => h[t] = new
  OBVIOUS
<1>3. h[m - 1] = old /\ h[m] = new
  <2>1. g[m - 1] = old  BY DEF Chain
  <2> QED  BY <1>2, <2>1
<1> HIDE DEF h
<1>4. \A t \in Nat : t # 0 /\ t <= now => h[t] = g[t] /\ h[t - 1] = g[t - 1]  BY <1>2
<1>5. ASSUME NEW i \in 1 .. Len(x.moves), x.moves[i].dev = d
      PROVE  x.moves[i].f = Between(h[x.moves[i].time - 1], h[x.moves[i].time])
  <2>1. ASSUME NEW j \in 1 .. Len(w.moves), x.moves[i] = w.moves[j]
        PROVE  x.moves[i].f = Between(h[x.moves[i].time - 1], h[x.moves[i].time])
    <3>1. w.moves[j].f = Between(g[w.moves[j].time - 1], g[w.moves[j].time])
      BY <1>5, <2>1 DEF Chain
    <3>2. w.moves[j] \in Moves  BY DEF Watches
    <3>3. w.moves[j].time \in Nat /\ w.moves[j].time # 0 /\ w.moves[j].time <= now
      BY <3>2 DEF Timely, Moves
    <3> QED  BY <1>4, <2>1, <3>1, <3>3
  <2>2. CASE x.moves[i].time = m /\ x.moves[i].f = Between(old, new)  BY <1>3, <2>2
  <2> QED  BY <1>5, <2>1, <2>2
<1>6. ASSUME x.waiting[d] # Nothing
      PROVE  /\ h[x.waiting[d].time - 1] = x.waiting[d].from.err
             /\ h[x.waiting[d].time] = x.waiting[d].to.err
  <2>1. CASE x.waiting[d] = w.waiting[d]
    <3>1. w.waiting[d].time \in Nat /\ w.waiting[d].time # 0 /\ w.waiting[d].time <= now
      BY <1>6, <2>1, WaitingChange DEF Timely
    <3>2. /\ g[w.waiting[d].time - 1] = w.waiting[d].from.err
          /\ g[w.waiting[d].time] = w.waiting[d].to.err
      BY <1>6, <2>1 DEF Chain
    <3> QED  BY <1>4, <2>1, <3>1, <3>2
  <2>2. CASE /\ x.waiting[d].time = m
             /\ x.waiting[d].from.err = old /\ x.waiting[d].to.err = new
    BY <1>3, <2>2
  <2> QED  BY <1>6, <2>1, <2>2
<1>7. ASSUME NEW a \in Nat, NEW b \in Nat, a <= b,
             \A t \in Nat : a < t /\ t <= b => ~Event(x, d, t)
      PROVE  h[a] = h[b]
  <2>1. ~(a < m /\ m <= b) /\ \A t \in Nat : a < t /\ t <= b => ~Event(w, d, t)  BY <1>7
  <2>2. g[a] = g[b]  BY <1>7, <2>1 DEF Chain
  <2> QED  BY <1>2, <1>7, <2>1, <2>2
<1>8. \A a \in Nat : m <= a => h[a] = new  BY <1>2
<1>9. Chain(x, d, h, m, new)  BY <1>5, <1>6, <1>7, <1>8 DEF Chain
<1> QED  BY <1>1, <1>9

\* x says of every other device what w did, and of d that it went from old to new at m.
Advances(w, x, d, now, m, old, new) ==
  /\ x \in Watches /\ Timely(x, m) /\ x.dev = w.dev
  /\ \A e \in Trackers : Broken(w, e) => Broken(x, e)
  /\ \A e \in Trackers \ {d}, g \in Histories, cur \in Transforms :
       Chain(w, e, g, now, cur) => Chain(x, e, g, m, cur)
  /\ d \in Trackers =>
       \/ Broken(x, d)
       \/ \A g \in Histories : Chain(w, d, g, now, old) =>
            \E h \in Histories : Extends(h, g, now) /\ Chain(x, d, h, m, new)

LEMMA TimelyLater ==
  ASSUME NEW w \in Watches, NEW now \in Nat, NEW m \in Nat, now <= m, Timely(w, now)
  PROVE  Timely(w, m)
<1>1. \A i \in 1 .. Len(w.moves) : w.moves[i].time \in Nat
  <2>1. w.moves \in Seq(Moves)  BY DEF Watches
  <2>2. \A i \in 1 .. Len(w.moves) : w.moves[i] \in Moves  BY <2>1
  <2> QED  BY <2>2 DEF Moves
<1>2. \A e \in Trackers : w.waiting[e] # Nothing => w.waiting[e].time \in Nat  BY WaitingChange
<1> QED  BY <1>1, <1>2 DEF Timely

LEMMA AdvancesOn ==
  ASSUME NEW w, NEW x, NEW y, NEW d, NEW now, NEW m, NEW old \in Transforms,
         NEW new \in Transforms,
         Advances(w, x, d, now, m, old, new), Carries(x, y, m)
  PROVE  Advances(w, y, d, now, m, old, new)
<1>1. /\ y \in Watches /\ Timely(y, m) /\ y.dev = w.dev
  BY DEF Advances, Carries
<1>2. \A e \in Trackers : Broken(x, e) => Broken(y, e)  BY DEF Carries, Broken
<1>3. \A e \in Trackers : Broken(w, e) => Broken(y, e)  BY <1>2 DEF Advances
<1>4. ASSUME NEW e \in Trackers \ {d}, NEW g \in Histories, NEW cur \in Transforms,
             Chain(w, e, g, now, cur)
      PROVE  Chain(y, e, g, m, cur)
  <2>1. Chain(x, e, g, m, cur)  BY <1>4 DEF Advances
  <2> QED  BY <2>1 DEF Carries
<1>5. ASSUME d \in Trackers, ~Broken(y, d), NEW g \in Histories, Chain(w, d, g, now, old)
      PROVE  \E h \in Histories : Extends(h, g, now) /\ Chain(y, d, h, m, new)
  <2>1. ~Broken(x, d)  BY <1>2, <1>5
  <2>2. PICK h \in Histories : Extends(h, g, now) /\ Chain(x, d, h, m, new)
    BY <1>5, <2>1 DEF Advances
  <2>3. Chain(y, d, h, m, new)  BY <1>5, <2>2 DEF Carries
  <2> QED  BY <2>2, <2>3
<1> QED  BY <1>1, <1>3, <1>4, <1>5 DEF Advances

\* What stays of each device's moves and waiting change carries it on.
LEMMA OthersStay ==
  ASSUME NEW w \in Watches, NEW x \in Watches, NEW e \in Trackers,
         NEW now \in Nat, NEW m \in Nat, now <= m, NEW g \in Histories, NEW cur \in Transforms,
         Chain(w, e, g, now, cur), x.waiting[e] = w.waiting[e], x.moves = w.moves
  PROVE  Chain(x, e, g, m, cur)
<1>1. \A i \in 1 .. Len(x.moves) : x.moves[i].dev = e =>
        \E j \in 1 .. Len(w.moves) : x.moves[i] = w.moves[j]
  OBVIOUS
<1>2. \A i \in 1 .. Len(w.moves) : w.moves[i].dev = e =>
        \E j \in 1 .. Len(x.moves) : x.moves[j] = w.moves[i]
  OBVIOUS
<1> QED  BY <1>1, <1>2, ChainStays

\* A station's own transition.
LEMMA AddAdvances ==
  ASSUME NEW w \in Watches, NEW d, d \notin Trackers, NEW from \in Frames, NEW to \in Frames,
         NEW now \in Nat, NEW m \in Nat, now <= m, Timely(w, now)
  PROVE  Advances(w, AddTransition(w, from, to), d, now, m, from.err, to.err)
<1> DEFINE x == AddTransition(w, from, to)
<1>1. Carries(w, x, now)  BY AddCarries
<1> HIDE DEF x
<1>2. x \in Watches /\ x.dev = w.dev /\ Timely(x, now)  BY <1>1 DEF Carries
<1>3. Timely(x, m)  BY <1>2, TimelyLater
<1>4. \A e \in Trackers : Broken(w, e) => Broken(x, e)  BY <1>1 DEF Carries, Broken
<1>5. ASSUME NEW e \in Trackers, NEW g \in Histories, NEW cur \in Transforms,
             Chain(w, e, g, now, cur)
      PROVE  Chain(x, e, g, m, cur)
  <2>1. Chain(x, e, g, now, cur)  BY <1>1, <1>5 DEF Carries
  <2> QED  BY <1>2, <2>1, OthersStay
<1> QED  BY <1>2, <1>3, <1>4, <1>5 DEF Advances, x

\* A change read off the moves of other devices, now or later.
LEMMA InferAdvances ==
  ASSUME NEW w \in Watches, NEW s \in Samples, s.dev \in Trackers, NEW was \in Seen,
         NEW returned \in BOOLEAN, NEW now \in Nat, now < s.time, Timely(w, now)
  PROVE  Advances(w, Infer(w, s, was, returned), s.dev, now, s.time, was.frame.err, s.frame.err)
<1> DEFINE d == s.dev
           m == s.time
           change == [time |-> s.time, setup |-> s.setup, since |-> was.mark,
                      from |-> was.frame, to |-> s.frame, returned |-> returned]
           next == [w EXCEPT !.waiting[s.dev] = change,
                             !.dropped = IF w.waiting[s.dev] = Nothing THEN @ ELSE @ \cup {s.dev}]
           y == Infer(w, s, was, returned)
<1>1. /\ d \in Trackers /\ m \in Nat \ {0} /\ was.frame \in Frames /\ s.frame \in Frames
      /\ was.frame.err \in Transforms /\ s.frame.err \in Transforms
  BY DEF Samples, Seen, Frames
<1>2. change \in Changes  BY <1>1 DEF Changes, Samples, Seen
<1>3. change # Nothing /\ change.time = m /\ change.from.err = was.frame.err
      /\ change.to.err = s.frame.err
  BY <1>2, Distinct
<1>4. y = IF Leads(next.known, change) THEN Resolve(next, d) ELSE next  BY DEF Infer
<1>5. /\ next.dev = w.dev /\ next.known = w.known /\ next.moves = w.moves
      /\ next.switches = w.switches
      /\ next.waiting = [w.waiting EXCEPT ![d] = change]
      /\ next.dropped = IF w.waiting[d] = Nothing THEN w.dropped ELSE w.dropped \cup {d}
      /\ next = [w EXCEPT !.waiting = [w.waiting EXCEPT ![d] = change],
                          !.dropped = IF w.waiting[d] = Nothing THEN w.dropped
                                      ELSE w.dropped \cup {d}]
  BY DEF Watches
<1> HIDE DEF change, next, y, d, m
<1>6. next \in Watches
  <2>1. [w.waiting EXCEPT ![d] = change] \in [Trackers -> Changes \cup {Nothing}]
    BY <1>1, <1>2 DEF Watches
  <2>2. next.dropped \in SUBSET Trackers  BY <1>1, <1>5 DEF Watches
  <2> QED  BY <1>5, <2>1, <2>2 DEF Watches
<1>7. /\ next.waiting[d] = change
      /\ \A e \in Trackers \ {d} : next.waiting[e] = w.waiting[e]
  BY <1>1, <1>5 DEF Watches
<1>8. now < m  BY DEF m
<1>9. \A i \in 1 .. Len(w.moves) : w.moves[i].time \in Nat
  <2>1. w.moves \in Seq(Moves)  BY DEF Watches
  <2>2. \A i \in 1 .. Len(w.moves) : w.moves[i] \in Moves  BY <2>1
  <2> QED  BY <2>2 DEF Moves
<1>10. Timely(next, m)
  <2>1. Timely(w, m)  BY <1>1, <1>8, TimelyLater
  <2>2. \A i \in 1 .. Len(w.moves) : w.moves[i].time # m  BY <1>1, <1>8, <1>9 DEF Timely
  <2>3. ASSUME NEW e \in Trackers, next.waiting[e] # Nothing
        PROVE  /\ next.waiting[e].time <= m
               /\ \A i \in 1 .. Len(w.moves) : w.moves[i].dev = e => w.moves[i].time # next.waiting[e].time
    <3>1. CASE e = d  BY <1>1, <1>3, <1>7, <2>2, <3>1
    <3>2. CASE e # d  BY <1>7, <2>1, <2>3, <3>2 DEF Timely
    <3> QED  BY <3>1, <3>2
  <2> QED  BY <1>5, <2>1, <2>3 DEF Timely
<1>11. \A e \in Trackers : Broken(w, e) => Broken(next, e)  BY <1>5 DEF Broken
<1>12. ASSUME NEW e \in Trackers \ {d}, NEW g \in Histories, NEW cur \in Transforms,
              Chain(w, e, g, now, cur)
       PROVE  Chain(next, e, g, m, cur)
  <2>1. e \in Trackers /\ next.waiting[e] = w.waiting[e] /\ next.moves = w.moves
    BY <1>5, <1>7
  <2>2. m \in Nat /\ now <= m  BY <1>1, <1>8
  <2> QED  BY ONLY w \in Watches, now \in Nat, g \in Histories, cur \in Transforms, <1>6,
                   <1>12, <2>1, <2>2, OthersStay
<1>13. ASSUME NEW g \in Histories, Chain(w, d, g, now, was.frame.err), ~Broken(next, d)
       PROVE  \E h \in Histories : Extends(h, g, now) /\ Chain(next, d, h, m, s.frame.err)
  <2>1. w.waiting[d] = Nothing  BY <1>5, <1>13 DEF Broken
  <2>2. \A i \in 1 .. Len(next.moves) : next.moves[i].dev = d =>
          \E j \in 1 .. Len(w.moves) : next.moves[i] = w.moves[j]
    BY <1>5
  <2>3. \A t \in Nat : Event(w, d, t) \/ t = m => Event(next, d, t)
    BY <1>3, <1>5, <1>7, <2>1 DEF Event
  <2>4. next.waiting[d] # Nothing =>
          \/ next.waiting[d] = w.waiting[d]
          \/ /\ next.waiting[d].time = m
             /\ next.waiting[d].from.err = was.frame.err /\ next.waiting[d].to.err = s.frame.err
    BY <1>3, <1>7
  <2>5. MovesAt(w, next, d, m, was.frame.err, s.frame.err)  BY <2>2, <2>3, <2>4 DEF MovesAt
  <2>6. d \in Trackers /\ m \in Nat /\ was.frame.err \in Transforms /\ s.frame.err \in Transforms
    BY <1>1
  <2>7. Chain(w, d, g, now, was.frame.err)  BY <1>13
  <2> QED  BY ONLY w \in Watches, now \in Nat, g \in Histories, Timely(w, now), <1>6,
                   <1>8, <2>5, <2>6, <2>7, ChainMoves
<1>14. Advances(w, next, d, now, m, was.frame.err, s.frame.err)
  BY <1>5, <1>6, <1>10, <1>11, <1>12, <1>13 DEF Advances
<1>15. CASE Leads(next.known, change)
  <2>1. Carries(next, Resolve(next, d), m)
    BY <1>1, <1>3, <1>6, <1>7, <1>10, ResolveCarries
  <2>2. Advances(w, y, d, now, m, was.frame.err, s.frame.err)
    BY <1>1, <1>4, <1>14, <1>15, <2>1, AdvancesOn
  <2> QED  BY <2>2 DEF y, d, m
<1>16. CASE ~Leads(next.known, change)
  <2>1. y = next  BY <1>4, <1>16
  <2> QED  BY <1>14, <2>1 DEF y, d, m
<1> QED  BY <1>15, <1>16

\* A device's own move, handed out and reported to the others.
MovedAdvances(w, d, m, setup, from, to) ==
  AddTransition(Hand(w, d, m, setup, Between(from.err, to.err)), from, to)

LEMMA MoveAdvances ==
  ASSUME NEW w \in Watches, NEW d \in Trackers, NEW now \in Nat, NEW m \in Nat, now < m,
         NEW setup \in BOOLEAN, NEW from \in Frames, NEW to \in Frames, Timely(w, now)
  PROVE  Advances(w, MovedAdvances(w, d, m, setup, from, to), d, now, m, from.err, to.err)
<1> DEFINE c == [dev |-> d, time |-> m, setup |-> setup, f |-> Between(from.err, to.err)]
           x == Hand(w, d, m, setup, Between(from.err, to.err))
           y == MovedAdvances(w, d, m, setup, from, to)
           n == Len(w.moves)
<1>1. from.err \in Transforms /\ to.err \in Transforms  BY DEF Frames
<1>2. c \in Moves
  <2>1. Between(from.err, to.err) \in Transforms  BY <1>1, TransformTypes
  <2> QED  BY <2>1 DEF Moves
<1>3. /\ x.dev = w.dev /\ x.known = w.known /\ x.switches = w.switches /\ x.dropped = w.dropped
      /\ x.waiting = w.waiting /\ x.moves = Append(w.moves, c)
      /\ x = [w EXCEPT !.moves = Append(w.moves, c)]
  BY DEF Hand, Watches
<1>4. c.dev = d /\ c.time = m /\ c.f = Between(from.err, to.err)  OBVIOUS
<1>5. y = AddTransition(x, from, to)  BY DEF MovedAdvances
<1> HIDE DEF c, x, y
<1>6. w.moves \in Seq(Moves)  BY DEF Watches
<1>7. /\ n \in Nat /\ Len(x.moves) = n + 1 /\ x.moves[n + 1] = c
      /\ \A i \in 1 .. n : x.moves[i] = w.moves[i] /\ w.moves[i] \in Moves
  BY <1>2, <1>3, <1>6
<1>8. x \in Watches
  <2>1. Append(w.moves, c) \in Seq(Moves)  BY <1>2, <1>6
  <2> QED  BY <1>3, <2>1 DEF Watches
<1>9. \A i \in 1 .. n : w.moves[i].time \in Nat /\ w.moves[i].time # m /\ w.moves[i].time < m
  BY <1>7 DEF Timely, Moves
<1> HIDE DEF n
<1>10. \A i \in 1 .. n + 1 : i \in 1 .. n \/ i = n + 1  BY <1>7
<1>11. Timely(x, m)
  <2>0. Timely(w, m)  BY TimelyLater
  <2>1. Apart(x.moves)
    <3> SUFFICES ASSUME NEW k \in 1 .. n + 1, NEW l \in 1 .. n + 1, k # l,
                        x.moves[k].dev = x.moves[l].dev
                 PROVE  x.moves[k].time # x.moves[l].time
      BY <1>7 DEF Apart
    <3>1. CASE k = n + 1
      <4>1. l \in 1 .. n  BY <1>10, <3>1
      <4> QED  BY <1>4, <1>7, <1>9, <3>1, <4>1
    <3>2. CASE l = n + 1
      <4>1. k \in 1 .. n  BY <1>10, <3>2
      <4> QED  BY <1>4, <1>7, <1>9, <3>2, <4>1
    <3>3. CASE k \in 1 .. n /\ l \in 1 .. n  BY <1>7, <3>3 DEF Apart, Timely, n
    <3> QED  BY <1>10, <3>1, <3>2, <3>3
  <2>2. \A i \in 1 .. n + 1 : 0 < x.moves[i].time /\ x.moves[i].time <= m
    <3>1. \A i \in 1 .. n : 0 < x.moves[i].time /\ x.moves[i].time <= m
      BY <1>7, <2>0 DEF Timely, n
    <3> QED  BY <1>4, <1>7, <1>10, <3>1
  <2>3. ASSUME NEW e \in Trackers, x.waiting[e] # Nothing
        PROVE  /\ x.waiting[e].time <= m
               /\ \A i \in 1 .. n + 1 : x.moves[i].dev = e => x.moves[i].time # x.waiting[e].time
    <3>1. w.waiting[e].time <= now /\ w.waiting[e].time \in Nat /\ \A i \in 1 .. n :
            w.moves[i].dev = e => w.moves[i].time # w.waiting[e].time
      BY <1>3, <2>3, WaitingChange DEF Timely, n
    <3> QED  BY <1>3, <1>4, <1>7, <1>10, <3>1
  <2> QED  BY <1>7, <2>1, <2>2, <2>3 DEF Timely
<1>12. \A e \in Trackers : Broken(w, e) => Broken(x, e)  BY <1>3 DEF Broken
<1>13. ASSUME NEW e \in Trackers \ {d}, NEW g \in Histories, NEW cur \in Transforms,
              Chain(w, e, g, now, cur)
       PROVE  Chain(x, e, g, m, cur)
  <2>1. \A i \in 1 .. Len(x.moves) : x.moves[i].dev = e =>
          \E j \in 1 .. Len(w.moves) : x.moves[i] = w.moves[j]
    BY <1>4, <1>7, <1>10 DEF n
  <2>2. \A j \in 1 .. Len(w.moves) : w.moves[j].dev = e =>
          \E i \in 1 .. Len(x.moves) : x.moves[i] = w.moves[j]
    BY <1>7 DEF n
  <2>3. now <= m /\ x.waiting[e] = w.waiting[e] /\ e \in Trackers  BY <1>3
  <2> QED  BY ONLY w \in Watches, now \in Nat, m \in Nat, g \in Histories, cur \in Transforms,
                   <1>8, <1>13, <2>1, <2>2, <2>3, ChainStays
<1>14. ASSUME NEW g \in Histories, Chain(w, d, g, now, from.err)
       PROVE  \E h \in Histories : Extends(h, g, now) /\ Chain(x, d, h, m, to.err)
  <2>1. MovesAt(w, x, d, m, from.err, to.err)
    <3>1. \A i \in 1 .. Len(x.moves) : x.moves[i].dev = d =>
            \/ \E j \in 1 .. Len(w.moves) : x.moves[i] = w.moves[j]
            \/ x.moves[i].time = m /\ x.moves[i].f = Between(from.err, to.err)
      BY <1>4, <1>7, <1>10 DEF n
    <3>2. ASSUME NEW t \in Nat, Event(w, d, t) \/ t = m PROVE Event(x, d, t)
      <4>1. CASE t = m
        <5>1. n + 1 \in 1 .. Len(x.moves) /\ x.moves[n + 1].dev = d /\ x.moves[n + 1].time = t
          BY <1>4, <1>7, <4>1
        <5> QED  BY <5>1 DEF Event
      <4>2. CASE \E i \in 1 .. n : w.moves[i].dev = d /\ w.moves[i].time = t
        <5>1. PICK i \in 1 .. n : w.moves[i].dev = d /\ w.moves[i].time = t  BY <4>2
        <5>2. i \in 1 .. Len(x.moves) /\ x.moves[i].dev = d /\ x.moves[i].time = t
          BY <1>7, <5>1
        <5> QED  BY <5>2 DEF Event
      <4>3. CASE w.waiting[d] # Nothing /\ w.waiting[d].time = t  BY <1>3, <4>3 DEF Event
      <4> QED  BY <3>2, <4>1, <4>2, <4>3 DEF Event, n
    <3> QED  BY <1>3, <3>1, <3>2 DEF MovesAt
  <2> QED  BY ONLY w \in Watches, d \in Trackers, now \in Nat, m \in Nat, now < m, g \in Histories,
                   Timely(w, now), <1>1, <1>8, <1>14, <2>1, ChainMoves
<1>15. Advances(w, x, d, now, m, from.err, to.err)
  BY <1>3, <1>8, <1>11, <1>12, <1>13, <1>14 DEF Advances
<1>16. Carries(x, AddTransition(x, from, to), m)  BY <1>8, <1>11, AddCarries
<1> QED  BY <1>1, <1>5, <1>15, <1>16, AdvancesOn DEF y

\* A device that went on where it was, in another frame of the same place.
LEMMA SwitchAdvances ==
  ASSUME NEW w \in Watches, NEW d \in Trackers, NEW now \in Nat, NEW m \in Nat, now <= m,
         NEW err0 \in Transforms, Timely(w, now),
         NEW cause \in Causes
  PROVE  /\ Advances(w, Switched(w, d, m, cause), d, now, m, err0, err0)
         /\ cause # "re-expressed" => Broken(Switched(w, d, m, cause), d)
<1> DEFINE c == [dev |-> d, time |-> m, cause |-> cause]
           x == Switched(w, d, m, cause)
           n == Len(w.switches)
<1>1. c \in Switches /\ c.dev = d /\ c.cause = cause  BY DEF Switches
<1>2. /\ x.dev = w.dev /\ x.known = w.known /\ x.moves = w.moves /\ x.dropped = w.dropped
      /\ x.waiting = w.waiting /\ x.switches = Append(w.switches, c)
      /\ x = [w EXCEPT !.switches = Append(w.switches, c)]
  BY DEF Switched, Watches
<1> HIDE DEF c, x
<1>3. w.switches \in Seq(Switches)  BY DEF Watches
<1>4. /\ n \in Nat /\ Len(x.switches) = n + 1 /\ x.switches[n + 1] = c
      /\ \A i \in 1 .. n : x.switches[i] = w.switches[i]
  <2>1. c \in Switches /\ x.switches = Append(w.switches, c)  BY <1>1, <1>2
  <2> QED  BY ONLY <1>3, <2>1
<1>5. x \in Watches
  <2>1. Append(w.switches, c) \in Seq(Switches)
    <3>1. c \in Switches  BY <1>1
    <3> QED  BY ONLY <1>3, <3>1
  <2> QED  BY <1>2, <2>1 DEF Watches
<1>6. Timely(x, m)
  <2>1. Timely(w, m)  BY TimelyLater
  <2> QED  BY <1>2, <2>1 DEF Timely
<1>7. ASSUME NEW e \in Trackers, Broken(w, e) PROVE Broken(x, e)
  <2>1. CASE \E i \in 1 .. n : w.switches[i].dev = e /\ w.switches[i].cause # "re-expressed"
    <3>1. PICK i \in 1 .. n : w.switches[i].dev = e /\ w.switches[i].cause # "re-expressed"
      BY <2>1
    <3>2. i \in 1 .. Len(x.switches) /\ x.switches[i] = w.switches[i]  BY ONLY <1>4, <3>1
    <3> QED  BY <3>1, <3>2 DEF Broken
  <2>2. CASE e \in w.dropped  BY <1>2, <2>2 DEF Broken
  <2> QED  BY <1>7, <2>1, <2>2 DEF Broken
<1>8. ASSUME NEW e \in Trackers, NEW g \in Histories, NEW cur \in Transforms,
             Chain(w, e, g, now, cur)
      PROVE  Chain(x, e, g, m, cur)
  BY <1>2, <1>5, <1>8, OthersStay
<1>9. cause # "re-expressed" => Broken(x, d)
  <2>1. n + 1 \in 1 .. Len(x.switches)  BY ONLY <1>4
  <2> QED  BY <1>1, <1>4, <2>1 DEF Broken
<1> QED  BY <1>2, <1>5, <1>6, <1>7, <1>8, <1>9, ExtendsSelf DEF Advances, x

LEMMA ChangedAdvances ==
  ASSUME NEW w \in Watches, NEW s \in Samples, NEW was \in Seen,
         NEW now \in Nat, now < s.time, Timely(w, now)
  PROVE  Advances(w, Changed(w, s, was), s.dev, now, s.time, was.frame.err, s.frame.err)
<1> DEFINE d == s.dev
           m == s.time
<1>1. /\ d \in Trackers \cup Stations /\ m \in Nat /\ was.frame \in Frames /\ s.frame \in Frames
      /\ was.frame.err \in Transforms /\ s.frame.err \in Transforms /\ s.setup \in BOOLEAN
  BY DEF Samples, Seen, Frames
<1>2. CASE d \in Stations
  <2>1. Changed(w, s, was) = AddTransition(w, was.frame, s.frame)  BY <1>2 DEF Changed
  <2>2. d \notin Trackers  BY <1>2, DevicesAssumption
  <2>3. now <= m  BY <1>1
  <2> HIDE DEF d, m
  <2>4. Advances(w, AddTransition(w, was.frame, s.frame), d, now, m, was.frame.err, s.frame.err)
    BY <1>1, <2>2, <2>3, AddAdvances
  <2> QED  BY <2>1, <2>4 DEF d, m
<1>3. CASE d \notin Stations /\ (was.at = "away" \/ Kind(was, s) = "unclear")
  <2>1. Changed(w, s, was) = Infer(w, s, was, was.at = "away")  BY <1>3 DEF Changed
  <2>2. (was.at = "away") \in BOOLEAN /\ s.dev \in Trackers  BY <1>1, <1>3
  <2> QED  BY <2>1, <2>2, InferAdvances
<1>4. CASE d \notin Stations /\ was.at # "away" /\ Kind(was, s) = "moved"
  <2>1. Changed(w, s, was) = MovedAdvances(w, d, m, s.setup, was.frame, s.frame)
    BY <1>4 DEF Changed, MovedAdvances
  <2>2. d \in Trackers /\ now < m  BY <1>1, <1>4
  <2> HIDE DEF d, m
  <2>3. Advances(w, MovedAdvances(w, d, m, s.setup, was.frame, s.frame), d, now, m,
                 was.frame.err, s.frame.err)
    BY <1>1, <2>2, MoveAdvances
  <2> QED  BY <2>1, <2>3 DEF d, m
<1>5. CASE d \notin Stations /\ was.at # "away" /\ Kind(was, s) \notin {"unclear", "moved"}
  <2>1. Changed(w, s, was) = Switched(w, d, m, "re-expressed")  BY <1>5 DEF Changed
  <2>2. was.frame.err = s.frame.err  BY <1>5 DEF Kind
  <2>3. d \in Trackers /\ now <= m  BY <1>1, <1>5
  <2>4. "re-expressed" \in Causes  BY DEF Causes
  <2> HIDE DEF d, m
  <2>5. Advances(w, Switched(w, d, m, "re-expressed"), d, now, m, was.frame.err, was.frame.err)
    BY <1>1, <2>3, <2>4, SwitchAdvances
  <2> QED  BY <2>1, <2>2, <2>5 DEF d, m
<1> QED  BY <1>2, <1>3, <1>4, <1>5

\* g goes through the places of past, pairs of a time and a place.
Through(g, past) == \A p \in past : g[p[1]] = p[2]

\* The frame of d came through the places of past to cur by now.
Reaches(w, d, past, now, cur) ==
  \E g \in Histories : Through(g, past) /\ Chain(w, d, g, now, cur)

\* A watch that has followed every tracker of r it has seen, through the places of r.
Followed(w, now, r) ==
  /\ w \in Watches /\ Timely(w, now)
  /\ \A d \in DOMAIN r : \A p \in r[d] : p[1] \in 0 .. now
  /\ \A d \in Trackers : d \in DOMAIN r /\ w.dev[d] # Unseen =>
       \/ Broken(w, d)
       \/ Reaches(w, d, r[d], now, w.dev[d].frame.err)

\* What says the same of a tracker's moves, at a later time, has followed it as well.
LEMMA FollowedOn ==
  ASSUME NEW w \in Watches, NEW x \in Watches, NEW now \in Nat, NEW m \in Nat, now <= m,
         NEW e \in Trackers, NEW past, NEW cur \in Transforms,
         x.moves = w.moves, x.waiting[e] = w.waiting[e], Reaches(w, e, past, now, cur)
  PROVE  Reaches(x, e, past, m, cur)
<1>1. PICK g \in Histories : Through(g, past) /\ Chain(w, e, g, now, cur)  BY DEF Reaches
<1>2. Chain(x, e, g, m, cur)  BY <1>1, OthersStay
<1> QED  BY <1>1, <1>2 DEF Reaches

LEMMA SeenFrame ==
  ASSUME NEW w \in Watches, NEW d \in Trackers \cup Stations, w.dev[d] # Unseen
  PROVE  /\ w.dev[d] \in Seen /\ w.dev[d].frame \in Frames
         /\ w.dev[d].frame.err \in Transforms
<1>1. w.dev[d] \in Seen  BY DEF Watches
<1> QED  BY <1>1 DEF Seen, Frames

\* A sample without tracking: the device is away.
LEMMA GoneFollowed ==
  ASSUME NEW w, NEW now \in Nat, NEW r, NEW s \in Samples, now < s.time, Followed(w, now, r),
         ~s.tracks
  PROVE  /\ Followed(Note(w, s), s.time, r)
         /\ \A e \in Trackers : w.dev[e] # Unseen => Note(w, s).dev[e] # Unseen
<1> DEFINE d == s.dev
           m == s.time
           was == w.dev[d]
           at == IF was = Unseen THEN Unseen ELSE [was EXCEPT !.at = "away"]
           x == Note(w, s)
<1>1. w \in Watches /\ Timely(w, now) /\ m \in Nat /\ now <= m /\ d \in Trackers \cup Stations
  BY DEF Followed, Samples
<1>2. /\ x.dev = [w.dev EXCEPT ![d] = at] /\ x.moves = w.moves /\ x.waiting = w.waiting
      /\ x.switches = w.switches /\ x.dropped = w.dropped
      /\ x = [w EXCEPT !.dev = [w.dev EXCEPT ![d] = at]]
  BY <1>1 DEF Note, Watches
<1>3. /\ at \in Seen \cup {Unseen} /\ (was # Unseen => at # Unseen)
      /\ at # Unseen => was # Unseen /\ at.frame = was.frame
  <2>1. CASE was = Unseen  BY <2>1
  <2>2. CASE was # Unseen
    <3>1. was \in Seen  BY <1>1, <2>2 DEF Watches
    <3>2. [was EXCEPT !.at = "away"] \in Seen /\ [was EXCEPT !.at = "away"].frame = was.frame
      BY <3>1 DEF Seen
    <3> QED  BY <2>2, <3>2, Distinct
  <2> QED  BY <2>1, <2>2
<1> HIDE DEF d, m, at, x
<1>4. w.dev \in [Trackers \cup Stations -> Seen \cup {Unseen}]  BY <1>1 DEF Watches
<1>5. x \in Watches
  <2>1. [w.dev EXCEPT ![d] = at] \in [Trackers \cup Stations -> Seen \cup {Unseen}]
    BY <1>1, <1>3, <1>4
  <2> QED  BY <1>1, <1>2, <2>1 DEF Watches
<1>6. Timely(x, m)
  <2>1. Timely(w, m)  BY <1>1, TimelyLater
  <2> QED  BY <1>2, <2>1 DEF Timely
<1>7. ASSUME NEW e \in Trackers, e \in DOMAIN r, x.dev[e] # Unseen, ~Broken(x, e)
      PROVE  Reaches(x, e, r[e], m, x.dev[e].frame.err)
  <2>1. w.dev[e] # Unseen /\ x.dev[e].frame = w.dev[e].frame
    <3>1. CASE e = d  BY <1>1, <1>2, <1>3, <1>4, <1>7, <3>1
    <3>2. CASE e # d  BY <1>1, <1>2, <1>4, <1>7, <3>2
    <3> QED  BY <3>1, <3>2
  <2>2. ~Broken(w, e)  BY <1>2, <1>7 DEF Broken
  <2>3. Reaches(w, e, r[e], now, w.dev[e].frame.err)
    BY <1>7, <2>1, <2>2 DEF Followed
  <2>4. w.dev[e].frame.err \in Transforms  BY <1>1, <2>1, SeenFrame
  <2>5. Reaches(x, e, r[e], m, w.dev[e].frame.err)
    <3>1. w \in Watches /\ m \in Nat /\ now <= m  BY <1>1
    <3>2. x.moves = w.moves /\ x.waiting[e] = w.waiting[e]  BY <1>2
    <3> QED  BY ONLY now \in Nat, e \in Trackers, <1>5, <2>3, <2>4, <3>1, <3>2, FollowedOn
  <2> QED  BY <2>1, <2>5
<1>8. \A e \in DOMAIN r : \A p \in r[e] : p[1] \in 0 .. m  BY <1>1 DEF Followed
<1>9. \A e \in Trackers : w.dev[e] # Unseen => x.dev[e] # Unseen  BY <1>1, <1>2, <1>3, <1>4
<1> QED  BY <1>5, <1>6, <1>7, <1>8, <1>9 DEF Followed, x, m

\* A device's next sample, in whatever frame.
LEMMA HereFollowed ==
  ASSUME NEW w, NEW now \in Nat, NEW r, NEW s \in Samples, now < s.time, Followed(w, now, r),
         s.tracks
  PROVE  /\ Followed(Note(w, s), s.time, r)
         /\ Note(w, s).dev[s.dev] # Unseen /\ Note(w, s).dev[s.dev].frame = s.frame
         /\ \A e \in Trackers : w.dev[e] # Unseen => Note(w, s).dev[e] # Unseen
<1> DEFINE d == s.dev
           m == s.time
           was == w.dev[d]
           next == IF was = Unseen
                     THEN IF d \in Trackers THEN Switched(w, d, m, "appeared") ELSE w
                   ELSE IF was.frame = s.frame THEN w
                   ELSE Changed(w, s, was)
           here == [at |-> "here", frame |-> s.frame, mark |-> Len(w.known)]
           x == Note(w, s)
<1>1. /\ w \in Watches /\ Timely(w, now) /\ m \in Nat /\ now <= m /\ now < m
      /\ d \in Trackers \cup Stations /\ s.frame \in Frames /\ s.frame.err \in Transforms
  BY DEF Followed, Samples, Frames
<1>2. x = [next EXCEPT !.dev[d] = here]  BY DEF Note
<1>3. here \in Seen /\ here.frame = s.frame
  <2>1. w.known \in Seq([from : Frames, to : Frames])  BY <1>1 DEF Watches
  <2>2. Len(w.known) \in Nat  BY <2>1
  <2> QED  BY <1>1, <2>2 DEF Seen
<1> HIDE DEF here, d, m, x
<1>4. /\ next \in Watches /\ Timely(next, m) /\ next.dev = w.dev
      /\ \A e \in Trackers : Broken(w, e) => Broken(next, e)
      /\ \A e \in Trackers \ {d}, g \in Histories, cur \in Transforms :
           Chain(w, e, g, now, cur) => Chain(next, e, g, m, cur)
      /\ d \in Trackers =>
           \/ Broken(next, d)
           \/ was # Unseen /\ \A g \in Histories : Chain(w, d, g, now, was.frame.err) =>
                \E h \in Histories : Extends(h, g, now) /\ Chain(next, d, h, m, s.frame.err)
  <2>1. ASSUME next = w
        PROVE  /\ next \in Watches /\ Timely(next, m) /\ next.dev = w.dev
               /\ \A e \in Trackers : Broken(w, e) => Broken(next, e)
               /\ \A e \in Trackers, g \in Histories, cur \in Transforms :
                    Chain(w, e, g, now, cur) => Chain(next, e, g, m, cur)
    <3>1. Timely(w, m)  BY <1>1, TimelyLater
    <3>2. \A e \in Trackers, g \in Histories, cur \in Transforms :
            Chain(w, e, g, now, cur) => Chain(w, e, g, m, cur)
      BY <1>1, OthersStay
    <3> QED  BY <1>1, <2>1, <3>1, <3>2
  <2>2. CASE was = Unseen /\ d \notin Trackers
    <3>1. next = w  BY <2>2
    <3> HIDE DEF next
    <3> QED  BY <2>1, <2>2, <3>1
  <2>3. CASE was = Unseen /\ d \in Trackers
    <3>1. next = Switched(w, d, m, "appeared")  BY <2>3
    <3>2. "appeared" \in Causes /\ "appeared" # "re-expressed"  BY DEF Causes
    <3>3. Identity \in Transforms  BY DEF Identity, Transforms
    <3>4. /\ Advances(w, Switched(w, d, m, "appeared"), d, now, m, Identity, Identity)
          /\ Broken(Switched(w, d, m, "appeared"), d)
      BY <1>1, <2>3, <3>2, <3>3, SwitchAdvances
    <3> HIDE DEF next
    <3> QED  BY <3>1, <3>4 DEF Advances
  <2>4. CASE was # Unseen /\ was.frame = s.frame
    <3>1. next = w  BY <2>4
    <3>2. d \in Trackers => \A g \in Histories : Chain(w, d, g, now, was.frame.err) =>
                \E h \in Histories : Extends(h, g, now) /\ Chain(next, d, h, m, s.frame.err)
      BY <1>1, <2>1, <2>4, <3>1, ExtendsSelf
    <3> HIDE DEF next
    <3> QED  BY <2>1, <2>4, <3>1, <3>2
  <2>5. CASE was # Unseen /\ was.frame # s.frame
    <3>1. next = Changed(w, s, was)  BY <2>5
    <3>2. was \in Seen  BY <1>1, <2>5 DEF Watches
    <3>3. Advances(w, Changed(w, s, was), d, now, m, was.frame.err, s.frame.err)
      BY <1>1, <3>2, ChangedAdvances DEF d, m
    <3> HIDE DEF next
    <3> QED  BY <2>5, <3>1, <3>3 DEF Advances
  <2> QED  BY <2>2, <2>3, <2>4, <2>5
<1> HIDE DEF next
<1>5. /\ x.dev = [w.dev EXCEPT ![d] = here] /\ x.moves = next.moves /\ x.waiting = next.waiting
      /\ x.switches = next.switches /\ x.dropped = next.dropped
      /\ x = [next EXCEPT !.dev = [w.dev EXCEPT ![d] = here]]
  BY <1>2, <1>4 DEF Watches
<1>6. w.dev \in [Trackers \cup Stations -> Seen \cup {Unseen}]  BY <1>1 DEF Watches
<1>7. x \in Watches
  <2>1. [w.dev EXCEPT ![d] = here] \in [Trackers \cup Stations -> Seen \cup {Unseen}]
    BY <1>1, <1>3, <1>6
  <2> QED  BY <1>4, <1>5, <2>1 DEF Watches
<1>8. Timely(x, m)  BY <1>4, <1>5 DEF Timely
<1>9. ASSUME NEW e \in Trackers, e \in DOMAIN r, x.dev[e] # Unseen, ~Broken(x, e)
      PROVE  Reaches(x, e, r[e], m, x.dev[e].frame.err)
  <2>1. ~Broken(next, e) /\ ~Broken(w, e)  BY <1>4, <1>5, <1>9 DEF Broken
  <2>2. x.waiting[e] = next.waiting[e]  BY <1>5
  <2>3. CASE e = d
    <3>1. x.dev[e].frame = s.frame  BY <1>1, <1>3, <1>5, <1>6, <2>3
    <3>2. w.dev[e] # Unseen /\ \A g \in Histories : Chain(w, d, g, now, was.frame.err) =>
                \E h \in Histories : Extends(h, g, now) /\ Chain(next, d, h, m, s.frame.err)
      BY <1>4, <2>1, <2>3
    <3>3. Reaches(w, e, r[e], now, w.dev[e].frame.err)
      BY <1>9, <2>1, <3>2 DEF Followed
    <3>4. Reaches(next, e, r[e], m, s.frame.err)
      <4>1. PICK g \in Histories : Through(g, r[e]) /\ Chain(w, d, g, now, was.frame.err)
        BY <2>3, <3>3 DEF Reaches
      <4>2. PICK h \in Histories : Extends(h, g, now) /\ Chain(next, d, h, m, s.frame.err)
        BY <3>2, <4>1
      <4>3. Through(h, r[e])  BY <1>9, <4>1, <4>2 DEF Through, Extends, Followed
      <4> QED  BY <2>3, <4>2, <4>3 DEF Reaches
    <3>5. m <= m  BY <1>1
    <3>6. Reaches(x, e, r[e], m, s.frame.err)
      <4>1. next \in Watches /\ m \in Nat /\ x.moves = next.moves /\ s.frame.err \in Transforms
        BY <1>1, <1>4, <1>5
      <4> QED  BY ONLY <1>7, <2>2, <3>4, <3>5, <4>1, e \in Trackers, FollowedOn
    <3> QED  BY <3>1, <3>6
  <2>4. CASE e # d
    <3>1. x.dev[e] = w.dev[e] /\ w.dev[e] # Unseen  BY <1>5, <1>6, <1>9, <2>4
    <3>2. w.dev[e].frame.err \in Transforms  BY <1>1, <3>1, SeenFrame
    <3>3. Reaches(w, e, r[e], now, w.dev[e].frame.err)
      BY <1>9, <2>1, <3>1 DEF Followed
    <3>4. Reaches(next, e, r[e], m, w.dev[e].frame.err)
      BY <1>4, <2>4, <3>2, <3>3 DEF Reaches
    <3>5. m <= m  BY <1>1
    <3>6. Reaches(x, e, r[e], m, w.dev[e].frame.err)
      <4>1. next \in Watches /\ m \in Nat /\ x.moves = next.moves  BY <1>1, <1>4, <1>5
      <4> QED  BY ONLY <1>7, <2>2, <3>2, <3>4, <3>5, <4>1, e \in Trackers, FollowedOn
    <3> QED  BY <3>1, <3>6
  <2> QED  BY <2>3, <2>4
<1>10. \A e \in DOMAIN r : \A p \in r[e] : p[1] \in 0 .. m  BY <1>1 DEF Followed
<1>11. x.dev[d] # Unseen /\ x.dev[d].frame = s.frame
  BY <1>1, <1>3, <1>5, <1>6, Distinct
<1>12. \A e \in Trackers : w.dev[e] # Unseen => x.dev[e] # Unseen
  BY <1>1, <1>3, <1>5, <1>6, Distinct
<1> QED  BY <1>7, <1>8, <1>9, <1>10, <1>11, <1>12 DEF Followed, x, m, d

LEMMA NoteFollowed ==
  ASSUME NEW w, NEW now \in Nat, NEW r, NEW s \in Samples, now < s.time, Followed(w, now, r)
  PROVE  /\ Followed(Note(w, s), s.time, r)
         /\ \A e \in Trackers : w.dev[e] # Unseen => Note(w, s).dev[e] # Unseen
         /\ s.tracks => /\ Note(w, s).dev[s.dev] # Unseen
                        /\ Note(w, s).dev[s.dev].frame = s.frame
<1>1. CASE s.tracks  BY <1>1, HereFollowed
<1>2. CASE ~s.tracks  BY <1>2, GoneFollowed
<1> QED  BY <1>1, <1>2

\* A tracker's history goes through the place it was just seen in.
LEMMA SeenFollowed ==
  ASSUME NEW w, NEW now \in Nat, NEW r, Followed(w, now, r), NEW q, DOMAIN q = DOMAIN r,
         \A d \in DOMAIN q : \A p \in q[d] :
           p \in r[d] \/ (w.dev[d] # Unseen /\ p = <<now, w.dev[d].frame.err>>)
  PROVE  Followed(w, now, q)
<1>1. ASSUME NEW d \in Trackers, d \in DOMAIN q, w.dev[d] # Unseen, ~Broken(w, d)
      PROVE  Reaches(w, d, q[d], now, w.dev[d].frame.err)
  <2>1. PICK g \in Histories : Through(g, r[d]) /\ Chain(w, d, g, now, w.dev[d].frame.err)
    BY <1>1 DEF Followed, Reaches
  <2>2. g[now] = w.dev[d].frame.err  BY <2>1 DEF Chain
  <2>3. Through(g, q[d])  BY <1>1, <2>1, <2>2 DEF Through
  <2> QED  BY <2>1, <2>3 DEF Reaches
<1>2. \A d \in DOMAIN q : \A p \in q[d] : p[1] \in 0 .. now  BY DEF Followed
<1> QED  BY <1>1, <1>2 DEF Followed

\* A change given up: the tracker switched, to a frame it does not follow.
LEMMA ExpireFollowed ==
  ASSUME NEW w, NEW now \in Nat, NEW r, NEW d \in Trackers, Followed(w, now, r),
         w.waiting[d] # Nothing
  PROVE  /\ Followed(Expire(w, d), now, r)
         /\ Expire(w, d).waiting = [w.waiting EXCEPT ![d] = Nothing]
<1> DEFINE change == w.waiting[d]
           m == change.time
           cause == IF change.returned THEN "returned" ELSE "own jump"
           v == Switched(w, d, m, cause)
           x == Expire(w, d)
<1>1. w \in Watches /\ Timely(w, now)  BY DEF Followed
<1>2. m \in Nat /\ cause \in Causes /\ cause # "re-expressed"
  BY <1>1, WaitingChange DEF Causes
<1>4. x = [v EXCEPT !.waiting[d] = Nothing]  BY DEF Expire
<1>5. /\ v.dev = w.dev /\ v.known = w.known /\ v.moves = w.moves /\ v.dropped = w.dropped
      /\ v.waiting = w.waiting /\ v.switches = Append(w.switches, [dev |-> d, time |-> m, cause |-> cause])
      /\ v = [w EXCEPT !.switches = Append(w.switches, [dev |-> d, time |-> m, cause |-> cause])]
  BY <1>1 DEF Switched, Watches
<1> DEFINE c == [dev |-> d, time |-> m, cause |-> cause]
           n == Len(w.switches)
<1>6. c \in Switches /\ c.dev = d /\ c.cause = cause  BY <1>2 DEF Switches
<1>7. v.switches = Append(w.switches, c)  BY <1>5
<1>8. w.switches \in Seq(Switches)  BY <1>1 DEF Watches
<1> HIDE DEF c, v, x, cause, m
<1>9. /\ n \in Nat /\ Len(v.switches) = n + 1 /\ v.switches[n + 1] = c
      /\ v.switches \in Seq(Switches)
      /\ \A i \in 1 .. n : v.switches[i] = w.switches[i]
  BY <1>6, <1>7, <1>8
<1>10. /\ x.dev = w.dev /\ x.known = w.known /\ x.moves = w.moves /\ x.dropped = w.dropped
       /\ x.waiting = [w.waiting EXCEPT ![d] = Nothing] /\ x.switches = v.switches
       /\ x = [w EXCEPT !.switches = v.switches, !.waiting = [w.waiting EXCEPT ![d] = Nothing]]
  BY <1>1, <1>4, <1>5 DEF Watches
<1>11. w.waiting \in [Trackers -> Changes \cup {Nothing}]  BY <1>1 DEF Watches
<1>12. /\ x.waiting \in [Trackers -> Changes \cup {Nothing}] /\ x.waiting[d] = Nothing
       /\ \A e \in Trackers \ {d} : x.waiting[e] = w.waiting[e]
  BY <1>10, <1>11
<1>13. x \in Watches  BY <1>1, <1>9, <1>10, <1>12 DEF Watches
<1>14. Timely(x, now)  BY <1>1, <1>10, <1>12 DEF Timely
<1>15. \A e \in Trackers : Broken(w, e) \/ e = d => Broken(x, e)
  <2>1. ASSUME NEW e \in Trackers, NEW i \in 1 .. n, w.switches[i].dev = e,
               w.switches[i].cause # "re-expressed"
        PROVE  Broken(x, e)
    <3>1. i \in 1 .. Len(x.switches) /\ x.switches[i] = w.switches[i]  BY <1>9, <1>10
    <3> QED  BY <2>1, <3>1 DEF Broken
  <2>2. Broken(x, d)
    <3>1. n + 1 \in 1 .. Len(x.switches) /\ x.switches[n + 1] = c  BY <1>9, <1>10
    <3> QED  BY <1>2, <1>6, <3>1 DEF Broken
  <2>3. \A e \in w.dropped : Broken(x, e)  BY <1>10 DEF Broken
  <2> QED  BY <2>1, <2>2, <2>3 DEF Broken
<1>16. ASSUME NEW e \in Trackers, e \in DOMAIN r, x.dev[e] # Unseen, ~Broken(x, e)
       PROVE  Reaches(x, e, r[e], now, x.dev[e].frame.err)
  <2>1. e # d /\ ~Broken(w, e) /\ x.dev[e] = w.dev[e] /\ w.dev[e] # Unseen
    BY <1>10, <1>15, <1>16
  <2>2. Reaches(w, e, r[e], now, w.dev[e].frame.err)  BY <1>16, <2>1 DEF Followed
  <2>3. w.dev[e].frame.err \in Transforms  BY <1>1, <2>1, SeenFrame
  <2>4. x.moves = w.moves /\ x.waiting[e] = w.waiting[e] /\ now <= now  BY <1>10, <1>12, <2>1
  <2>5. Reaches(x, e, r[e], now, w.dev[e].frame.err)
    BY ONLY now \in Nat, e \in Trackers, <1>1, <1>13, <2>2, <2>3, <2>4, FollowedOn
  <2> QED  BY <2>1, <2>5
<1> QED  BY <1>10, <1>13, <1>14, <1>16 DEF Followed, x

\* The changes given up at the start of a drain.
LEMMA ExpiredFollowed ==
  ASSUME NEW w, NEW now \in Nat, NEW r, Followed(w, now, r), NEW expired \in SUBSET Expired(w)
  PROVE  /\ Followed(Along(Expire, w, SetToSeq(expired)), now, r)
         /\ Along(Expire, w, SetToSeq(expired)).dev = w.dev
<1> DEFINE q == SetToSeq(expired)
           n == Len(q)
           P(k, x) == Followed(x, now, r) /\ x.dev = w.dev /\ \A l \in 1 .. n : k < l => x.waiting[q[l]] # Nothing
           G == {p \in (0 .. n) \X Watches : P(p[1], p[2])}
<1>1. expired \subseteq Trackers /\ \A d \in expired : w.waiting[d] # Nothing  BY DEF Expired
<1>2. IsFiniteSet(expired)  BY <1>1, DevicesAssumption, FS_Subset
<1>3. /\ n \in Nat /\ \A k \in 1 .. n : q[k] \in expired
      /\ \A k, l \in 1 .. n : q[k] = q[l] => k = l
  BY <1>2, ListOf
<1> HIDE DEF q
<1>4. P(0, w) /\ w \in Watches  BY <1>1, <1>3 DEF Followed
<1>5. ASSUME NEW k \in 1 .. n, NEW x \in Watches, P(k - 1, x)
      PROVE  Expire(x, q[k]) \in Watches /\ P(k, Expire(x, q[k]))
  <2>1. q[k] \in Trackers /\ x.waiting[q[k]] # Nothing /\ Followed(x, now, r)
    BY <1>1, <1>3, <1>5
  <2>2. /\ Followed(Expire(x, q[k]), now, r)
        /\ Expire(x, q[k]).waiting = [x.waiting EXCEPT ![q[k]] = Nothing]
    BY <2>1, ExpireFollowed
  <2>4. Expire(x, q[k]).dev = x.dev
    BY <2>1 DEF Expire, Switched, Watches
  <2>3. ASSUME NEW l \in 1 .. n, k < l PROVE Expire(x, q[k]).waiting[q[l]] # Nothing
    <3>1. x.waiting \in [Trackers -> Changes \cup {Nothing}]  BY DEF Watches
    <3>2. q[l] # q[k] /\ q[l] \in Trackers  BY <1>1, <1>3, <2>3
    <3>3. x.waiting[q[l]] # Nothing  BY <1>3, <1>5, <2>3
    <3> QED  BY <2>2, <3>1, <3>2, <3>3
  <2> QED  BY <1>5, <2>2, <2>3, <2>4 DEF Followed
<1> HIDE DEF P
<1>6. n \in Nat /\ <<0, w>> \in G  BY <1>3, <1>4
<1>7. \A k \in 1 .. n, x \in Watches : <<k - 1, x>> \in G => <<k, Expire(x, q[k])>> \in G
  <2> SUFFICES ASSUME NEW k \in 1 .. n, NEW x \in Watches, <<k - 1, x>> \in G
               PROVE  <<k, Expire(x, q[k])>> \in G
    OBVIOUS
  <2>1. P(k - 1, x)  OBVIOUS
  <2> QED  BY <1>5, <2>1
<1>8. G \in SUBSET ((0 .. n) \X Watches)  OBVIOUS
<1> HIDE DEF G
<1>9. <<n, Along(Expire, w, q)>> \in G  BY ONLY <1>6, <1>7, <1>8, ExpireKeeps
<1> DEFINE y == Along(Expire, w, q)
<1>10. <<n, y>> \in G  BY <1>9
<1> HIDE DEF y
<1>11. P(n, y)  BY <1>10 DEF G
<1> QED  BY <1>11 DEF P, y, q

\* Where the first k samples of s saw d, and what they add to r.
Sightings(s, d, k) ==
  {<<s[i].time, s[i].frame.err>> : i \in {i \in 1 .. k : s[i].dev = d /\ s[i].tracks}}
Told(r, s, k) == [d \in DOMAIN r |-> r[d] \cup Sightings(s, d, k)]
Sighted(w, s, k, x) ==
  \A d \in Trackers : w.dev[d] # Unseen \/ Sightings(s, d, k) # {} => x.dev[d] # Unseen

\* One drain of the stream: each tracker's history goes through all its samples.
LEMMA NotedFollowed ==
  ASSUME NEW w, NEW now \in Nat, NEW r, Followed(w, now, r), NEW s \in Seq(Samples),
         \A i \in 1 .. Len(s) : s[i].time = now + i
  PROVE  /\ Followed(Along(Note, w, s), now + Len(s), Told(r, s, Len(s)))
         /\ Sighted(w, s, Len(s), Along(Note, w, s))
<1> DEFINE n == Len(s)
           P(k, x) == Followed(x, now + k, Told(r, s, k)) /\ Sighted(w, s, k, x)
           G == {p \in (0 .. n) \X Watches : P(p[1], p[2])}
<1>1. n \in Nat /\ \A k \in 1 .. n : s[k] \in Samples  OBVIOUS
<1>2. P(0, w) /\ w \in Watches
  <2>1. DOMAIN Told(r, s, 0) = DOMAIN r /\ \A d \in DOMAIN r : Told(r, s, 0)[d] = r[d]
    BY DEF Told, Sightings
  <2>2. Followed(w, now, Told(r, s, 0))
    <3> DEFINE q == Told(r, s, 0)
    <3>1. DOMAIN q = DOMAIN r /\ \A d \in DOMAIN q : \A p \in q[d] : p \in r[d]  BY <2>1
    <3> HIDE DEF q
    <3>2. Followed(w, now, q)  BY <3>1, SeenFollowed
    <3> QED  BY <3>2 DEF q
  <2>3. Sighted(w, s, 0, w)  BY DEF Sighted, Sightings
  <2> QED  BY <2>2, <2>3 DEF Followed
<1>3. ASSUME NEW k \in 1 .. n, NEW x \in Watches, P(k - 1, x)
      PROVE  Note(x, s[k]) \in Watches /\ P(k, Note(x, s[k]))
  <2> DEFINE m == s[k]
             y == Note(x, m)
             old == Told(r, s, k - 1)
             q == Told(r, s, k)
  <2>1. m \in Samples /\ m.time = now + k  BY <1>1
  <2>2. DOMAIN q = DOMAIN old /\ \A d \in DOMAIN q : \A p \in q[d] :
          p \in old[d] \/ (m.dev = d /\ m.tracks /\ p = <<m.time, m.frame.err>>)
    <3> SUFFICES ASSUME NEW d \in DOMAIN r, NEW p \in Sightings(s, d, k),
                        p \notin Sightings(s, d, k - 1)
                 PROVE  m.dev = d /\ m.tracks /\ p = <<m.time, m.frame.err>>
      BY DEF Told
    <3>1. PICK i \in 1 .. k : s[i].dev = d /\ s[i].tracks /\ p = <<s[i].time, s[i].frame.err>>
      BY DEF Sightings
    <3>2. i \notin 1 .. k - 1  BY <3>1 DEF Sightings
    <3>3. i = k  BY <3>2
    <3> QED  BY <3>1, <3>3
  <2>0. \A d \in Trackers : Sightings(s, d, k) # {} =>
          Sightings(s, d, k - 1) # {} \/ (m.dev = d /\ m.tracks)
    <3> SUFFICES ASSUME NEW d \in Trackers, Sightings(s, d, k) # {}, ~(m.dev = d /\ m.tracks)
                 PROVE  Sightings(s, d, k - 1) # {}
      OBVIOUS
    <3>1. PICK i \in 1 .. k : s[i].dev = d /\ s[i].tracks  BY DEF Sightings
    <3>2. i \in 1 .. k - 1  BY <3>1
    <3> QED  BY <3>1, <3>2 DEF Sightings
  <2> HIDE DEF m, q, old
  <2>3. now + (k - 1) \in Nat /\ now + (k - 1) < m.time  BY <2>1
  <2>4. /\ Followed(y, m.time, old)
        /\ \A e \in Trackers : x.dev[e] # Unseen => y.dev[e] # Unseen
        /\ m.tracks => y.dev[m.dev] # Unseen /\ y.dev[m.dev].frame = m.frame
    BY <1>3, <2>1, <2>3, NoteFollowed DEF old
  <2> HIDE DEF y
  <2>5. \A d \in DOMAIN q : \A p \in q[d] :
          p \in old[d] \/ (y.dev[d] # Unseen /\ p = <<m.time, y.dev[d].frame.err>>)
    BY <2>2, <2>4
  <2>6. m.time \in Nat  BY <2>1
  <2>7. Followed(y, m.time, q)  BY <2>2, <2>4, <2>5, <2>6, SeenFollowed
  <2>8. Sighted(w, s, k, y)  BY <1>3, <2>0, <2>4 DEF Sighted
  <2> QED  BY <2>1, <2>7, <2>8 DEF Followed, m, y, q
<1> HIDE DEF P
<1>4. n \in Nat /\ <<0, w>> \in G  BY <1>1, <1>2
<1>5. \A k \in 1 .. n, x \in Watches : <<k - 1, x>> \in G => <<k, Note(x, s[k])>> \in G
  <2> SUFFICES ASSUME NEW k \in 1 .. n, NEW x \in Watches, <<k - 1, x>> \in G
               PROVE  <<k, Note(x, s[k])>> \in G
    OBVIOUS
  <2>1. P(k - 1, x)  OBVIOUS
  <2> QED  BY <1>3, <2>1
<1>6. G \in SUBSET ((0 .. n) \X Watches)  OBVIOUS
<1> HIDE DEF G
<1>7. <<n, Along(Note, w, s)>> \in G  BY ONLY <1>4, <1>5, <1>6, NoteKeeps
<1> DEFINE y == Along(Note, w, s)
<1>8. <<n, y>> \in G  BY <1>7
<1> HIDE DEF y
<1>9. P(n, y)  BY <1>8 DEF G
<1> QED  BY <1>9 DEF P, y

LEMMA DrainedFollowed ==
  ASSUME NEW w, NEW now \in Nat, NEW r, Followed(w, now, r), NEW expired \in SUBSET Expired(w),
         toMonitor \in Seq(Samples), \A i \in 1 .. Len(toMonitor) : toMonitor[i].time = now + i
  PROVE  /\ Followed(Drained(w, expired), now + Len(toMonitor), Told(r, toMonitor, Len(toMonitor)))
         /\ Sighted(w, toMonitor, Len(toMonitor), Drained(w, expired))
<1> DEFINE y == Along(Expire, w, SetToSeq(expired))
<1>1. Followed(y, now, r) /\ y.dev = w.dev  BY ExpiredFollowed
<1> HIDE DEF y
<1>2. /\ Followed(Along(Note, y, toMonitor), now + Len(toMonitor),
                  Told(r, toMonitor, Len(toMonitor)))
      /\ Sighted(y, toMonitor, Len(toMonitor), Along(Note, y, toMonitor))
  BY <1>1, NotedFollowed
<1> QED  BY <1>1, <1>2 DEF Drained, Sighted, y

-----------------------------------------------------------------------------
(* The corrections, move by move.                                          *)

Corrections == [frames : [Trackers -> Transforms], usableAfter : [Trackers -> Nat],
                lost : SUBSET Trackers]

\* u is after the first k moves of d, before its others and the change that waits.
Cut(q, w, d, k, u) ==
  /\ \A i \in 1 .. Len(q) : q[i].dev = d => (i <= k <=> q[i].time <= u)
  /\ w.waiting[d] # Nothing => u < w.waiting[d].time

\* With the first k moves followed, d reads right where its frame was then.
Corrected(q, w, d, g, k, x, c) ==
  \/ d \in x.lost
  \/ /\ \A u \in Nat : Cut(q, w, d, k, u) => ReadsRight(c, x.frames[d], g[u])
     /\ w.waiting[d] # Nothing =>
          \A i \in 1 .. k : q[i].dev = d => q[i].time < w.waiting[d].time

\* What following a move does.
LEMMA CompensateDoes ==
  ASSUME NEW x \in Corrections, NEW w \in Watches, NEW m \in Moves
  PROVE  /\ Compensate(x, w, m) \in Corrections
         /\ x.lost \subseteq Compensate(x, w, m).lost
         /\ \A e \in Trackers \ {m.dev} : /\ Compensate(x, w, m).frames[e] = x.frames[e]
                                         /\ Compensate(x, w, m).usableAfter[e] = x.usableAfter[e]
         /\ m.dev \notin Compensate(x, w, m).lost =>
              /\ Compensate(x, w, m).frames[m.dev] = Undo(x.frames[m.dev], m.f)
              /\ x.usableAfter[m.dev] <= m.time /\ Compensate(x, w, m).usableAfter[m.dev] = m.time
              /\ w.waiting[m.dev] # Nothing => ~(w.waiting[m.dev].time < m.time)
<1> DEFINE d == m.dev
           y == Compensate(x, w, m)
           next == [x EXCEPT !.frames[d] = Undo(@, m.f), !.usableAfter[d] = m.time]
<1>1. d \in Trackers /\ m.time \in Nat /\ m.f \in Transforms  BY DEF Moves
<1>2. /\ x.frames \in [Trackers -> Transforms] /\ x.usableAfter \in [Trackers -> Nat]
      /\ x.lost \in SUBSET Trackers
  BY DEF Corrections
<1>3. Undo(x.frames[d], m.f) \in Transforms  BY <1>1, <1>2, TransformTypes
<1>4. /\ next \in Corrections /\ next.lost = x.lost
      /\ next.frames = [x.frames EXCEPT ![d] = Undo(x.frames[d], m.f)]
      /\ next.usableAfter = [x.usableAfter EXCEPT ![d] = m.time]
  BY <1>1, <1>2, <1>3 DEF Corrections
<1>5. \A z \in Corrections : /\ Lose(z, d) \in Corrections /\ Lose(z, d).frames = z.frames
                             /\ Lose(z, d).usableAfter = z.usableAfter
                             /\ Lose(z, d).lost = z.lost \cup {d}
  BY <1>1 DEF Lose, Corrections
<1>6. \/ y = Lose(x, d)
      \/ y = Lose(next, d)
      \/ /\ y = next /\ x.usableAfter[d] <= m.time
         /\ w.waiting[d] # Nothing => ~(w.waiting[d].time < m.time)
  BY <1>1, <1>2 DEF Compensate, Follow
<1> HIDE DEF y, next, d
<1>7. CASE y = Lose(x, d)  BY <1>1, <1>5, <1>7 DEF y, d
<1>8. CASE y = Lose(next, d)  BY <1>1, <1>2, <1>4, <1>5, <1>8 DEF y, d
<1>9. CASE /\ y = next /\ x.usableAfter[d] <= m.time
           /\ w.waiting[d] # Nothing => ~(w.waiting[d].time < m.time)
  BY <1>1, <1>2, <1>4, <1>9 DEF y, d
<1> QED  BY <1>6, <1>7, <1>8, <1>9

LEMMA CompensateCorrects ==
  ASSUME NEW w \in Watches, NEW now \in Nat, Timely(w, now),
         NEW q, InOrder(q, w.moves, Len(w.moves)), NEW d \in Trackers, NEW g \in Histories,
         NEW cur \in Transforms, Chain(w, d, g, now, cur), NEW c \in Transforms,
         NEW k \in 1 .. Len(q), NEW x \in Corrections, Corrected(q, w, d, g, k - 1, x, c)
  PROVE  Corrected(q, w, d, g, k, Compensate(x, w, q[k]), c)
<1> DEFINE m == q[k]
           y == Compensate(x, w, m)
<1>1. /\ q \in Seq(Moves) /\ Apart(q)
      /\ \A i \in 1 .. Len(q) : \E l \in 1 .. Len(w.moves) : q[i] = w.moves[l]
      /\ \A l \in 1 .. Len(w.moves) : \E i \in 1 .. Len(q) : q[i] = w.moves[l]
      /\ \A i, j \in 1 .. Len(q) : i < j => q[i].time <= q[j].time
  BY DEF InOrder, Timely
<1>2. Len(q) \in Nat /\ \A i \in 1 .. Len(q) : q[i] \in Moves  BY <1>1
<1>3. m \in Moves  BY <1>2
<1>4. \A i \in 1 .. Len(q) : q[i].time \in Nat /\ 0 < q[i].time /\ q[i].f \in Transforms
  <2> SUFFICES ASSUME NEW i \in 1 .. Len(q)
               PROVE  q[i].time \in Nat /\ 0 < q[i].time /\ q[i].f \in Transforms
    OBVIOUS
  <2>1. q[i].time \in Nat /\ q[i].f \in Transforms  BY <1>2 DEF Moves
  <2>2. PICK l \in 1 .. Len(w.moves) : q[i] = w.moves[l]  BY <1>1
  <2> QED  BY <2>1, <2>2 DEF Timely
<1>5. /\ y \in Corrections /\ x.lost \subseteq y.lost
      /\ \A e \in Trackers \ {m.dev} : y.frames[e] = x.frames[e]
      /\ m.dev \notin y.lost =>
           /\ y.frames[m.dev] = Undo(x.frames[m.dev], m.f)
           /\ w.waiting[m.dev] # Nothing => ~(w.waiting[m.dev].time < m.time)
  BY <1>3, CompensateDoes
<1>6. k \in Nat /\ k - 1 \in Nat /\ 1 <= k /\ k <= Len(q)  BY <1>2
<1> SUFFICES ASSUME d \notin y.lost PROVE Corrected(q, w, d, g, k, y, c)
  BY DEF Corrected
<1>7. m = q[k]  OBVIOUS
<1> HIDE DEF m, y
<1>8. /\ \A u \in Nat : Cut(q, w, d, k - 1, u) => ReadsRight(c, x.frames[d], g[u])
      /\ w.waiting[d] # Nothing =>
           \A i \in 1 .. k - 1 : q[i].dev = d => q[i].time < w.waiting[d].time
  BY <1>5 DEF Corrected
<1>9. w.waiting[d] # Nothing =>
        /\ w.waiting[d].time \in Nat
        /\ \A i \in 1 .. Len(q) : q[i].dev = d => q[i].time # w.waiting[d].time
  <2> SUFFICES ASSUME w.waiting[d] # Nothing
               PROVE  /\ w.waiting[d].time \in Nat
                      /\ \A i \in 1 .. Len(q) : q[i].dev = d => q[i].time # w.waiting[d].time
    OBVIOUS
  <2>1. w.waiting[d].time \in Nat  BY WaitingChange
  <2>2. \A l \in 1 .. Len(w.moves) : w.moves[l].dev = d => w.moves[l].time # w.waiting[d].time
    BY DEF Timely
  <2>3. ASSUME NEW i \in 1 .. Len(q), q[i].dev = d PROVE q[i].time # w.waiting[d].time
    <3>1. PICK l \in 1 .. Len(w.moves) : q[i] = w.moves[l]  BY <1>1
    <3> QED  BY <2>2, <2>3, <3>1
  <2> QED  BY <2>1, <2>3
<1>10. CASE m.dev = d
  <2>1. ASSUME NEW u \in Nat, Cut(q, w, d, k, u) PROVE ReadsRight(c, y.frames[d], g[u])
    <3> DEFINE t == m.time
    <3>1. /\ t \in Nat /\ 0 < t /\ m.f \in Transforms /\ t - 1 \in Nat /\ t <= u
      BY <1>4, <1>6, <1>7, <1>10, <2>1 DEF Cut
    <3>2. Cut(q, w, d, k - 1, t - 1)
      <4>1. ASSUME NEW i \in 1 .. Len(q), q[i].dev = d
            PROVE  i <= k - 1 <=> q[i].time <= t - 1
        <5>1. CASE i = k  BY <1>6, <1>7, <3>1, <5>1
        <5>2. CASE i < k
          <6>1. q[i].time <= q[k].time  BY <1>1, <1>6, <5>2
          <6>2. q[i].time # q[k].time  BY <1>1, <1>6, <1>7, <1>10, <4>1, <5>2 DEF Apart
          <6> QED  BY <1>4, <1>6, <1>7, <3>1, <5>2, <6>1, <6>2
        <5>3. CASE k < i
          <6>1. q[k].time <= q[i].time  BY <1>1, <1>6, <5>3
          <6> QED  BY <1>4, <1>6, <1>7, <3>1, <5>3, <6>1
        <5> QED  BY <1>6, <5>1, <5>2, <5>3
      <4>2. w.waiting[d] # Nothing => t - 1 < w.waiting[d].time
        BY <1>9, <2>1, <3>1 DEF Cut
      <4> QED  BY <4>1, <4>2 DEF Cut
    <3>3. ReadsRight(c, x.frames[d], g[t - 1])  BY <1>8, <3>1, <3>2
    <3>4. m.f = Between(g[t - 1], g[t])
      <4>1. PICK l \in 1 .. Len(w.moves) : q[k] = w.moves[l]  BY <1>1
      <4> QED  BY <1>7, <1>10, <4>1 DEF Chain
    <3>5. y.frames[d] = Undo(x.frames[d], Between(g[t - 1], g[t]))  BY <1>5, <1>10, <3>4
    <3>6. x.frames[d] \in Transforms /\ g[t - 1] \in Transforms /\ g[t] \in Transforms
      BY <3>1 DEF Corrections, Histories
    <3>7. ReadsRight(c, y.frames[d], g[t])  BY <3>3, <3>5, <3>6, FollowedReads
    <3>8. ASSUME NEW a \in Nat, t < a, a <= u PROVE ~Event(w, d, a)
      <4>1. ASSUME NEW l \in 1 .. Len(w.moves), w.moves[l].dev = d, w.moves[l].time = a
            PROVE  FALSE
        <5>1. PICK i \in 1 .. Len(q) : q[i] = w.moves[l]  BY <1>1
        <5>2. q[i].dev = d /\ q[i].time = a  BY <4>1, <5>1
        <5>3. i <= k  BY <2>1, <3>8, <5>2 DEF Cut
        <5>4. q[i].time <= q[k].time
          <6>1. i \in 1 .. Len(q) /\ k \in 1 .. Len(q)  OBVIOUS
          <6>2. CASE i = k  BY <1>4, <6>1, <6>2
          <6>3. CASE i # k
            <7>1. i < k  BY ONLY <1>6, <5>3, <6>1, <6>3
            <7> QED  BY <1>1, <6>1, <7>1
          <6> QED  BY <6>2, <6>3
        <5> QED  BY <1>7, <3>1, <3>8, <5>2, <5>4
      <4>2. w.waiting[d] # Nothing => a # w.waiting[d].time  BY <1>9, <2>1, <3>8 DEF Cut
      <4> QED  BY <4>1, <4>2 DEF Event
    <3>9. g[t] = g[u]  BY <3>1, <3>8 DEF Chain
    <3> QED  BY <3>7, <3>9
  <2>2. ASSUME w.waiting[d] # Nothing, NEW i \in 1 .. k, q[i].dev = d
        PROVE  q[i].time < w.waiting[d].time
    <3>1. CASE i = k
      <4>1. ~(w.waiting[d].time < m.time)  BY <1>5, <1>10, <2>2
      <4>2. m.time # w.waiting[d].time /\ m.time \in Nat
        BY <1>4, <1>6, <1>7, <1>9, <1>10, <2>2
      <4> QED  BY <1>7, <1>9, <2>2, <3>1, <4>1, <4>2
    <3>2. CASE i # k
      <4>1. i \in 1 .. k - 1  BY <1>6, <3>2
      <4> QED  BY <1>8, <2>2, <4>1
    <3> QED  BY <3>1, <3>2
  <2> QED  BY <2>1, <2>2 DEF Corrected
<1>11. CASE m.dev # d
  <2>1. ASSUME NEW u \in Nat, Cut(q, w, d, k, u) PROVE ReadsRight(c, y.frames[d], g[u])
    <3>1. ASSUME NEW i \in 1 .. Len(q), q[i].dev = d PROVE i <= k - 1 <=> q[i].time <= u
      <4>1. i # k  BY <1>7, <1>11, <3>1
      <4>2. i <= k <=> q[i].time <= u  BY <2>1, <3>1 DEF Cut
      <4>3. i <= k - 1 <=> i <= k  BY <1>6, <4>1
      <4> QED  BY <4>2, <4>3
    <3>2. Cut(q, w, d, k - 1, u)  BY <2>1, <3>1 DEF Cut
    <3> QED  BY <1>5, <1>8, <1>11, <3>2
  <2>2. ASSUME w.waiting[d] # Nothing, NEW i \in 1 .. k, q[i].dev = d
        PROVE  q[i].time < w.waiting[d].time
    <3>1. i \in 1 .. k - 1  BY <1>6, <1>7, <1>11, <2>2
    <3> QED  BY <1>8, <2>2, <3>1
  <2> QED  BY <2>1, <2>2 DEF Corrected
<1> QED  BY <1>10, <1>11

\* Where a tracker's frame is known to have been: where it is, or before the change that waits.
Ref(w, d) == IF w.waiting[d] = Nothing THEN w.dev[d].frame.err ELSE w.waiting[d].from.err

\* A tracker reads right there, and the change that waits is all that came since.
RightOn(w, x, c, d) ==
  w.dev[d] # Unseen =>
    /\ ReadsRight(c, x.frames[d], Ref(w, d))
    /\ w.waiting[d] # Nothing => w.waiting[d].to.err = w.dev[d].frame.err

\* With every move followed a tracker reads right on its reference.
LEMMA CorrectedRight ==
  ASSUME NEW w \in Watches, NEW now \in Nat, Timely(w, now),
         NEW q, InOrder(q, w.moves, Len(w.moves)), NEW d \in Trackers, NEW g \in Histories,
         w.dev[d] # Unseen, Chain(w, d, g, now, w.dev[d].frame.err), NEW c \in Transforms,
         NEW x \in Corrections, d \notin x.lost, Corrected(q, w, d, g, Len(q), x, c)
  PROVE  RightOn(w, x, c, d)
<1>1. q \in Seq(Moves) /\ \A i \in 1 .. Len(q) : \E l \in 1 .. Len(w.moves) : q[i] = w.moves[l]
  BY DEF InOrder
<1>2. Len(q) \in Nat /\ \A i \in 1 .. Len(q) : q[i] \in Moves  BY <1>1
<1>3. \A i \in 1 .. Len(q) : q[i].time \in Nat /\ q[i].time <= now
  <2> SUFFICES ASSUME NEW i \in 1 .. Len(q) PROVE q[i].time \in Nat /\ q[i].time <= now
    OBVIOUS
  <2>1. q[i].time \in Nat  BY <1>2 DEF Moves
  <2>2. PICK l \in 1 .. Len(w.moves) : q[i] = w.moves[l]  BY <1>1
  <2> QED  BY <2>1, <2>2 DEF Timely
<1>4. CASE w.waiting[d] = Nothing
  <2>1. Cut(q, w, d, Len(q), now)  BY <1>2, <1>3, <1>4 DEF Cut
  <2>2. ReadsRight(c, x.frames[d], g[now])  BY <2>1 DEF Corrected
  <2>3. g[now] = w.dev[d].frame.err  BY DEF Chain
  <2> QED  BY <1>4, <2>2, <2>3 DEF RightOn, Ref
<1>5. CASE w.waiting[d] # Nothing
  <2> DEFINE t == w.waiting[d].time
  <2>1. t \in Nat /\ t # 0 /\ t - 1 \in Nat /\ t <= now
    <3>1. w.waiting[d].time \in Nat \ {0}  BY <1>5, WaitingChange
    <3>2. w.waiting[d].time <= now  BY <1>5 DEF Timely
    <3> QED  BY <3>1, <3>2
  <2>2. g[t - 1] = w.waiting[d].from.err /\ g[t] = w.waiting[d].to.err  BY <1>5 DEF Chain
  <2>3. \A i \in 1 .. Len(q) : q[i].dev = d => q[i].time < t  BY <1>5 DEF Corrected
  <2> HIDE DEF t
  <2>4. t - 1 < t /\ \A i \in 1 .. Len(q) : q[i].dev = d => (i <= Len(q) <=> q[i].time <= t - 1)
    BY <1>2, <1>3, <2>1, <2>3
  <2>5. Cut(q, w, d, Len(q), t - 1)  BY <2>4 DEF Cut, t
  <2>6. ReadsRight(c, x.frames[d], g[t - 1])  BY <2>1, <2>5 DEF Corrected
  <2>7. ASSUME NEW a \in Nat, t < a, a <= now PROVE ~Event(w, d, a)
    <3>1. ASSUME NEW l \in 1 .. Len(w.moves), w.moves[l].dev = d, w.moves[l].time = a
          PROVE  FALSE
      <4>1. PICK i \in 1 .. Len(q) : q[i] = w.moves[l]  BY DEF InOrder
      <4>2. q[i].time < t /\ q[i].time = a  BY <2>3, <3>1, <4>1
      <4> QED  BY <2>1, <2>7, <4>2
    <3>2. t # a  BY <2>1, <2>7
    <3> QED  BY <3>1, <3>2 DEF Event, t
  <2>8. g[t] = g[now]  BY <2>1, <2>7 DEF Chain
  <2>9. g[now] = w.dev[d].frame.err  BY DEF Chain
  <2> QED  BY <1>5, <2>2, <2>6, <2>8, <2>9 DEF RightOn, Ref
<1> QED  BY <1>4, <1>5

\* The moves of one drain, followed.
LEMMA CompensatedRight ==
  ASSUME NEW w, NEW now \in Nat, NEW r, Followed(w, now, r), NEW a \in Corrections,
         NEW c \in Transforms, DOMAIN r \subseteq Trackers \ a.lost,
         \A d \in DOMAIN r, g \in Histories : Through(g, r[d]) => ReadsRight(c, a.frames[d], g[0])
  PROVE  /\ CompensateTrackerFrameMoves(a, w) \in Corrections
         /\ a.lost \subseteq CompensateTrackerFrameMoves(a, w).lost
         /\ \A d \in DOMAIN r : d \notin CompensateTrackerFrameMoves(a, w).lost /\ ~Broken(w, d) =>
              RightOn(w, CompensateTrackerFrameMoves(a, w), c, d)
         /\ \A d \in Trackers \ CompensateTrackerFrameMoves(a, w).lost, l \in 1 .. Len(w.moves) :
              w.moves[l].dev = d =>
                w.moves[l].time <= CompensateTrackerFrameMoves(a, w).usableAfter[d]
<1> DEFINE q == Along(Insert, <<>>, w.moves)
           n == Len(q)
           Of(d, g, cur) == Chain(w, d, g, now, cur) /\ d \in DOMAIN r /\ Through(g, r[d])
           Usable(k, x) == \A d \in Trackers \ x.lost, i \in 1 .. k :
                             q[i].dev = d => q[i].time <= x.usableAfter[d]
           P(k, x) == /\ a.lost \subseteq x.lost /\ Usable(k, x)
                      /\ \A d \in Trackers, g \in Histories, cur \in Transforms :
                           Of(d, g, cur) => Corrected(q, w, d, g, k, x, c)
           G == {p \in (0 .. n) \X Corrections : P(p[1], p[2])}
           y == Compensated(w, a, q)
<1>1. w \in Watches /\ Timely(w, now)  BY DEF Followed
<1>2. w.moves \in Seq(Moves)  BY <1>1 DEF Watches
<1>3. InOrder(q, w.moves, Len(w.moves))  BY <1>2, MovesInOrder
<1>4. CompensateTrackerFrameMoves(a, w) = y
  BY DEF CompensateTrackerFrameMoves, Compensated
<1> HIDE DEF q
<1>5. q \in Seq(Moves) /\ \A i \in 1 .. n : \E l \in 1 .. Len(w.moves) : q[i] = w.moves[l]
  BY <1>3 DEF InOrder
<1>6. n \in Nat /\ \A i \in 1 .. n : q[i] \in Moves  BY <1>5
<1>7. ASSUME NEW d \in Trackers, NEW g \in Histories, NEW cur \in Transforms, Of(d, g, cur)
      PROVE  Corrected(q, w, d, g, 0, a, c)
  <2>2. ReadsRight(c, a.frames[d], g[0])  BY <1>7
  <2>3. ASSUME NEW u \in Nat, Cut(q, w, d, 0, u) PROVE g[0] = g[u]
    <3>1. ASSUME NEW b \in Nat, 0 < b, b <= u PROVE ~Event(w, d, b)
      <4>1. ASSUME NEW l \in 1 .. Len(w.moves), w.moves[l].dev = d, w.moves[l].time = b
            PROVE  FALSE
        <5>1. PICK i \in 1 .. n : q[i] = w.moves[l]  BY <1>3 DEF InOrder
        <5>2. ~(q[i].time <= u)  BY <2>3, <4>1, <5>1 DEF Cut
        <5> QED  BY <3>1, <4>1, <5>1, <5>2
      <4>2. w.waiting[d] # Nothing => b # w.waiting[d].time
        <5>1. w.waiting[d] # Nothing => w.waiting[d].time \in Nat  BY <1>1, WaitingChange
        <5> QED  BY <2>3, <3>1, <5>1 DEF Cut
      <4> QED  BY <4>1, <4>2 DEF Event
    <3> QED  BY <1>7, <3>1 DEF Chain
  <2> QED  BY <2>2, <2>3 DEF Corrected
<1>8. P(0, a)  BY <1>7
<1>9. ASSUME NEW k \in 1 .. n, NEW x \in Corrections, P(k - 1, x)
      PROVE  Compensate(x, w, q[k]) \in Corrections /\ P(k, Compensate(x, w, q[k]))
  <2>1. Compensate(x, w, q[k]) \in Corrections /\ x.lost \subseteq Compensate(x, w, q[k]).lost
    BY <1>1, <1>6, CompensateDoes
  <2>2. ASSUME NEW d \in Trackers, NEW g \in Histories, NEW cur \in Transforms, Of(d, g, cur)
        PROVE  Corrected(q, w, d, g, k, Compensate(x, w, q[k]), c)
    <3>1. Corrected(q, w, d, g, k - 1, x, c)  BY <1>9, <2>2
    <3>2. Chain(w, d, g, now, cur)  BY <2>2
    <3> QED  BY <1>1, <1>3, <3>1, <3>2, CompensateCorrects
  <2>3. ASSUME NEW d \in Trackers, d \notin Compensate(x, w, q[k]).lost, NEW i \in 1 .. k,
               q[i].dev = d
        PROVE  q[i].time <= Compensate(x, w, q[k]).usableAfter[d]
    <3>1. /\ q[k] \in Moves /\ q[k].time \in Nat /\ q[i].time \in Nat /\ x.usableAfter[d] \in Nat
      BY <1>6 DEF Moves, Corrections
    <3>2. d \notin x.lost  BY <2>1, <2>3
    <3>3. i # k => q[i].time <= x.usableAfter[d]
      <4>1. i # k => i \in 1 .. k - 1  BY <1>6
      <4> QED  BY <1>9, <2>3, <3>2, <4>1
    <3>4. CASE q[k].dev = d
      <4>1. /\ x.usableAfter[d] <= q[k].time
            /\ Compensate(x, w, q[k]).usableAfter[d] = q[k].time
        BY <1>1, <2>3, <3>1, <3>4, CompensateDoes
      <4> QED  BY <3>1, <3>3, <4>1
    <3>5. CASE q[k].dev # d
      <4>1. Compensate(x, w, q[k]).usableAfter[d] = x.usableAfter[d]
        BY <1>1, <3>1, <3>5, CompensateDoes
      <4> QED  BY <2>3, <3>3, <3>5, <4>1
    <3> QED  BY <3>4, <3>5
  <2> QED  BY <1>9, <2>1, <2>2, <2>3
<1> HIDE DEF P
<1>10. n \in Nat /\ <<0, a>> \in G  BY <1>6, <1>8
<1>11. \A k \in 1 .. n, x \in Corrections : <<k - 1, x>> \in G => <<k, Compensate(x, w, q[k])>> \in G
  <2> SUFFICES ASSUME NEW k \in 1 .. n, NEW x \in Corrections, <<k - 1, x>> \in G
               PROVE  <<k, Compensate(x, w, q[k])>> \in G
    OBVIOUS
  <2>1. P(k - 1, x)  OBVIOUS
  <2> QED  BY <1>9, <2>1
<1>12. G \in SUBSET ((0 .. n) \X Corrections)  OBVIOUS
<1> HIDE DEF G
<1>13. <<n, Compensated(w, a, q)>> \in G  BY ONLY <1>10, <1>11, <1>12, CompensatedKeeps
<1>14. <<n, y>> \in G  BY <1>13
<1> HIDE DEF y
<1>15. P(n, y) /\ y \in Corrections  BY <1>14 DEF G
<1>16. ASSUME NEW d \in DOMAIN r, d \notin y.lost, ~Broken(w, d), w.dev[d] # Unseen
       PROVE  RightOn(w, y, c, d)
  <2>1. d \in Trackers /\ d \in DOMAIN r  OBVIOUS
  <2>2. PICK g \in Histories : Through(g, r[d]) /\ Chain(w, d, g, now, w.dev[d].frame.err)
    BY <1>16, <2>1 DEF Followed, Reaches
  <2>3. w.dev[d].frame.err \in Transforms  BY <1>1, <1>16, SeenFrame
  <2>4. Corrected(q, w, d, g, n, y, c)  BY <1>15, <2>1, <2>2, <2>3 DEF P
  <2> QED  BY <1>1, <1>3, <1>15, <1>16, <2>2, <2>4, CorrectedRight
<1>17. ASSUME NEW d \in Trackers, w.dev[d] = Unseen PROVE RightOn(w, y, c, d)
  BY <1>17 DEF RightOn
<1>18. ASSUME NEW d \in Trackers \ y.lost, NEW l \in 1 .. Len(w.moves), w.moves[l].dev = d
       PROVE  w.moves[l].time <= y.usableAfter[d]
  <2>1. PICK i \in 1 .. n : q[i] = w.moves[l]  BY <1>3 DEF InOrder
  <2> QED  BY <1>15, <1>18, <2>1 DEF P
<1> QED  BY <1>4, <1>15, <1>16, <1>17, <1>18 DEF P

-----------------------------------------------------------------------------
(* The corrections, switch by switch.                                      *)

\* Every tracker whose frame was followed reads right.
AllRight(w, x, c) == x \in Corrections /\ \A d \in Trackers \ x.lost : RightOn(w, x, c, d)

\* A device takes the correction of one that shares its frame.
LEMMA TakeRight ==
  ASSUME NEW w, NEW x, NEW c, AllRight(w, x, c), NEW keep, NEW to \in Trackers,
         NEW from \in Trackers, Settled(w, to), Settled(w, from),
         w.dev[to].frame = w.dev[from].frame
  PROVE  AllRight(w, Take(x, keep, to, from), c)
<1> DEFINE lost == IF from \in x.lost THEN x.lost \cup {to} ELSE x.lost \ {to}
           y == Take(x, keep, to, from)
<1>1. /\ x \in Corrections /\ x.frames \in [Trackers -> Transforms]
      /\ x.usableAfter \in [Trackers -> Nat] /\ x.lost \in SUBSET Trackers
  BY DEF AllRight, Corrections
<1>2. CASE to \in keep \/ x.frames[to] = x.frames[from]
  <2>1. y = x  BY <1>2 DEF Take
  <2> QED  BY <2>1
<1>3. CASE ~(to \in keep \/ x.frames[to] = x.frames[from])
  <2>1. y = [x EXCEPT !.frames = [x.frames EXCEPT ![to] = x.frames[from]], !.lost = lost]
    BY <1>1, <1>3 DEF Take, Corrections
  <2>2. /\ y.frames = [x.frames EXCEPT ![to] = x.frames[from]]
        /\ y.usableAfter = x.usableAfter /\ y.lost = lost
    BY <1>1, <2>1 DEF Corrections
  <2>3. /\ y.frames \in [Trackers -> Transforms] /\ lost \in SUBSET Trackers
        /\ y.frames[to] = x.frames[from]
        /\ \A e \in Trackers \ {to} : y.frames[e] = x.frames[e]
    BY <1>1, <2>2
  <2>4. y \in Corrections  BY <1>1, <2>1, <2>3 DEF Corrections
  <2> HIDE DEF y
  <2>5. ASSUME NEW d \in Trackers \ y.lost PROVE RightOn(w, y, c, d)
    <3>1. CASE d = to
      <4>1. from \notin x.lost  BY <2>2, <2>5, <3>1
      <4>2. RightOn(w, x, c, from)  BY <4>1 DEF AllRight
      <4> QED  BY <2>3, <3>1, <4>2 DEF RightOn, Ref, Settled
    <3>2. CASE d # to
      <4>1. d \notin x.lost  BY <2>2, <2>5, <3>2
      <4>2. RightOn(w, x, c, d)  BY <4>1 DEF AllRight
      <4> QED  BY <2>3, <3>2, <4>2 DEF RightOn
    <3> QED  BY <3>1, <3>2
  <2>6. AllRight(w, y, c)  BY <2>4, <2>5 DEF AllRight
  <2> QED  BY <2>6 DEF y
<1> QED  BY <1>2, <1>3

\* The headset tracker gives its correction to the devices that share its frame.
LEMMA GiveRight ==
  ASSUME NEW w, NEW x, NEW c, AllRight(w, x, c), NEW keep, NEW d \in Trackers, Settled(w, d),
         NEW mates \in SUBSET Trackers,
         \A e \in mates : Settled(w, e) /\ w.dev[e].frame = w.dev[d].frame
  PROVE  AllRight(w, Given(keep, d, x, SetToSeq(mates)), c)
<1> DEFINE q == SetToSeq(mates)
           n == Len(q)
           G == {p \in (0 .. n) \X Corrections : AllRight(w, p[2], c)}
<1>1. IsFiniteSet(mates)  BY DevicesAssumption, FS_Subset
<1>2. n \in Nat /\ \A k \in 1 .. n : q[k] \in mates  BY <1>1, ListOf
<1> HIDE DEF q
<1>3. n \in Nat /\ <<0, x>> \in G  BY <1>2 DEF AllRight
<1>4. ASSUME NEW k \in 1 .. n, NEW y \in Corrections, <<k - 1, y>> \in G
      PROVE  <<k, Take(y, keep, q[k], d)>> \in G
  <2>1. AllRight(w, y, c)  BY <1>4
  <2>2. q[k] \in Trackers /\ Settled(w, q[k]) /\ w.dev[q[k]].frame = w.dev[d].frame  BY <1>2
  <2>3. AllRight(w, Take(y, keep, q[k], d), c)  BY <2>1, <2>2, TakeRight
  <2> QED  BY <1>2, <2>3 DEF AllRight
<1>5. G \in SUBSET ((0 .. n) \X Corrections)  OBVIOUS
<1> HIDE DEF G
<1>6. \A k \in 1 .. n, y \in Corrections : <<k - 1, y>> \in G => <<k, Take(y, keep, q[k], d)>> \in G
  BY <1>4
<1>7. <<n, Given(keep, d, x, q)>> \in G  BY ONLY <1>3, <1>5, <1>6, GivenKeeps
<1> DEFINE y == Given(keep, d, x, q)
<1>8. <<n, y>> \in G  BY <1>7
<1> HIDE DEF y
<1>9. AllRight(w, y, c)  BY <1>8 DEF G
<1> QED  BY <1>9 DEF y, q

LEMMA JoinRight ==
  ASSUME NEW w, NEW x, NEW c, AllRight(w, x, c), NEW keep, NEW switch \in Switches
  PROVE  AllRight(w, Join(x, w, Headset, keep, switch), c)
<1> DEFINE d == switch.dev
           mates == {e \in Trackers \ {d} : Settled(w, e) /\ LastFrameIs(w, e, w.dev[d].frame)}
           from == IF Headset \in mates THEN Headset ELSE CHOOSE e \in mates : TRUE
           taken == Take(x, keep, d, from)
           y == Join(x, w, Headset, keep, switch)
<1>1. d \in Trackers  BY DEF Switches
<1>2. mates \in SUBSET Trackers /\ \A e \in mates : Settled(w, e) /\ w.dev[e].frame = w.dev[d].frame
  BY DEF LastFrameIs
<1>3. \/ y = x
      \/ /\ Settled(w, d) /\ y = Given(keep, d, x, SetToSeq(mates))
      \/ /\ Settled(w, d) /\ mates # {}
         /\ y = [taken EXCEPT !.usableAfter[d] = IF @ < switch.time THEN switch.time ELSE @]
  BY DEF Join, Given
<1> HIDE DEF d, mates, y
<1>4. CASE Settled(w, d) /\ y = Given(keep, d, x, SetToSeq(mates))
  <2>1. AllRight(w, y, c)  BY <1>1, <1>2, <1>4, GiveRight
  <2> QED  BY <2>1 DEF y
<1>5. CASE /\ Settled(w, d) /\ mates # {}
           /\ y = [taken EXCEPT !.usableAfter[d] = IF @ < switch.time THEN switch.time ELSE @]
  <2>1. from \in mates  BY <1>5
  <2>2. from \in Trackers /\ Settled(w, from) /\ w.dev[from].frame = w.dev[d].frame
    BY <1>2, <2>1
  <2> HIDE DEF from
  <2>3. AllRight(w, taken, c)  BY <1>1, <1>5, <2>2, TakeRight
  <2> HIDE DEF taken
  <2>4. switch.time \in Nat  BY DEF Switches
  <2>5. /\ y \in Corrections /\ y.frames = taken.frames /\ y.lost = taken.lost
    BY <1>1, <1>5, <2>3, <2>4 DEF AllRight, Corrections
  <2>6. AllRight(w, y, c)  BY <2>3, <2>5 DEF AllRight, RightOn
  <2> QED  BY <2>6 DEF y
<1>6. CASE y = x  BY <1>6 DEF y
<1> QED  BY <1>3, <1>4, <1>5, <1>6

LEMMA JoinedRight ==
  ASSUME NEW w \in Watches, NEW a \in Corrections, NEW c, NEW keep,
         \A d \in Trackers : d \notin a.lost /\ ~Broken(w, d) => RightOn(w, a, c, d)
  PROVE  AllRight(w, JoinTrackerFrames(a, w, Headset, keep), c)
<1> DEFINE unvouched == {w.switches[i].dev :
                           i \in {i \in DOMAIN w.switches : w.switches[i].cause # "re-expressed"}}
           x == [a EXCEPT !.lost = @ \cup unvouched \cup w.dropped]
           s == w.switches
           n == Len(s)
           G == {p \in (0 .. n) \X Corrections : AllRight(w, p[2], c)}
<1>1. JoinTrackerFrames(a, w, Headset, keep) = Joined(w, keep, x, s)
  BY DEF JoinTrackerFrames, Joined
<1>2. s \in Seq(Switches)  BY DEF Watches
<1>3. n \in Nat /\ DOMAIN s = 1 .. n /\ \A k \in 1 .. n : s[k] \in Switches  BY <1>2
<1>4. unvouched \subseteq Trackers
  <2>1. \A k \in 1 .. n : s[k].dev \in Trackers  BY <1>3 DEF Switches
  <2> QED  BY <1>3, <2>1
<1>5. \A d \in Trackers : Broken(w, d) => d \in unvouched \cup w.dropped  BY <1>3 DEF Broken
<1> HIDE DEF unvouched
<1>6. x \in Corrections /\ x.frames = a.frames /\ x.lost = a.lost \cup unvouched \cup w.dropped
  BY <1>4 DEF Corrections, Watches
<1> HIDE DEF x
<1>7. AllRight(w, x, c)
  <2>1. ASSUME NEW d \in Trackers \ x.lost PROVE RightOn(w, x, c, d)
    <3>1. RightOn(w, a, c, d)  BY <1>5, <1>6, <2>1
    <3> QED  BY <1>6, <3>1 DEF RightOn
  <2> QED  BY <1>6, <2>1 DEF AllRight
<1> HIDE DEF s
<1>8. n \in Nat /\ <<0, x>> \in G  BY <1>3, <1>6, <1>7
<1>9. ASSUME NEW k \in 1 .. n, NEW y \in Corrections, <<k - 1, y>> \in G
      PROVE  <<k, Join(y, w, Headset, keep, s[k])>> \in G
  <2>1. AllRight(w, y, c)  BY <1>9
  <2>2. AllRight(w, Join(y, w, Headset, keep, s[k]), c)  BY <1>3, <2>1, JoinRight
  <2> QED  BY <1>3, <2>2 DEF AllRight
<1>10. G \in SUBSET ((0 .. n) \X Corrections)  OBVIOUS
<1> HIDE DEF G
<1>11. \A k \in 1 .. n, y \in Corrections :
         <<k - 1, y>> \in G => <<k, Join(y, w, Headset, keep, s[k])>> \in G
  BY <1>9
<1>12. <<n, Joined(w, keep, x, s)>> \in G  BY ONLY <1>8, <1>10, <1>11, JoinedKeeps
<1> DEFINE y == Joined(w, keep, x, s)
<1>13. <<n, y>> \in G  BY <1>12
<1> HIDE DEF y
<1>14. AllRight(w, y, c)  BY <1>13 DEF G
<1> QED  BY <1>1, <1>14 DEF y

\* A target that is measured keeps its correction.
Kept(x, y) ==
  /\ y \in Corrections /\ y.frames[Target] = x.frames[Target]
  /\ y.usableAfter[Target] = x.usableAfter[Target] /\ (Target \in y.lost <=> Target \in x.lost)

LEMMA TakeKept ==
  ASSUME NEW x \in Corrections, NEW to \in Trackers, NEW from \in Trackers
  PROVE  Kept(x, Take(x, {Target}, to, from))
<1> DEFINE lost == IF from \in x.lost THEN x.lost \cup {to} ELSE x.lost \ {to}
           y == Take(x, {Target}, to, from)
<1>1. /\ x.frames \in [Trackers -> Transforms] /\ x.usableAfter \in [Trackers -> Nat]
      /\ x.lost \in SUBSET Trackers
  BY DEF Corrections
<1>2. \/ y = x
      \/ to # Target /\ y = [x EXCEPT !.frames = [x.frames EXCEPT ![to] = x.frames[from]],
                                      !.lost = lost]
  BY <1>1 DEF Take, Corrections
<1>3. lost \in SUBSET Trackers /\ (to # Target => (Target \in lost <=> Target \in x.lost))
  BY <1>1
<1>4. [x.frames EXCEPT ![to] = x.frames[from]] \in [Trackers -> Transforms]  BY <1>1
<1> HIDE DEF y, lost
<1>5. CASE y = x  BY <1>5 DEF Kept, y
<1>6. CASE to # Target /\ y = [x EXCEPT !.frames = [x.frames EXCEPT ![to] = x.frames[from]],
                                        !.lost = lost]
  <2>1. /\ y.frames = [x.frames EXCEPT ![to] = x.frames[from]]
        /\ y.usableAfter = x.usableAfter /\ y.lost = lost
    BY <1>6 DEF Corrections
  <2>2. y \in Corrections  BY <1>1, <1>3, <1>4, <1>6 DEF Corrections
  <2>3. y.frames[Target] = x.frames[Target]  BY <1>1, <1>6, <2>1, TargetAssumption
  <2>4. Kept(x, y)  BY <1>3, <1>6, <2>1, <2>2, <2>3 DEF Kept
  <2> QED  BY <2>4 DEF y
<1> QED  BY <1>2, <1>5, <1>6

LEMMA GiveKept ==
  ASSUME NEW x \in Corrections, NEW d \in Trackers, NEW mates \in SUBSET Trackers
  PROVE  Kept(x, Given({Target}, d, x, SetToSeq(mates)))
<1> DEFINE q == SetToSeq(mates)
           n == Len(q)
           G == {p \in (0 .. n) \X Corrections : Kept(x, p[2])}
<1>1. IsFiniteSet(mates)  BY DevicesAssumption, FS_Subset
<1>2. n \in Nat /\ \A k \in 1 .. n : q[k] \in mates  BY <1>1, ListOf
<1> HIDE DEF q
<1>3. n \in Nat /\ <<0, x>> \in G  BY <1>2 DEF Kept
<1>4. ASSUME NEW k \in 1 .. n, NEW y \in Corrections, <<k - 1, y>> \in G
      PROVE  <<k, Take(y, {Target}, q[k], d)>> \in G
  <2>1. Kept(x, y)  BY <1>4
  <2>2. Kept(y, Take(y, {Target}, q[k], d))
    <3>1. q[k] \in Trackers  BY <1>2
    <3> QED  BY <3>1, TakeKept
  <2>3. Kept(x, Take(y, {Target}, q[k], d))  BY <2>1, <2>2 DEF Kept
  <2> QED  BY <1>2, <2>3 DEF Kept
<1>5. G \in SUBSET ((0 .. n) \X Corrections)  OBVIOUS
<1> HIDE DEF G
<1>6. \A k \in 1 .. n, y \in Corrections :
        <<k - 1, y>> \in G => <<k, Take(y, {Target}, q[k], d)>> \in G
  BY <1>4
<1>7. <<n, Given({Target}, d, x, q)>> \in G  BY ONLY <1>3, <1>5, <1>6, GivenKeeps
<1> DEFINE y == Given({Target}, d, x, q)
<1>8. <<n, y>> \in G  BY <1>7
<1> HIDE DEF y
<1>9. Kept(x, y)  BY <1>8 DEF G
<1> QED  BY <1>9 DEF y, q

LEMMA JoinKept ==
  ASSUME NEW w, NEW x \in Corrections, NEW switch \in Switches
  PROVE  Kept(x, Join(x, w, Headset, {Target}, switch))
<1> DEFINE d == switch.dev
           mates == {e \in Trackers \ {d} : Settled(w, e) /\ LastFrameIs(w, e, w.dev[d].frame)}
           from == IF Headset \in mates THEN Headset ELSE CHOOSE e \in mates : TRUE
           taken == Take(x, {Target}, d, from)
           y == Join(x, w, Headset, {Target}, switch)
<1>1. d \in Trackers /\ switch.time \in Nat /\ mates \in SUBSET Trackers  BY DEF Switches
<1>2. \/ y = x
      \/ y = Given({Target}, d, x, SetToSeq(mates))
      \/ /\ d # Target /\ mates # {}
         /\ y = [taken EXCEPT !.usableAfter[d] = IF @ < switch.time THEN switch.time ELSE @]
  BY DEF Join, Given, Take
<1> HIDE DEF d, mates, y
<1>3. CASE y = x  BY <1>3 DEF Kept, y
<1>4. CASE y = Given({Target}, d, x, SetToSeq(mates))
  <2>1. Kept(x, y)  BY <1>1, <1>4, GiveKept
  <2> QED  BY <2>1 DEF y
<1>5. CASE /\ d # Target /\ mates # {}
           /\ y = [taken EXCEPT !.usableAfter[d] = IF @ < switch.time THEN switch.time ELSE @]
  <2>1. from \in Trackers  BY <1>1, <1>5
  <2> HIDE DEF from
  <2>2. Kept(x, taken)  BY <1>1, <2>1, TakeKept
  <2> HIDE DEF taken
  <2>3. taken \in Corrections /\ taken.usableAfter \in [Trackers -> Nat]
    BY <2>2 DEF Kept, Corrections
  <2> DEFINE u == IF taken.usableAfter[d] < switch.time THEN switch.time ELSE taken.usableAfter[d]
  <2>4. u \in Nat /\ y = [taken EXCEPT !.usableAfter = [taken.usableAfter EXCEPT ![d] = u]]
    BY <1>1, <1>5, <2>3 DEF Corrections
  <2> HIDE DEF u
  <2>5. [taken.usableAfter EXCEPT ![d] = u] \in [Trackers -> Nat]  BY <2>3, <2>4
  <2>6. /\ y \in Corrections /\ y.frames = taken.frames /\ y.lost = taken.lost
        /\ y.usableAfter = [taken.usableAfter EXCEPT ![d] = u]
    BY <2>3, <2>4, <2>5 DEF Corrections
  <2>7. y.usableAfter[Target] = taken.usableAfter[Target]
    BY <1>5, <2>3, <2>6, TargetAssumption
  <2>8. Kept(x, y)  BY <2>2, <2>6, <2>7 DEF Kept
  <2> QED  BY <2>8 DEF y
<1> QED  BY <1>2, <1>3, <1>4, <1>5

LEMMA JoinedKept ==
  ASSUME NEW w \in Watches, NEW a \in Corrections
  PROVE  LET y == JoinTrackerFrames(a, w, Headset, {Target})
         IN /\ y \in Corrections /\ y.frames[Target] = a.frames[Target]
            /\ y.usableAfter[Target] = a.usableAfter[Target]
            /\ Target \notin y.lost => Target \notin a.lost /\ ~Broken(w, Target)
<1> DEFINE unvouched == {w.switches[i].dev :
                           i \in {i \in DOMAIN w.switches : w.switches[i].cause # "re-expressed"}}
           x == [a EXCEPT !.lost = @ \cup unvouched \cup w.dropped]
           s == w.switches
           n == Len(s)
           G == {p \in (0 .. n) \X Corrections : Kept(x, p[2])}
<1>1. JoinTrackerFrames(a, w, Headset, {Target}) = Joined(w, {Target}, x, s)
  BY DEF JoinTrackerFrames, Joined
<1>2. s \in Seq(Switches)  BY DEF Watches
<1>3. n \in Nat /\ DOMAIN s = 1 .. n /\ \A k \in 1 .. n : s[k] \in Switches  BY <1>2
<1>4. unvouched \subseteq Trackers
  <2>1. \A k \in 1 .. n : s[k].dev \in Trackers  BY <1>3 DEF Switches
  <2> QED  BY <1>3, <2>1
<1>5. \A d \in Trackers : Broken(w, d) => d \in unvouched \cup w.dropped  BY <1>3 DEF Broken
<1> HIDE DEF unvouched
<1>6. /\ x \in Corrections /\ x.frames = a.frames /\ x.usableAfter = a.usableAfter
      /\ x.lost = a.lost \cup unvouched \cup w.dropped
  BY <1>4 DEF Corrections, Watches
<1> HIDE DEF x, s
<1>8. n \in Nat /\ <<0, x>> \in G  BY <1>3, <1>6 DEF Kept
<1>9. ASSUME NEW k \in 1 .. n, NEW y \in Corrections, <<k - 1, y>> \in G
      PROVE  <<k, Join(y, w, Headset, {Target}, s[k])>> \in G
  <2>1. Kept(x, y)  BY <1>9
  <2>2. Kept(y, Join(y, w, Headset, {Target}, s[k]))
    <3>1. s[k] \in Switches  BY <1>3
    <3> QED  BY <3>1, JoinKept
  <2>3. Kept(x, Join(y, w, Headset, {Target}, s[k]))  BY <2>1, <2>2 DEF Kept
  <2> QED  BY <1>3, <2>3 DEF Kept
<1>10. G \in SUBSET ((0 .. n) \X Corrections)  OBVIOUS
<1> HIDE DEF G
<1>11. \A k \in 1 .. n, y \in Corrections :
         <<k - 1, y>> \in G => <<k, Join(y, w, Headset, {Target}, s[k])>> \in G
  BY <1>9
<1>12. <<n, Joined(w, {Target}, x, s)>> \in G  BY ONLY <1>8, <1>10, <1>11, JoinedKeeps
<1> DEFINE y == Joined(w, {Target}, x, s)
<1>13. <<n, y>> \in G  BY <1>12
<1> HIDE DEF y
<1>14. Kept(x, y)  BY <1>13 DEF G
<1>15. Target \notin y.lost => Target \notin a.lost /\ ~Broken(w, Target)
  BY <1>5, <1>6, <1>14, TargetAssumption DEF Kept
<1>16. /\ y \in Corrections /\ y.frames[Target] = a.frames[Target]
       /\ y.usableAfter[Target] = a.usableAfter[Target]
  BY <1>6, <1>14 DEF Kept
<1>17. JoinTrackerFrames(a, w, Headset, {Target}) = y  BY <1>1 DEF y
<1> QED  BY <1>15, <1>16, <1>17

-----------------------------------------------------------------------------
(* The run, sample by sample.                                              *)

Runs == [state : {"Collecting"}, preserveTrackerFrames : BOOLEAN, captured : Nat,
         normalization : Transforms, at : Frames \cup {Nothing}, toStart : Transforms,
         moves : Nat, spread : SUBSET Transforms, stopped : BOOLEAN, unsettled : BOOLEAN]

\* Every sample a run collected lies, carried back to its start, where the last one does.
Gathers(r) ==
  /\ r \in Runs
  /\ r.at = Nothing => r.spread = {}
  /\ r.at # Nothing => r.spread = {Compose(r.toStart, r.at.err)}
  /\ r.moves = 0 => r.toStart = Identity

LEMMA AcceptGathers ==
  ASSUME NEW r, Gathers(r), NEW s \in Samples
  PROVE  Gathers(Accept(r, s))
<1> DEFINE was == [at |-> "here", frame |-> r.at]
           kind == IF r.at = Nothing \/ r.at = s.frame THEN "same" ELSE Kind(was, s)
           f == Between(r.at.err, s.frame.err)
           toStart == IF kind = "moved" THEN BackToStart(r.toStart, f) ELSE r.toStart
           moves == IF kind = "moved" THEN r.moves + 1 ELSE r.moves
           place == Compose(toStart, s.frame.err)
           y == Accept(r, s)
<1>1. /\ r \in Runs /\ r.toStart \in Transforms /\ r.moves \in Nat /\ r.at \in Frames \cup {Nothing}
      /\ r.spread \in SUBSET Transforms
      /\ s.frame \in Frames /\ s.frame.err \in Transforms
      /\ r.at # Nothing => r.at \in Frames /\ r.at.err \in Transforms
  BY DEF Gathers, Runs, Samples, Frames
<1>2. s.frame # Nothing  BY <1>1, Distinct
<1>3. CASE kind = "unclear"
  <2>1. y = [r EXCEPT !.stopped = TRUE]  BY <1>3 DEF Accept
  <2> HIDE DEF y
  <2>2. /\ y \in Runs /\ y.at = r.at /\ y.spread = r.spread /\ y.toStart = r.toStart
        /\ y.moves = r.moves
    BY <1>1, <2>1 DEF Runs
  <2>3. Gathers(y)  BY <2>2 DEF Gathers
  <2> QED  BY <2>3 DEF y
<1>4. CASE kind # "unclear"
  <2>1. toStart \in Transforms /\ moves \in Nat /\ place \in Transforms
    <3>1. CASE kind = "moved"
      <4>1. r.at # Nothing  BY <3>1
      <4>2. f \in Transforms  BY <1>1, <4>1, TransformTypes
      <4>3. BackToStart(r.toStart, f) \in Transforms  BY <1>1, <4>2, TransformTypes
      <4> HIDE DEF f
      <4>4. toStart \in Transforms  BY <3>1, <4>3
      <4> HIDE DEF toStart
      <4> QED  BY <1>1, <4>4, TransformTypes
    <3>2. CASE kind # "moved"
      <4>1. toStart = r.toStart  BY <3>2
      <4> HIDE DEF toStart
      <4> QED  BY <1>1, <4>1, TransformTypes
    <3> QED  BY <3>1, <3>2
  <2>2. r.at # Nothing => place = Compose(r.toStart, r.at.err)
    <3> SUFFICES ASSUME r.at # Nothing PROVE place = Compose(r.toStart, r.at.err)  OBVIOUS
    <3>1. CASE kind = "moved"
      <4>1. place = Compose(BackToStart(r.toStart, f), s.frame.err)  BY <3>1
      <4> QED  BY <1>1, <4>1, CarriedBack
    <3>2. CASE kind # "moved"
      <4>1. place = Compose(r.toStart, s.frame.err)  BY <3>2
      <4>2. s.frame.err = r.at.err  BY <1>4, <3>2 DEF Kind
      <4> QED  BY <4>1, <4>2
    <3> QED  BY <3>1, <3>2
  <2>3. moves = 0 => toStart = Identity
    <3>1. CASE kind = "moved"  BY <1>1, <3>1
    <3>2. CASE kind # "moved"  BY <3>2 DEF Gathers
    <3> QED  BY <3>1, <3>2
  <2>4. y = [r EXCEPT !.at = s.frame, !.toStart = toStart, !.moves = moves,
                      !.spread = r.spread \cup {place}]
    BY <1>1, <1>4 DEF Accept, Runs
  <2> HIDE DEF y, place, toStart, moves, kind
  <2>5. /\ y.at = s.frame /\ y.toStart = toStart /\ y.moves = moves
        /\ y.spread = r.spread \cup {place}
    BY <1>1, <2>4 DEF Runs
  <2>6. y \in Runs  BY <1>1, <2>1, <2>4 DEF Runs
  <2>7. y.spread = {place}  BY <2>2, <2>5 DEF Gathers
  <2>8. Gathers(y)  BY <1>2, <2>3, <2>5, <2>6, <2>7 DEF Gathers, place
  <2> QED  BY <2>8 DEF y
<1> QED  BY <1>3, <1>4

LEMMA CollectGathers ==
  ASSUME NEW r, Gathers(r), NEW s \in Samples, corrections \in Corrections
  PROVE  Gathers(Collect(r, s))
<1>1. Gathers(Capture(r, s))
  <2> DEFINE y == Capture(r, s)
             waits == watch.waiting[Target] # Nothing
  <2>1. r \in Runs /\ s.time \in Nat /\ corrections.frames[Target] \in Transforms
    BY TargetAssumption DEF Gathers, Samples, Corrections
  <2>2. CASE y = r  BY <2>2
  <2>3. CASE y # r
    <3>1. y = [r EXCEPT !.captured = s.time, !.normalization = corrections.frames[Target],
                        !.unsettled = waits]
      BY <2>3 DEF Capture
    <3>2. waits \in BOOLEAN  OBVIOUS
    <3> HIDE DEF y, waits
    <3>3. /\ y \in Runs /\ y.at = r.at /\ y.spread = r.spread /\ y.toStart = r.toStart
          /\ y.moves = r.moves
      BY <2>1, <3>1, <3>2 DEF Runs
    <3>4. Gathers(y)  BY <3>3 DEF Gathers
    <3> QED  BY <3>4 DEF y
  <2> QED  BY <2>2, <2>3
<1>2. Gathers(Accept(Capture(r, s), s))  BY <1>1, AcceptGathers
<1> QED  BY <1>2 DEF Collect

LEMMA CollectedGathers ==
  ASSUME Gathers(run), toCollector \in Seq(Samples), corrections \in Corrections
  PROVE  Gathers(Collected)
<1> DEFINE n == Len(toCollector)
           G == {p \in (0 .. n) \X Runs : Gathers(p[2])}
<1>1. n \in Nat /\ \A k \in 1 .. n : toCollector[k] \in Samples  OBVIOUS
<1>2. n \in Nat /\ <<0, run>> \in G  BY <1>1 DEF Gathers
<1>3. ASSUME NEW k \in 1 .. n, NEW r \in Runs, <<k - 1, r>> \in G
      PROVE  <<k, Collect(r, toCollector[k])>> \in G
  <2>1. Gathers(r)  BY <1>3
  <2>2. Gathers(Collect(r, toCollector[k]))  BY <1>1, <2>1, CollectGathers
  <2> QED  BY <1>1, <2>2 DEF Gathers
<1>4. G \in SUBSET ((0 .. n) \X Runs)  OBVIOUS
<1> HIDE DEF G
<1>5. \A k \in 1 .. n, r \in Runs : <<k - 1, r>> \in G => <<k, Collect(r, toCollector[k])>> \in G
  BY <1>3
<1>6. <<n, Along(Collect, run, toCollector)>> \in G  BY ONLY <1>2, <1>4, <1>5, CollectKeeps
<1>7. <<n, Collected>> \in G  BY <1>6 DEF Collected
<1> QED  BY <1>7 DEF G

\* Where the samples of a run lie once the correction it captured is applied.
Place(r) == Compose(r.normalization, Compose(r.toStart, r.at.err))

\* The target's correction puts its frame there: it captured N with the frame known, and both
\* followed the target since.
Stands(r) ==
  /\ r.captured # 0 <=> r.preserveTrackerFrames /\ r.at # Nothing
  /\ r.at = Nothing => r.toStart = Identity
  /\ r.captured # 0 /\ ~r.unsettled /\ Target \notin corrections.lost =>
       watch.dev[Target] # Unseen /\ RightOn(watch, corrections, Solve(Place(r)), Target)

\* A sample of the frame the target's correction is of shows where the watch has the target.
Holds(s) ==
  /\ s.tracks /\ Target \notin corrections.lost /\ watch.waiting[Target] = Nothing
  /\ corrections.usableAfter[Target] <= s.time
  => watch.dev[Target] # Unseen /\ watch.dev[Target].frame.err = s.frame.err

LEMMA AcceptDoes ==
  ASSUME NEW r \in Runs, NEW s \in Samples
  PROVE  LET y == Accept(r, s)
         IN /\ y.captured = r.captured /\ y.normalization = r.normalization
            /\ y.unsettled = r.unsettled /\ y.preserveTrackerFrames = r.preserveTrackerFrames
            /\ r.spread \subseteq y.spread
            /\ \/ y.at = r.at /\ y.toStart = r.toStart
               \/ y.at = s.frame
            /\ r.at = Nothing => y.at = s.frame /\ y.toStart = r.toStart
<1> DEFINE was == [at |-> "here", frame |-> r.at]
           kind == IF r.at = Nothing \/ r.at = s.frame THEN "same" ELSE Kind(was, s)
           f == Between(r.at.err, s.frame.err)
           toStart == IF kind = "moved" THEN BackToStart(r.toStart, f) ELSE r.toStart
           moves == IF kind = "moved" THEN r.moves + 1 ELSE r.moves
           place == Compose(toStart, s.frame.err)
           y == Accept(r, s)
<1>1. CASE kind = "unclear"
  <2>1. y = [r EXCEPT !.stopped = TRUE] /\ r.at # Nothing  BY <1>1 DEF Accept
  <2> HIDE DEF y
  <2>2. /\ y.captured = r.captured /\ y.normalization = r.normalization
        /\ y.unsettled = r.unsettled /\ y.preserveTrackerFrames = r.preserveTrackerFrames
        /\ y.spread = r.spread /\ y.at = r.at /\ y.toStart = r.toStart /\ r.at # Nothing
    BY <2>1 DEF Runs
  <2> QED  BY <2>2 DEF y
<1>2. CASE kind # "unclear"
  <2>1. y = [r EXCEPT !.at = s.frame, !.toStart = toStart, !.moves = moves,
                      !.spread = r.spread \cup {place}]
    BY <1>2 DEF Accept, Runs
  <2>2. r.at = Nothing => toStart = r.toStart  OBVIOUS
  <2> HIDE DEF y, place, toStart, moves, kind
  <2>3. /\ y.captured = r.captured /\ y.normalization = r.normalization
        /\ y.unsettled = r.unsettled /\ y.preserveTrackerFrames = r.preserveTrackerFrames
        /\ y.spread = r.spread \cup {place} /\ y.at = s.frame /\ y.toStart = toStart
    BY <2>1 DEF Runs
  <2> QED  BY <2>2, <2>3 DEF y
<1> QED  BY <1>1, <1>2

\* Samples carried back to one place keep it.
LEMMA AcceptStands ==
  ASSUME NEW r, Gathers(r), Stands(r), NEW s \in Samples,
         r.captured # 0 \/ ~r.preserveTrackerFrames
  PROVE  Stands(Accept(r, s))
<1> DEFINE y == Accept(r, s)
<1>1. /\ y.captured = r.captured /\ y.normalization = r.normalization
      /\ y.unsettled = r.unsettled /\ y.preserveTrackerFrames = r.preserveTrackerFrames
      /\ r.spread \subseteq y.spread
      /\ \/ y.at = r.at /\ y.toStart = r.toStart
         \/ y.at = s.frame
      /\ s.frame # Nothing
  <2>1. s.frame # Nothing  BY Distinct DEF Samples
  <2>2. r \in Runs  BY DEF Gathers
  <2> QED  BY <2>1, <2>2, AcceptDoes
<1>2. Gathers(y)  BY AcceptGathers
<1> HIDE DEF y
<1>3. CASE ~r.preserveTrackerFrames  BY <1>1, <1>3 DEF Stands, y
<1>4. CASE r.captured # 0
  <2>1. r.preserveTrackerFrames /\ r.at # Nothing /\ y.at # Nothing  BY <1>1, <1>4 DEF Stands
  <2>2. Compose(r.toStart, r.at.err) \in r.spread  BY <2>1 DEF Gathers
  <2>3. Compose(y.toStart, y.at.err) = Compose(r.toStart, r.at.err)
    BY <1>1, <1>2, <2>1, <2>2 DEF Gathers
  <2>4. Place(y) = Place(r)  BY <1>1, <2>3 DEF Place
  <2> QED  BY <1>1, <1>4, <2>1, <2>4 DEF Stands, y
<1> QED  BY <1>3, <1>4

\* The correction captured puts the target's frame where the first sample lies.
LEMMA CaptureStands ==
  ASSUME NEW r, Gathers(r), Stands(r), NEW s \in Samples, corrections \in Corrections,
         r.captured = 0, r.preserveTrackerFrames, s.tracks, Holds(s),
         s.time >= corrections.usableAfter[Target]
  PROVE  Stands(Accept(Capture(r, s), s))
<1> USE TargetAssumption
<1> DEFINE n == corrections.frames[Target]
           waits == watch.waiting[Target] # Nothing
           x == Capture(r, s)
           y == Accept(x, s)
<1>1. /\ r \in Runs /\ r.at = Nothing /\ r.toStart = Identity /\ n \in Transforms
      /\ s.time \in Nat \ {0} /\ s.frame \in Frames /\ s.frame.err \in Transforms
      /\ s.frame # Nothing /\ corrections.usableAfter[Target] \in Nat
  BY Distinct DEF Gathers, Stands, Samples, Frames, Corrections
<1>2. x = [r EXCEPT !.captured = s.time, !.normalization = n, !.unsettled = waits]
      /\ waits \in BOOLEAN
  BY DEF Capture
<1> HIDE DEF x, waits, n
<1>3. /\ x \in Runs /\ x.captured = s.time /\ x.normalization = n /\ x.unsettled = waits
      /\ x.preserveTrackerFrames /\ x.at = Nothing /\ x.toStart = Identity
  BY <1>1, <1>2 DEF Runs
<1>4. /\ y.captured = s.time /\ y.normalization = n /\ y.unsettled = waits
      /\ y.preserveTrackerFrames /\ y.at = s.frame /\ y.toStart = Identity
  BY <1>3, AcceptDoes
<1> HIDE DEF y
<1>5. Place(y) = Compose(n, s.frame.err) /\ Compose(n, s.frame.err) \in Transforms
  <2>1. Compose(Identity, s.frame.err) = s.frame.err
    BY <1>1 DEF Compose, Identity, Transforms
  <2> QED  BY <1>1, <1>4, <2>1, TransformTypes DEF Place
<1>6. ASSUME ~waits, Target \notin corrections.lost
      PROVE  watch.dev[Target] # Unseen /\ RightOn(watch, corrections, Solve(Place(y)), Target)
  <2>1. watch.waiting[Target] = Nothing  BY <1>6 DEF waits
  <2>2. watch.dev[Target] # Unseen /\ watch.dev[Target].frame.err = s.frame.err
    BY <1>1, <1>6, <2>1 DEF Holds
  <2>3. ReadsRight(Solve(Place(y)), n, s.frame.err)  BY <1>1, <1>5, SolvedStands
  <2> QED  BY <2>1, <2>2, <2>3 DEF RightOn, Ref, n
<1> QED  BY <1>1, <1>4, <1>6 DEF Stands, x, y

LEMMA CollectStands ==
  ASSUME NEW r, Gathers(r), Stands(r), NEW s \in Samples, corrections \in Corrections,
         s.time <= observed => Holds(s)
  PROVE  Stands(Collect(r, s))
<1>1. \/ Collect(r, s) = r
      \/ /\ s.tracks /\ Collect(r, s) = Accept(Capture(r, s), s)
         /\ r.preserveTrackerFrames /\ r.captured = 0 => MayCapture(s)
  BY DEF Collect
<1>2. CASE Collect(r, s) = r  BY <1>2
<1>3. CASE /\ s.tracks /\ Collect(r, s) = Accept(Capture(r, s), s)
           /\ r.preserveTrackerFrames /\ r.captured = 0 => MayCapture(s)
  <2>1. CASE r.preserveTrackerFrames /\ r.captured = 0
    <3>1. Holds(s) /\ s.time >= corrections.usableAfter[Target]
      BY <1>3, <2>1 DEF MayCapture
    <3> QED  BY <1>3, <2>1, <3>1, CaptureStands
  <2>2. CASE ~(r.preserveTrackerFrames /\ r.captured = 0)
    <3>1. Capture(r, s) = r  BY <2>2 DEF Capture
    <3>2. r.captured # 0 \/ ~r.preserveTrackerFrames  BY <2>2
    <3> QED  BY <1>3, <3>1, <3>2, AcceptStands
  <2> QED  BY <2>1, <2>2
<1> QED  BY <1>1, <1>2, <1>3

LEMMA CollectedStands ==
  ASSUME Gathers(run), Stands(run), toCollector \in Seq(Samples), corrections \in Corrections,
         \A i \in 1 .. Len(toCollector) : toCollector[i].time <= observed => Holds(toCollector[i])
  PROVE  Gathers(Collected) /\ Stands(Collected)
<1> DEFINE n == Len(toCollector)
           G == {p \in (0 .. n) \X Runs : Gathers(p[2]) /\ Stands(p[2])}
<1>1. n \in Nat /\ \A k \in 1 .. n : toCollector[k] \in Samples  OBVIOUS
<1>2. n \in Nat /\ <<0, run>> \in G  BY <1>1 DEF Gathers
<1>3. ASSUME NEW k \in 1 .. n, NEW r \in Runs, <<k - 1, r>> \in G
      PROVE  <<k, Collect(r, toCollector[k])>> \in G
  <2>1. Gathers(r) /\ Stands(r)  BY <1>3
  <2>2. Gathers(Collect(r, toCollector[k]))  BY <1>1, <2>1, CollectGathers
  <2>3. Stands(Collect(r, toCollector[k]))
    <3>1. toCollector[k] \in Samples /\ (toCollector[k].time <= observed => Holds(toCollector[k]))
      BY <1>1
    <3> QED  BY <2>1, <3>1, CollectStands
  <2> QED  BY <1>1, <2>2, <2>3 DEF Gathers
<1>4. G \in SUBSET ((0 .. n) \X Runs)  OBVIOUS
<1> HIDE DEF G
<1>5. \A k \in 1 .. n, r \in Runs : <<k - 1, r>> \in G => <<k, Collect(r, toCollector[k])>> \in G
  BY <1>3
<1>6. <<n, Along(Collect, run, toCollector)>> \in G  BY ONLY <1>2, <1>4, <1>5, CollectKeeps
<1>7. <<n, Collected>> \in G  BY <1>6 DEF Collected
<1> QED  BY <1>7 DEF G

-----------------------------------------------------------------------------
(* The state.                                                              *)

WorldTyped ==
  /\ err \in [Stations -> Transforms] /\ seat \in [Trackers -> Stations]
  /\ settingUp \in BOOLEAN /\ enabled \in BOOLEAN /\ active \in BOOLEAN /\ stale \in BOOLEAN
  /\ time \in Nat

\* The monitors have yet to read the last samples published, one after the other.
Read == time - Len(toMonitor)

StreamsTyped ==
  /\ toMonitor \in Seq(Samples) /\ toCollector \in Seq(Samples)
  /\ Len(toMonitor) <= time
  /\ \A i \in 1 .. Len(toMonitor) : toMonitor[i].time = Read + i

\* Between drains the watch has handed out what it had.
WatchReady ==
  /\ watch \in Watches /\ watch.moves = <<>> /\ watch.switches = <<>> /\ watch.dropped = {}
  /\ \A d \in Trackers : watch.waiting[d] # Nothing => watch.waiting[d].time <= Read

CorrectionsRight ==
  /\ corrections \in Corrections /\ calibration \in Transforms
  /\ ~stale => AllRight(watch, corrections, calibration)

RunGathers ==
  /\ run = NoRun \/ Gathers(run)
  /\ Collecting => outcome = "none"

FollowInv == WorldTyped /\ StreamsTyped /\ WatchReady /\ CorrectionsRight /\ RunGathers

LEMMA InitFollow == Init => FollowInv
<1> SUFFICES ASSUME Init PROVE FollowInv  OBVIOUS
<1> USE DEF Init
<1>1. Identity \in Transforms  BY DEF Identity, Transforms
<1>2. WorldTyped  BY <1>1 DEF WorldTyped
<1>3. Read = 0 /\ StreamsTyped
  <2>1. time = 0 /\ toMonitor = <<>> /\ toCollector = <<>>  OBVIOUS
  <2>2. Len(toMonitor) = 0 /\ toMonitor \in Seq(Samples) /\ toCollector \in Seq(Samples)
    BY ONLY <2>1
  <2>3. Read = 0
    <3>1. time = 0 /\ Len(toMonitor) = 0  BY <2>1, <2>2
    <3> HIDE DEF Init
    <3> QED  BY ONLY <3>1 DEF Read
  <2>4. Len(toMonitor) <= time /\ 1 .. Len(toMonitor) = {}  BY ONLY <2>1, <2>2
  <2> QED  BY ONLY <2>2, <2>3, <2>4 DEF StreamsTyped
<1> DEFINE dev == [d \in Trackers \cup Stations |->
                     [at |-> "here", mark |-> 0,
                      frame |-> FrameOf(IF d \in Stations THEN d ELSE seat[d])]]
<1>4. ASSUME NEW d \in Trackers \cup Stations
      PROVE  dev[d] \in Seen /\ dev[d].frame.err = Identity
  <2>1. (IF d \in Stations THEN d ELSE seat[d]) \in Stations  OBVIOUS
  <2> DEFINE b == IF d \in Stations THEN d ELSE seat[d]
  <2>2. dev[d] = [at |-> "here", mark |-> 0, frame |-> FrameOf(b)]  OBVIOUS
  <2> HIDE DEF b
  <2>3. FrameOf(b) \in Frames /\ FrameOf(b).err = Identity  BY <1>1, <2>1 DEF FrameOf, Frames, b
  <2> QED  BY <2>2, <2>3 DEF Seen
<1>5. /\ watch = [FreshWatch EXCEPT !.dev = dev]
      /\ watch.dev = dev /\ watch.known = <<>> /\ watch.waiting = [d \in Trackers |-> Nothing]
      /\ watch.moves = <<>> /\ watch.switches = <<>> /\ watch.dropped = {}
  BY DEF FreshWatch
<1>6. dev \in [Trackers \cup Stations -> Seen \cup {Unseen}]
  <2>1. \A d \in Trackers \cup Stations : dev[d] \in Seen  BY <1>4
  <2> QED  BY <2>1
<1> HIDE DEF dev
<1>7. watch \in Watches
  <2>1. watch = [dev |-> dev, known |-> <<>>, waiting |-> [d \in Trackers |-> Nothing],
                 moves |-> <<>>, switches |-> <<>>, dropped |-> {}]
    BY <1>5 DEF FreshWatch
  <2>2. [d \in Trackers |-> Nothing] \in [Trackers -> Changes \cup {Nothing}]  OBVIOUS
  <2> QED  BY ONLY <1>6, <2>1, <2>2 DEF Watches
<1>8. WatchReady  BY <1>5, <1>7 DEF WatchReady
<1>9. /\ corrections \in Corrections /\ calibration \in Transforms
      /\ corrections.frames = [d \in Trackers |-> Identity]
  <2>1. calibration \in Transforms
    BY ScaleAssumption DEF Solve, Identity, Transforms
  <2> QED  BY <1>1, <2>1 DEF FreshCorrections, Corrections
<1>10. AllRight(watch, corrections, calibration)
  <2>1. ReadsRight(calibration, Identity, Identity)
    BY ScaleAssumption DEF ReadsRight, Solve, Identity, Compose
  <2>2. ASSUME NEW d \in Trackers PROVE RightOn(watch, corrections, calibration, d)
    <3>1. watch.dev[d].frame.err = Identity  BY <1>4, <1>5
    <3>2. watch.waiting[d] = Nothing  BY <1>5
    <3> QED  BY <1>9, <2>1, <3>1, <3>2 DEF RightOn, Ref
  <2> QED  BY <1>9, <2>2 DEF AllRight
<1>11. RunGathers  BY DEF RunGathers, Collecting, NoRun
<1> QED  BY <1>2, <1>3, <1>8, <1>9, <1>10, <1>11 DEF FollowInv, CorrectionsRight

\* A sample published is the next the monitors will read, and the run's if it is of its target.
LEMMA PublishFollow ==
  ASSUME FollowInv, NEW sample, sample \in Samples, sample.time = time + 1, Publish(sample),
         UNCHANGED <<worldVars, enabled, monitorVars, profileVars, pc, run, outcome>>
  PROVE  FollowInv'
<1> USE DEF FollowInv, worldVars, monitorVars, profileVars
<1>1. time \in Nat /\ time' = time + 1 /\ toMonitor' = Append(toMonitor, sample)
  BY DEF Publish, WorldTyped
<1>2. toMonitor \in Seq(Samples) /\ Len(toMonitor) \in Nat /\ Len(toMonitor) <= time
  BY DEF StreamsTyped
<1>3. /\ toMonitor' \in Seq(Samples) /\ Len(toMonitor') = Len(toMonitor) + 1
      /\ toMonitor'[Len(toMonitor) + 1] = sample
      /\ \A i \in 1 .. Len(toMonitor) : toMonitor'[i] = toMonitor[i]
  BY <1>1, <1>2
<1>4. Read' = Read /\ Read \in Nat  BY <1>1, <1>2, <1>3 DEF Read
<1>5. WorldTyped'  BY <1>1 DEF WorldTyped
<1>6. StreamsTyped'
  <2>1. \A i \in 1 .. Len(toMonitor') : toMonitor'[i].time = Read' + i
    <3> SUFFICES ASSUME NEW i \in 1 .. Len(toMonitor) + 1
                 PROVE  toMonitor'[i].time = Read + i
      BY <1>3, <1>4
    <3>1. CASE i = Len(toMonitor) + 1  BY <1>1, <1>2, <1>3, <3>1 DEF Read
    <3>2. CASE i # Len(toMonitor) + 1
      <4>1. i \in 1 .. Len(toMonitor)  BY <1>2, <3>2
      <4> QED  BY <1>3, <4>1 DEF StreamsTyped
    <3> QED  BY <3>1, <3>2
  <2>2. toCollector' \in Seq(Samples)
    <3>1. toCollector \in Seq(Samples)  BY DEF StreamsTyped
    <3>2. toCollector' = toCollector \/ toCollector' = Append(toCollector, sample)  BY DEF Publish
    <3> QED  BY <3>1, <3>2
  <2>3. Len(toMonitor') <= time'  BY <1>1, <1>2, <1>3
  <2> QED  BY <1>3, <2>1, <2>2, <2>3 DEF StreamsTyped
<1>7. WatchReady'  BY <1>4 DEF WatchReady
<1>8. CorrectionsRight'  BY DEF CorrectionsRight
<1>9. RunGathers'  BY DEF RunGathers, Collecting
<1> QED  BY <1>5, <1>6, <1>7, <1>8, <1>9

\* The samples the model publishes.
LEMMA SampleTyped ==
  ASSUME FollowInv, NEW d \in Trackers \cup Stations, NEW b \in Stations,
         NEW smooth \in BOOLEAN, NEW tracks \in BOOLEAN
  PROVE  Sample(d, b, smooth, tracks) \in Samples /\ Sample(d, b, smooth, tracks).time = time + 1
<1>1. err[b] \in Transforms /\ settingUp \in BOOLEAN /\ time \in Nat  BY DEF FollowInv, WorldTyped
<1>2. FrameOf(b) \in Frames  BY <1>1 DEF FrameOf, Frames
<1> QED  BY <1>1, <1>2 DEF Sample, Samples

\* What the world does on its own.
LEMMA WorldFollow ==
  ASSUME FollowInv, NEW d \in Trackers, NEW b \in Stations,
         \/ Move(b) \/ StationTracks(b)
         \/ Track(d) \/ Jump(d) \/ ChangeStation(d) \/ SwitchOff(d) \/ SetupEnds
  PROVE  FollowInv'
<1> USE DEF worldVars, monitorVars, profileVars
<1>1. seat[d] \in Stations  BY DEF FollowInv, WorldTyped
<1>2. CASE StationTracks(b)
  <2>1. /\ Sample(b, b, TRUE, TRUE) \in Samples /\ Sample(b, b, TRUE, TRUE).time = time + 1
    BY SampleTyped
  <2>2. /\ Publish(Sample(b, b, TRUE, TRUE))
        /\ UNCHANGED <<worldVars, enabled, monitorVars, profileVars, pc, run, outcome>>
    BY <1>2 DEF StationTracks
  <2> QED  BY ONLY FollowInv, <2>1, <2>2, PublishFollow
<1>3. CASE Track(d)
  <2>1. /\ Sample(d, seat[d], TRUE, TRUE) \in Samples
        /\ Sample(d, seat[d], TRUE, TRUE).time = time + 1
    BY <1>1, SampleTyped
  <2>2. /\ Publish(Sample(d, seat[d], TRUE, TRUE))
        /\ UNCHANGED <<worldVars, enabled, monitorVars, profileVars, pc, run, outcome>>
    BY <1>3 DEF Track
  <2> QED  BY ONLY FollowInv, <2>1, <2>2, PublishFollow
<1>4. CASE Jump(d)
  <2>1. /\ Sample(d, seat[d], FALSE, TRUE) \in Samples
        /\ Sample(d, seat[d], FALSE, TRUE).time = time + 1
    BY <1>1, SampleTyped
  <2>2. /\ Publish(Sample(d, seat[d], FALSE, TRUE))
        /\ UNCHANGED <<worldVars, enabled, monitorVars, profileVars, pc, run, outcome>>
    BY <1>4 DEF Jump
  <2> QED  BY ONLY FollowInv, <2>1, <2>2, PublishFollow
<1>5. CASE SwitchOff(d)
  <2>1. /\ Sample(d, seat[d], FALSE, FALSE) \in Samples
        /\ Sample(d, seat[d], FALSE, FALSE).time = time + 1
    BY <1>1, SampleTyped
  <2>2. /\ Publish(Sample(d, seat[d], FALSE, FALSE))
        /\ UNCHANGED <<worldVars, enabled, monitorVars, profileVars, pc, run, outcome>>
    BY <1>5 DEF SwitchOff
  <2> QED  BY ONLY FollowInv, <2>1, <2>2, PublishFollow
<1>6. ASSUME WorldTyped', UNCHANGED <<time, toMonitor, toCollector, watch, stale, corrections,
                                      calibration, run, outcome>>
      PROVE  FollowInv'
  BY <1>6 DEF FollowInv, StreamsTyped, Read, WatchReady, CorrectionsRight, RunGathers, Collecting
<1>7. CASE Move(b)
  <2>1. PICK f \in Deltas : err' = [err EXCEPT ![b] = Compose(f, @)]  BY <1>7 DEF Move
  <2>2. f \in Transforms /\ err \in [Stations -> Transforms]
    BY DeltasAssumption DEF Transforms, FollowInv, WorldTyped
  <2>3. Compose(f, err[b]) \in Transforms  BY <2>2, TransformTypes
  <2>4. err' \in [Stations -> Transforms]  BY <2>1, <2>2, <2>3
  <2>5. WorldTyped'  BY <1>7, <2>4 DEF Move, FollowInv, WorldTyped
  <2> QED  BY <1>6, <1>7, <2>5 DEF Move
<1>8. CASE ChangeStation(d)
  <2>1. PICK a \in Stations : seat' = [seat EXCEPT ![d] = a]  BY <1>8 DEF ChangeStation
  <2>2. seat' \in [Trackers -> Stations]  BY <2>1 DEF FollowInv, WorldTyped
  <2>3. WorldTyped'  BY <1>8, <2>2 DEF ChangeStation, FollowInv, WorldTyped
  <2> QED  BY <1>6, <1>8, <2>3 DEF ChangeStation
<1>9. CASE SetupEnds
  <2>1. WorldTyped'  BY <1>9 DEF SetupEnds, FollowInv, WorldTyped
  <2> QED  BY <1>6, <1>9, <2>1 DEF SetupEnds
<1> QED  BY <1>2, <1>3, <1>4, <1>5, <1>7, <1>8, <1>9

\* A watch that reads every tracker right has followed each one to where it stands.
LEMMA ReadyFollowed ==
  ASSUME NEW w \in Watches, w.moves = <<>>, NEW now \in Nat, NEW x, NEW c, AllRight(w, x, c),
         \A d \in Trackers : w.waiting[d] # Nothing => w.waiting[d].time <= now
  PROVE  \E r : /\ Followed(w, now, r) /\ DOMAIN r = Trackers \ x.lost
                /\ \A d \in DOMAIN r, g \in Histories :
                     Through(g, r[d]) => ReadsRight(c, x.frames[d], g[0])
<1> DEFINE start(d) == IF w.dev[d] = Unseen THEN Unseen ELSE Ref(w, d)
           r == [d \in Trackers \ x.lost |-> {<<0, start(d)>>}]
<1>1. Len(w.moves) = 0 /\ 1 .. Len(w.moves) = {}  OBVIOUS
<1>2. Timely(w, now)  BY <1>1 DEF Timely, Apart
<1>3. Unseen \notin Transforms
  <2>1. DOMAIN Unseen = {"at"} /\ \A f \in Transforms : DOMAIN f = {"r", "t"}
    BY DEF Unseen, Transforms
  <2> QED  BY <2>1
<1>4. ASSUME NEW d \in Trackers \ x.lost, NEW g \in Histories, Through(g, r[d])
      PROVE  ReadsRight(c, x.frames[d], g[0])
  <2>1. g[0] = start(d) /\ g[0] \in Transforms  BY <1>4 DEF Through, Histories
  <2>2. w.dev[d] # Unseen /\ g[0] = Ref(w, d)  BY <1>3, <2>1
  <2> QED  BY <2>2 DEF AllRight, RightOn
<1>5. ASSUME NEW d \in Trackers \ x.lost, w.dev[d] # Unseen
      PROVE  Reaches(w, d, r[d], now, w.dev[d].frame.err)
  <2>1. r[d] = {<<0, Ref(w, d)>>} /\ w.dev[d].frame.err \in Transforms  BY <1>5, SeenFrame
  <2> DEFINE cur == w.dev[d].frame.err
  <2>2. CASE w.waiting[d] = Nothing
    <3> DEFINE g == [t \in Nat |-> cur]
    <3>1. g \in Histories /\ \A t \in Nat : g[t] = cur  BY <2>1 DEF Histories
    <3> HIDE DEF g
    <3>2. Chain(w, d, g, now, cur)  BY <1>1, <2>2, <3>1 DEF Chain
    <3> HIDE DEF r, start
    <3>4. \A p \in r[d] : p[1] = 0 /\ p[2] = cur  BY <2>1, <2>2 DEF Ref
    <3>3. Through(g, r[d])  BY <3>1, <3>4 DEF Through
    <3> QED  BY <3>1, <3>2, <3>3 DEF Reaches
  <2>3. CASE w.waiting[d] # Nothing
    <3> DEFINE from == w.waiting[d].from.err
               m == w.waiting[d].time
               g == [t \in Nat |-> IF t < m THEN from ELSE cur]
    <3>1. m \in Nat /\ m # 0 /\ from \in Transforms /\ m <= now  BY <2>3, WaitingChange
    <3>2. w.waiting[d].to.err = cur  BY <1>5, <2>3 DEF AllRight, RightOn
    <3>3. /\ g \in Histories /\ \A t \in Nat : t < m => g[t] = from
          /\ \A t \in Nat : m <= t => g[t] = cur
      BY <2>1, <3>1 DEF Histories
    <3> HIDE DEF g
    <3>4. ASSUME NEW a \in Nat, NEW b \in Nat, a <= b,
                 \A t \in Nat : a < t /\ t <= b => ~Event(w, d, t)
          PROVE  g[a] = g[b]
      <4>1. Event(w, d, m)  BY <2>3 DEF Event
      <4>2. ~(a < m /\ m <= b)  BY <3>1, <3>4, <4>1
      <4> QED  BY <3>1, <3>3, <3>4, <4>2
    <3>5. g[m - 1] = from /\ g[m] = cur /\ g[0] = from  BY <3>1, <3>3
    <3>6. \A a \in Nat : now <= a => g[a] = cur  BY <3>1, <3>3
    <3>7. Chain(w, d, g, now, cur)  BY <1>1, <3>2, <3>4, <3>5, <3>6 DEF Chain
    <3> HIDE DEF r, start
    <3>9. \A p \in r[d] : p[1] = 0 /\ p[2] = from  BY <2>1, <2>3 DEF Ref
    <3>8. Through(g, r[d])  BY <3>5, <3>9 DEF Through
    <3> QED  BY <3>3, <3>7, <3>8 DEF Reaches
  <2> QED  BY <2>2, <2>3
<1>6. DOMAIN r = Trackers \ x.lost /\ \A d \in DOMAIN r : \A p \in r[d] : p[1] = 0  OBVIOUS
<1> HIDE DEF r
<1>7. Followed(w, now, r)  BY <1>2, <1>5, <1>6 DEF Followed
<1> QED  BY <1>4, <1>6, <1>7

\* What a drain leaves, of the trackers it followed.
LEMMA ObserveFollow ==
  ASSUME StreamsTyped, WorldTyped, corrections \in Corrections, calibration \in Transforms,
         NEW w \in Watches, w.moves = <<>>, w.switches = <<>>, w.dropped = {},
         \A d \in Trackers : w.waiting[d] # Nothing => w.waiting[d].time <= Read,
         AllRight(w, corrections, calibration), NEW expired \in SUBSET Expired(w),
         Observe(w, expired)
  PROVE  /\ watch' \in Watches /\ watch'.moves = <<>> /\ watch'.switches = <<>>
         /\ watch'.dropped = {}
         /\ \A d \in Trackers : watch'.waiting[d] # Nothing => watch'.waiting[d].time <= time
         /\ corrections' \in Corrections /\ AllRight(watch', corrections', calibration)
<1> DEFINE n == Len(toMonitor)
           seen == Drained(w, expired)
           moved == CompensateTrackerFrameMoves(corrections, seen)
           joined == JoinTrackerFrames(moved, seen, Headset, Measured)
<1>1. /\ toMonitor \in Seq(Samples) /\ n \in Nat /\ time \in Nat /\ Read \in Nat
      /\ Read + n = time /\ \A i \in 1 .. n : toMonitor[i].time = Read + i
  <2>1. toMonitor \in Seq(Samples) /\ n <= time /\ time \in Nat  BY DEF StreamsTyped, WorldTyped
  <2>2. n \in Nat  BY <2>1
  <2> HIDE DEF n
  <2>3. Read = time - n  BY DEF Read, n
  <2>4. Read \in Nat /\ Read + n = time  BY ONLY <2>1, <2>2, <2>3
  <2> QED  BY <2>1, <2>2, <2>4 DEF StreamsTyped, n
<1>2. PICK r : /\ Followed(w, Read, r) /\ DOMAIN r = Trackers \ corrections.lost
               /\ \A d \in DOMAIN r, g \in Histories :
                    Through(g, r[d]) => ReadsRight(calibration, corrections.frames[d], g[0])
  BY <1>1, ReadyFollowed
<1> DEFINE q == Told(r, toMonitor, n)
<1>3. Followed(seen, time, q) /\ DOMAIN q = DOMAIN r
      /\ \A d \in DOMAIN r, g \in Histories : Through(g, q[d]) => Through(g, r[d])
  <2>1. Followed(seen, time, q)  BY <1>1, <1>2, DrainedFollowed
  <2>2. DOMAIN q = DOMAIN r /\ \A d \in DOMAIN r : r[d] \subseteq q[d]  BY DEF Told
  <2> QED  BY <2>1, <2>2 DEF Through
<1> HIDE DEF q
<1>4. watch' = [seen EXCEPT !.moves = <<>>, !.switches = <<>>, !.dropped = {}]
      /\ corrections' = joined
  BY DEF Observe
<1> HIDE DEF seen
<1>5. /\ moved \in Corrections
      /\ \A d \in Trackers : d \notin moved.lost /\ ~Broken(seen, d) =>
           RightOn(seen, moved, calibration, d)
  <2>1. DOMAIN q \subseteq Trackers \ corrections.lost  BY <1>2, <1>3
  <2>2. \A d \in DOMAIN q, g \in Histories :
          Through(g, q[d]) => ReadsRight(calibration, corrections.frames[d], g[0])
    BY <1>2, <1>3
  <2>3. /\ moved \in Corrections /\ corrections.lost \subseteq moved.lost
        /\ \A d \in DOMAIN q : d \notin moved.lost /\ ~Broken(seen, d) =>
             RightOn(seen, moved, calibration, d)
    BY <1>1, <1>3, <2>1, <2>2, CompensatedRight
  <2> QED  BY <1>2, <1>3, <2>3
<1> HIDE DEF moved
<1>6. seen \in Watches /\ Timely(seen, time)  BY <1>3 DEF Followed
<1>7. AllRight(seen, joined, calibration)  BY <1>5, <1>6, JoinedRight
<1> HIDE DEF joined
<1>8. /\ watch'.dev = seen.dev /\ watch'.waiting = seen.waiting
      /\ watch' \in Watches /\ watch'.moves = <<>> /\ watch'.switches = <<>>
      /\ watch'.dropped = {}
  <2>1. /\ watch' = [dev |-> seen.dev, known |-> seen.known, waiting |-> seen.waiting,
                     moves |-> <<>>, switches |-> <<>>, dropped |-> {}]
    BY <1>4, <1>6 DEF Watches
  <2>2. /\ seen.dev \in [Trackers \cup Stations -> Seen \cup {Unseen}]
        /\ seen.known \in Seq([from : Frames, to : Frames])
        /\ seen.waiting \in [Trackers -> Changes \cup {Nothing}]
    BY <1>6 DEF Watches
  <2>3. <<>> \in Seq(Moves) /\ <<>> \in Seq(Switches)  OBVIOUS
  <2> QED  BY ONLY <2>1, <2>2, <2>3 DEF Watches
<1>9. AllRight(watch', corrections', calibration)
  BY <1>4, <1>7, <1>8 DEF AllRight, RightOn, Ref
<1>10. \A d \in Trackers : watch'.waiting[d] # Nothing => watch'.waiting[d].time <= time
  BY <1>6, <1>8 DEF Timely
<1> QED  BY <1>8, <1>9, <1>10 DEF AllRight

\* A drain carries what holds of the target, and says where each sample of it lies.
LEMMA ObserveStands ==
  ASSUME StreamsTyped, WorldTyped, corrections \in Corrections, Collecting,
         NEW w \in Watches, w.moves = <<>>,
         \A d \in Trackers : w.waiting[d] # Nothing => w.waiting[d].time <= Read,
         NEW c \in Transforms, Target \notin corrections.lost => RightOn(w, corrections, c, Target),
         NEW expired \in SUBSET Expired(w), Observe(w, expired), Target \notin corrections'.lost
  PROVE  /\ Target \notin corrections.lost /\ RightOn(watch', corrections', c, Target)
         /\ w.dev[Target] # Unseen => watch'.dev[Target] # Unseen
         /\ \A i \in 1 .. Len(toMonitor) :
              /\ toMonitor[i].dev = Target /\ toMonitor[i].tracks
              /\ watch'.waiting[Target] = Nothing
              /\ corrections'.usableAfter[Target] <= toMonitor[i].time
              => /\ watch'.dev[Target] # Unseen
                 /\ watch'.dev[Target].frame.err = toMonitor[i].frame.err
<1> USE TargetAssumption
<1> DEFINE n == Len(toMonitor)
           x == [corrections EXCEPT !.lost = @ \cup (Trackers \ {Target})]
           seen == Drained(w, expired)
           moved == CompensateTrackerFrameMoves(corrections, seen)
           joined == JoinTrackerFrames(moved, seen, Headset, {Target})
<1>1. /\ toMonitor \in Seq(Samples) /\ n \in Nat /\ time \in Nat /\ Read \in Nat
      /\ Read + n = time /\ \A i \in 1 .. n : toMonitor[i].time = Read + i
  <2>1. toMonitor \in Seq(Samples) /\ n <= time /\ time \in Nat  BY DEF StreamsTyped, WorldTyped
  <2>2. n \in Nat  BY <2>1
  <2> HIDE DEF n
  <2>3. Read = time - n  BY DEF Read, n
  <2>4. Read \in Nat /\ Read + n = time  BY ONLY <2>1, <2>2, <2>3
  <2> QED  BY <2>1, <2>2, <2>4 DEF StreamsTyped, n
<1>2. /\ watch' = [seen EXCEPT !.moves = <<>>, !.switches = <<>>, !.dropped = {}]
      /\ corrections' = joined
  BY DEF Observe, Measured
<1>3. /\ x \in Corrections /\ x.frames = corrections.frames
      /\ x.lost = corrections.lost \cup (Trackers \ {Target})
  BY DEF Corrections
<1> HIDE DEF x
<1>4. AllRight(w, x, c)
  <2>1. ASSUME NEW d \in Trackers \ x.lost PROVE RightOn(w, x, c, d)
    <3>1. d = Target /\ Target \notin corrections.lost  BY <1>3, <2>1
    <3> QED  BY <1>3, <3>1 DEF RightOn
  <2> QED  BY <1>3, <2>1 DEF AllRight
<1>5. PICK r : /\ Followed(w, Read, r) /\ DOMAIN r = Trackers \ x.lost
               /\ \A d \in DOMAIN r, g \in Histories :
                    Through(g, r[d]) => ReadsRight(c, x.frames[d], g[0])
  BY <1>1, <1>4, ReadyFollowed
<1> DEFINE q == Told(r, toMonitor, n)
<1>6. /\ Followed(seen, time, q) /\ Sighted(w, toMonitor, n, seen)
      /\ DOMAIN q = DOMAIN r
      /\ \A d \in DOMAIN r : q[d] = r[d] \cup Sightings(toMonitor, d, n)
  <2>1. Followed(seen, time, q) /\ Sighted(w, toMonitor, n, seen)
    BY <1>1, <1>5, DrainedFollowed
  <2> QED  BY <2>1 DEF Told
<1> HIDE DEF q, seen
<1>7. /\ moved \in Corrections /\ corrections.lost \subseteq moved.lost
      /\ \A d \in DOMAIN q : d \notin moved.lost /\ ~Broken(seen, d) => RightOn(seen, moved, c, d)
      /\ \A d \in Trackers \ moved.lost, l \in 1 .. Len(seen.moves) :
           seen.moves[l].dev = d => seen.moves[l].time <= moved.usableAfter[d]
  <2>1. DOMAIN q \subseteq Trackers \ corrections.lost  BY <1>3, <1>5, <1>6
  <2>2. \A d \in DOMAIN q, g \in Histories :
          Through(g, q[d]) => ReadsRight(c, corrections.frames[d], g[0])
    BY <1>3, <1>5, <1>6 DEF Through
  <2> QED  BY <1>1, <1>6, <2>1, <2>2, CompensatedRight
<1> HIDE DEF moved
<1>8. seen \in Watches /\ Timely(seen, time)  BY <1>6 DEF Followed
<1>9. /\ joined \in Corrections /\ joined.frames[Target] = moved.frames[Target]
      /\ joined.usableAfter[Target] = moved.usableAfter[Target]
      /\ Target \notin moved.lost /\ ~Broken(seen, Target)
  <2>1. Target \notin joined.lost  BY <1>2
  <2> QED  BY <1>7, <1>8, <2>1, JoinedKept
<1> HIDE DEF joined
<1>10. Target \notin corrections.lost /\ Target \in DOMAIN q  BY <1>3, <1>5, <1>6, <1>7, <1>9
<1>11. watch'.dev = seen.dev /\ watch'.waiting = seen.waiting  BY <1>2, <1>8 DEF Watches
<1>12. RightOn(watch', corrections', c, Target)
  <2>1. RightOn(seen, moved, c, Target)  BY <1>7, <1>9, <1>10
  <2> QED  BY <1>2, <1>9, <1>11, <2>1 DEF RightOn, Ref
<1>13. w.dev[Target] # Unseen => watch'.dev[Target] # Unseen  BY <1>6, <1>11 DEF Sighted
<1>14. ASSUME NEW i \in 1 .. n, toMonitor[i].dev = Target, toMonitor[i].tracks,
              watch'.waiting[Target] = Nothing,
              corrections'.usableAfter[Target] <= toMonitor[i].time
       PROVE  /\ watch'.dev[Target] # Unseen
              /\ watch'.dev[Target].frame.err = toMonitor[i].frame.err
  <2> DEFINE s == toMonitor[i]
             p == <<s.time, s.frame.err>>
  <2>1. p \in Sightings(toMonitor, Target, n)  BY <1>14 DEF Sightings
  <2>2. seen.dev[Target] # Unseen  BY <1>6, <2>1 DEF Sighted
  <2>3. PICK g \in Histories : /\ Through(g, q[Target])
                               /\ Chain(seen, Target, g, time, seen.dev[Target].frame.err)
    BY <1>6, <1>9, <1>10, <2>2 DEF Followed, Reaches
  <2>4. g[s.time] = s.frame.err
    <3>1. p \in q[Target]  BY <1>6, <1>10, <2>1
    <3>2. g[p[1]] = p[2]  BY <2>3, <3>1 DEF Through
    <3> QED  BY <3>2
  <2>5. s.time \in Nat /\ s.time <= time  BY <1>1
  <2> HIDE DEF s
  <2>6. ASSUME NEW t \in Nat, s.time < t, t <= time PROVE ~Event(seen, Target, t)
    <3>1. ASSUME NEW l \in 1 .. Len(seen.moves), seen.moves[l].dev = Target,
                 seen.moves[l].time = t
          PROVE  FALSE
      <4>1. t <= moved.usableAfter[Target]  BY <1>7, <1>9, <3>1
      <4>2. moved.usableAfter[Target] <= s.time  BY <1>2, <1>9, <1>14 DEF s
      <4>3. moved.usableAfter[Target] \in Nat  BY <1>7 DEF Corrections
      <4> QED  BY <2>5, <2>6, <4>1, <4>2, <4>3
    <3> QED  BY <1>11, <1>14, <3>1 DEF Event
  <2>7. g[s.time] = g[time]  BY <1>1, <2>3, <2>5, <2>6 DEF Chain
  <2>8. g[time] = seen.dev[Target].frame.err  BY <1>1, <2>3 DEF Chain
  <2> QED  BY <1>11, <2>2, <2>4, <2>7, <2>8 DEF s
<1> QED  BY <1>10, <1>12, <1>13, <1>14

LEMMA FreshReady ==
  ASSUME NEW x \in Corrections, NEW c
  PROVE  /\ FreshWatch \in Watches /\ FreshWatch.moves = <<>> /\ FreshWatch.switches = <<>>
         /\ FreshWatch.dropped = {}
         /\ \A d \in Trackers : FreshWatch.waiting[d] = Nothing
         /\ AllRight(FreshWatch, x, c)
<1>1. /\ [d \in Trackers \cup Stations |-> Unseen] \in [Trackers \cup Stations -> Seen \cup {Unseen}]
      /\ [d \in Trackers |-> Nothing] \in [Trackers -> Changes \cup {Nothing}]
      /\ <<>> \in Seq(Moves) /\ <<>> \in Seq(Switches)
      /\ <<>> \in Seq([from : Frames, to : Frames])
  OBVIOUS
<1>2. FreshWatch \in Watches  BY ONLY <1>1 DEF FreshWatch, Watches
<1>3. \A d \in Trackers : FreshWatch.dev[d] = Unseen /\ FreshWatch.waiting[d] = Nothing
  BY DEF FreshWatch
<1>4. AllRight(FreshWatch, x, c)  BY <1>3 DEF AllRight, RightOn
<1> QED  BY <1>2, <1>3, <1>4 DEF FreshWatch

\* Devices left unread keep the frames they were last seen in.
LEMMA PartedReady ==
  ASSUME NEW w \in Watches, w.moves = <<>>, w.switches = <<>>, w.dropped = {}, NEW x, NEW c,
         AllRight(w, x, c), NEW apart
  PROVE  /\ Parted(w, apart) \in Watches /\ Parted(w, apart).moves = <<>>
         /\ Parted(w, apart).switches = <<>> /\ Parted(w, apart).dropped = {}
         /\ Parted(w, apart).waiting = w.waiting
         /\ AllRight(Parted(w, apart), x, c)
         /\ \A d \in Trackers : w.dev[d] # Unseen =>
              /\ Parted(w, apart).dev[d] # Unseen
              /\ Parted(w, apart).dev[d].frame = w.dev[d].frame
<1> DEFINE dev == [d \in Trackers \cup Stations |->
                     IF d \in apart /\ w.dev[d].at = "here" THEN [w.dev[d] EXCEPT !.at = "apart"]
                     ELSE w.dev[d]]
           y == Parted(w, apart)
<1>1. w.dev \in [Trackers \cup Stations -> Seen \cup {Unseen}]  BY DEF Watches
<1>2. y = [w EXCEPT !.dev = dev]  BY <1>1 DEF Parted
<1>3. ASSUME NEW d \in Trackers \cup Stations
      PROVE  /\ dev[d] \in Seen \cup {Unseen}
             /\ dev[d] # Unseen <=> w.dev[d] # Unseen
             /\ dev[d] # Unseen => dev[d].frame = w.dev[d].frame
  <2>1. CASE d \in apart /\ w.dev[d].at = "here"
    <3>1. dev[d] = [w.dev[d] EXCEPT !.at = "apart"]  BY <2>1
    <3> HIDE DEF dev
    <3>2. w.dev[d] # Unseen  BY <2>1 DEF Unseen
    <3>3. w.dev[d] \in Seen  BY <1>1, <3>2
    <3>4. dev[d] \in Seen /\ dev[d].frame = w.dev[d].frame  BY <3>1, <3>3 DEF Seen
    <3> QED  BY <3>2, <3>4, Distinct
  <2>2. CASE ~(d \in apart /\ w.dev[d].at = "here")
    <3>1. dev[d] = w.dev[d]  BY <2>2
    <3> QED  BY <1>1, <3>1
  <2> QED  BY <2>1, <2>2
<1>4. dev \in [Trackers \cup Stations -> Seen \cup {Unseen}]
  <2>1. \A d \in Trackers \cup Stations : dev[d] \in Seen \cup {Unseen}  BY <1>3
  <2> QED  BY <2>1
<1> HIDE DEF dev, y
<1>5. /\ y \in Watches /\ y.dev = dev /\ y.waiting = w.waiting /\ y.moves = w.moves
      /\ y.switches = w.switches /\ y.dropped = w.dropped
  BY <1>2, <1>4 DEF Watches
<1>6. ASSUME NEW d \in Trackers \ x.lost PROVE RightOn(y, x, c, d)
  <2>1. RightOn(w, x, c, d)  BY DEF AllRight
  <2> QED  BY <1>3, <1>5, <2>1 DEF RightOn, Ref
<1>7. AllRight(y, x, c)  BY <1>6 DEF AllRight
<1> QED  BY <1>3, <1>5, <1>7 DEF y

LEMMA TickFollow == FollowInv /\ RuntimeMonitorTick => FollowInv'
<1> SUFFICES ASSUME FollowInv, RuntimeMonitorTick PROVE FollowInv'  OBVIOUS
<1> USE DEF FollowInv, worldVars
<1> DEFINE w == IF stale THEN FreshWatch ELSE watch
<1>1. /\ corrections \in Corrections /\ calibration \in Transforms
  BY DEF CorrectionsRight
<1>2. time \in Nat /\ Len(toMonitor) \in Nat /\ Len(toMonitor) <= time
  <2>1. toMonitor \in Seq(Samples)  BY DEF StreamsTyped
  <2>2. Len(toMonitor) \in Nat  BY <2>1
  <2> QED  BY <2>2 DEF StreamsTyped, WorldTyped
<1>3. Read \in Nat /\ Read <= time  BY <1>2 DEF Read
<1>4. /\ w \in Watches /\ w.moves = <<>> /\ w.switches = <<>> /\ w.dropped = {}
      /\ \A d \in Trackers : w.waiting[d] # Nothing => w.waiting[d].time <= Read
      /\ AllRight(w, corrections, calibration)
  <2>1. CASE stale
    <3>1. w = FreshWatch  BY <2>1
    <3> HIDE DEF w
    <3> QED  BY <1>1, <3>1, FreshReady
  <2>2. CASE ~stale
    <3>1. w = watch  BY <2>2
    <3> HIDE DEF w
    <3> QED  BY <2>2, <3>1 DEF WatchReady, CorrectionsRight
  <2> QED  BY <2>1, <2>2
<1>5. /\ toMonitor' = <<>> /\ stale' = FALSE /\ active' = enabled
      /\ UNCHANGED <<worldVars, time, changes, toCollector, enabled, calibration, run, outcome>>
      /\ IF enabled /\ active /\ toMonitor # <<>>
           THEN \E expired \in SUBSET Expired(w) : Observe(w, expired)
           ELSE /\ \E apart \in SUBSET {d \in Trackers : Skipped(d)} : watch' = Parted(w, apart)
                /\ UNCHANGED corrections
  BY DEF RuntimeMonitorTick
<1> HIDE DEF w
<1>6. /\ watch' \in Watches /\ watch'.moves = <<>> /\ watch'.switches = <<>> /\ watch'.dropped = {}
      /\ \A d \in Trackers : watch'.waiting[d] # Nothing => watch'.waiting[d].time <= time
      /\ corrections' \in Corrections /\ AllRight(watch', corrections', calibration)
  <2>1. CASE enabled /\ active /\ toMonitor # <<>>
    <3>1. PICK expired \in SUBSET Expired(w) : Observe(w, expired)  BY <1>5, <2>1
    <3> QED  BY <1>1, <1>4, <3>1, ObserveFollow
  <2>2. CASE ~(enabled /\ active /\ toMonitor # <<>>)
    <3>1. PICK apart : watch' = Parted(w, apart)  BY <1>5, <2>2
    <3>2. corrections' = corrections  BY <1>5, <2>2
    <3>3. /\ Parted(w, apart) \in Watches /\ Parted(w, apart).moves = <<>>
          /\ Parted(w, apart).switches = <<>> /\ Parted(w, apart).dropped = {}
          /\ Parted(w, apart).waiting = w.waiting
          /\ AllRight(Parted(w, apart), corrections, calibration)
      BY <1>4, PartedReady
    <3>4. \A d \in Trackers : w.waiting[d] # Nothing => w.waiting[d].time <= time
      <4> SUFFICES ASSUME NEW d \in Trackers, w.waiting[d] # Nothing
                   PROVE  w.waiting[d].time <= time
        OBVIOUS
      <4>1. w.waiting[d].time \in Nat /\ w.waiting[d].time <= Read  BY <1>4, WaitingChange
      <4> QED  BY <1>2, <1>3, <4>1
    <3> QED  BY <1>1, <3>1, <3>2, <3>3, <3>4
  <2> QED  BY <2>1, <2>2
<1>7. Read' = time /\ Len(toMonitor') = 0
  <2>1. Len(toMonitor') = 0 /\ time' = time  BY <1>5
  <2> QED  BY <1>2, <2>1 DEF Read
<1>8. WorldTyped'  BY <1>5 DEF WorldTyped
<1>9. StreamsTyped'
  <2>1. toMonitor' \in Seq(Samples) /\ 1 .. Len(toMonitor') = {} /\ Len(toMonitor') <= time'
    BY <1>2, <1>5, <1>7
  <2> QED  BY <1>5, <2>1 DEF StreamsTyped
<1>10. WatchReady'  BY <1>6, <1>7 DEF WatchReady
<1>11. CorrectionsRight'  BY <1>1, <1>5, <1>6 DEF CorrectionsRight
<1>12. RunGathers'  BY <1>5 DEF RunGathers, Collecting
<1> QED  BY <1>8, <1>9, <1>10, <1>11, <1>12

-----------------------------------------------------------------------------
(* The run's own steps.                                                    *)

\* A step that leaves the world, the stream and the watch alone.
LEMMA RunStepFollow ==
  ASSUME FollowInv,
         UNCHANGED <<err, seat, settingUp, active, time, toMonitor, watch>>,
         enabled' \in BOOLEAN, stale' \in BOOLEAN, toCollector' \in Seq(Samples),
         CorrectionsRight', RunGathers'
  PROVE  FollowInv'
<1>1. WorldTyped'  BY DEF FollowInv, WorldTyped
<1>2. Read' = Read  BY DEF Read
<1>3. StreamsTyped'  BY <1>2 DEF FollowInv, StreamsTyped
<1>4. WatchReady'  BY <1>2 DEF FollowInv, WatchReady
<1> QED  BY <1>1, <1>3, <1>4 DEF FollowInv

LEMMA StandsRight ==
  ASSUME FollowInv, UNCHANGED <<watch, stale, corrections, calibration>>
  PROVE  CorrectionsRight'
  BY DEF FollowInv, CorrectionsRight

LEMMA RunFollow ==
  ASSUME FollowInv, BeginCollection \/ CollectFromPoseRing \/ CancelCalibration \/ SetEnabled
  PROVE  FollowInv'
<1> USE DEF worldVars, monitorVars, profileVars
<1>0. /\ enabled \in BOOLEAN /\ stale \in BOOLEAN /\ <<>> \in Seq(Samples)
      /\ toCollector \in Seq(Samples) /\ corrections \in Corrections
  BY DEF FollowInv, WorldTyped, StreamsTyped, CorrectionsRight
<1>1. CASE BeginCollection
  <2>1. run' = [state |-> "Collecting", preserveTrackerFrames |-> enabled, captured |-> 0,
                normalization |-> Identity, at |-> Nothing, toStart |-> Identity, moves |-> 0,
                spread |-> {}, stopped |-> FALSE, unsettled |-> FALSE]
    BY <1>1 DEF BeginCollection
  <2>2. Identity \in Transforms  BY DEF Identity, Transforms
  <2>3. run' \in Runs  BY <1>0, <2>1, <2>2 DEF Runs
  <2>4. Gathers(run')  BY <2>1, <2>3 DEF Gathers
  <2>5. RunGathers'  BY <1>1, <2>4 DEF RunGathers, BeginCollection
  <2> QED  BY <1>0, <1>1, <2>5, RunStepFollow, StandsRight DEF BeginCollection
<1>2. CASE CollectFromPoseRing
  <2>1. Gathers(run)  BY <1>2 DEF CollectFromPoseRing, FollowInv, RunGathers, Collecting, NoRun
  <2>2. Gathers(Collected)  BY <1>0, <2>1, CollectedGathers
  <2>3. \/ run' = NoRun
        \/ run' = Collected /\ outcome' = outcome
    BY <1>2 DEF CollectFromPoseRing, End
  <2>4. RunGathers'
    <3>1. CASE run' = NoRun  BY <3>1 DEF RunGathers, Collecting, NoRun
    <3>2. CASE run' = Collected /\ outcome' = outcome
      <4>1. outcome = "none"  BY <1>2 DEF CollectFromPoseRing, FollowInv, RunGathers
      <4> QED  BY <2>2, <3>2, <4>1 DEF RunGathers
    <3> QED  BY <2>3, <3>1, <3>2
  <2> QED  BY <1>0, <1>2, <2>4, RunStepFollow, StandsRight DEF CollectFromPoseRing
<1>3. CASE CancelCalibration
  <2>1. RunGathers'  BY <1>3 DEF CancelCalibration, End, RunGathers, Collecting, NoRun
  <2> QED  BY <1>0, <1>3, <2>1, RunStepFollow, StandsRight DEF CancelCalibration
<1>4. CASE SetEnabled
  <2>1. RunGathers'  BY <1>4 DEF SetEnabled, FollowInv, RunGathers, Collecting
  <2>2. enabled' \in BOOLEAN  BY <1>4 DEF SetEnabled
  <2> QED  BY <1>0, <1>4, <2>1, <2>2, RunStepFollow, StandsRight DEF SetEnabled
<1> QED  BY <1>1, <1>2, <1>3, <1>4

\* A calibration applied reads right on the last sample of its run.
LEMMA FinishMeasures ==
  ASSUME FollowInv, FinishCalibration, outcome' = "applied"
  PROVE  /\ Gathers(Collected) /\ Collected.at \in Frames /\ Collected.at.err \in Transforms
         /\ calibration' \in Transforms
         /\ ReadsRight(calibration', corrections'.frames[Target], Collected.at.err)
<1> DEFINE r == Collected
<1>1. Gathers(r)
  <2>1. Gathers(run)  BY DEF FinishCalibration, FollowInv, RunGathers, Collecting, NoRun
  <2> QED  BY <2>1, CollectedGathers DEF FollowInv, StreamsTyped, CorrectionsRight
<1>2. PICK frame \in r.spread :
        IF ~r.preserveTrackerFrames
          THEN ApplyFresh(r, Solve(frame)) /\ End("applied") /\ enabled' \in BOOLEAN
        ELSE IF FollowedRun(r)
          THEN ApplyPreserved(r, Solve(frame)) /\ End("applied") /\ enabled' \in BOOLEAN
        ELSE UNCHANGED <<profileVars, stale, enabled>> /\ End("unfollowed")
  BY DEF FinishCalibration
<1> HIDE DEF r
<1>3. r.at # Nothing /\ frame = Compose(r.toStart, r.at.err)  BY <1>1, <1>2 DEF Gathers
<1>4. /\ r.at \in Frames /\ r.at.err \in Transforms /\ r.toStart \in Transforms
      /\ r.normalization \in Transforms /\ r.moves \in Nat
  <2>1. r.at \in Frames  BY <1>1, <1>3 DEF Gathers, Runs
  <2> QED  BY <1>1, <2>1 DEF Gathers, Runs, Frames
<1> DEFINE s == r.toStart
           e == r.at.err
<1>5. ASSUME ~r.preserveTrackerFrames
      PROVE  ReadsRight(calibration', corrections'.frames[Target], e)
  <2>1. ApplyFresh(r, Solve(frame))  BY <1>2, <1>5
  <2>2. corrections'.frames[Target] = Identity
    BY <2>1, TargetAssumption DEF ApplyFresh, FreshCorrections
  <2>3. calibration' = IF r.moves > 0 THEN CarryCalibration(Solve(frame), s) ELSE Solve(frame)
    BY <2>1 DEF ApplyFresh
  <2>4. CASE r.moves > 0
    <3>1. calibration' = CarryCalibration(Solve(Compose(s, e)), s)  BY <1>3, <2>3, <2>4
    <3>2. ReadsRight(calibration', Identity, e)  BY <1>4, <3>1, SolvedReads
    <3> QED  BY <2>2, <3>2
  <2>5. CASE ~(r.moves > 0)
    <3>1. s = Identity  BY <1>1, <1>4, <2>5 DEF Gathers
    <3>2. calibration' = Solve(Compose(Identity, e))  BY <1>3, <2>3, <2>5, <3>1
    <3>3. ReadsRight(calibration', Identity, e)  BY <1>4, <3>2, SolvedReads
    <3> QED  BY <2>2, <3>3
  <2> QED  BY <2>4, <2>5
<1>6. ASSUME r.preserveTrackerFrames
      PROVE  ReadsRight(calibration', corrections'.frames[Target], e)
  <2>1. FollowedRun(r) /\ ApplyPreserved(r, Solve(frame))  BY <1>2, <1>6 DEF End
  <2>2. corrections'.frames[Target] = corrections.frames[Target]
    BY <2>1, TargetAssumption DEF ApplyPreserved, Aligned, FollowInv, CorrectionsRight, Corrections
  <2>3. corrections.frames[Target] = Compose(r.normalization, s)  BY <2>1 DEF FollowedRun
  <2>4. calibration' = ExpressCalibration(Solve(Compose(s, e)), r.normalization)
    BY <1>3, <2>1 DEF ApplyPreserved
  <2>5. ReadsRight(calibration', Compose(r.normalization, s), e)  BY <1>4, <2>4, SolvedReads
  <2> QED  BY <2>2, <2>3, <2>5
<1>7. calibration' \in Transforms
  <2>1. Solve(frame) \in Transforms
    <3>1. frame \in Transforms  BY <1>1, <1>2 DEF Gathers, Runs
    <3> QED  BY <3>1, ScaleAssumption DEF Solve, Transforms
  <2>2. ASSUME NEW c \in Transforms, NEW f \in Transforms
        PROVE  CarryCalibration(c, f) \in Transforms /\ ExpressCalibration(c, f) \in Transforms
    BY ScaleAssumption DEF CarryCalibration, ExpressCalibration, Transforms
  <2>3. CASE ~r.preserveTrackerFrames
    <3>1. ApplyFresh(r, Solve(frame))  BY <1>2, <2>3
    <3> QED  BY <1>4, <2>1, <2>2, <3>1 DEF ApplyFresh
  <2>4. CASE r.preserveTrackerFrames
    <3>1. ApplyPreserved(r, Solve(frame))  BY <1>2, <2>4 DEF End
    <3> QED  BY <1>4, <2>1, <2>2, <3>1 DEF ApplyPreserved
  <2> QED  BY <2>3, <2>4
<1> QED  BY <1>1, <1>4, <1>5, <1>6, <1>7 DEF r

LEMMA FinishFollow ==
  ASSUME FollowInv, FinishCalibration
  PROVE  FollowInv'
<1> USE DEF worldVars, monitorVars, profileVars
<1> DEFINE r == Collected
<1>1. PICK frame \in r.spread :
        IF ~r.preserveTrackerFrames
          THEN ApplyFresh(r, Solve(frame)) /\ End("applied") /\ enabled' \in BOOLEAN
        ELSE IF FollowedRun(r)
          THEN ApplyPreserved(r, Solve(frame)) /\ End("applied") /\ enabled' \in BOOLEAN
        ELSE UNCHANGED <<profileVars, stale, enabled>> /\ End("unfollowed")
  BY DEF FinishCalibration
<1>2. /\ UNCHANGED <<err, seat, settingUp, active, time, toMonitor, watch>> /\ toCollector' = <<>>
  BY DEF FinishCalibration
<1>3. RunGathers'
  <2>1. run' = NoRun  BY <1>1 DEF End
  <2> QED  BY <2>1 DEF RunGathers, Collecting, NoRun
<1>4. corrections \in Corrections /\ calibration \in Transforms /\ enabled \in BOOLEAN
      /\ stale \in BOOLEAN /\ toCollector' \in Seq(Samples)
  BY <1>2 DEF FollowInv, WorldTyped, CorrectionsRight
<1> HIDE DEF r
<1>5. CASE UNCHANGED <<profileVars, stale, enabled>> /\ End("unfollowed")
  BY <1>2, <1>3, <1>4, <1>5, RunStepFollow, StandsRight
<1>6. CASE ~r.preserveTrackerFrames
  <2>1. ApplyFresh(r, Solve(frame)) /\ enabled' \in BOOLEAN /\ outcome' = "applied"
    BY <1>1, <1>6 DEF End
  <2>2. calibration' \in Transforms  BY <2>1, FinishMeasures
  <2>3. corrections' \in Corrections
    <3>1. Identity \in Transforms  BY DEF Identity, Transforms
    <3> QED  BY <2>1, <3>1 DEF ApplyFresh, FreshCorrections, Corrections
  <2>4. stale' = TRUE  BY <2>1 DEF ApplyFresh
  <2>5. CorrectionsRight'  BY <2>2, <2>3, <2>4 DEF CorrectionsRight
  <2> QED  BY <1>2, <1>3, <1>4, <2>1, <2>4, <2>5, RunStepFollow
<1>7. CASE ApplyPreserved(r, Solve(frame)) /\ End("applied") /\ enabled' \in BOOLEAN
  <2>1. outcome' = "applied"  BY <1>7 DEF End
  <2>2. /\ r.at \in Frames /\ calibration' \in Transforms
        /\ ReadsRight(calibration', corrections'.frames[Target], r.at.err)
    BY <2>1, FinishMeasures DEF r
  <2> DEFINE c == ExpressCalibration(Solve(frame), r.normalization)
             frames == [d \in Trackers |-> IF d \in Aligned(r) THEN corrections.frames[Target]
                                           ELSE corrections.frames[d]]
             doubtful(d) ==
               \/ d = Target /\ watch.dev[d].frame # r.at
               \/ d \in Aligned(r) \cup {Target} /\ watch.waiting[d] # Nothing
               \/ d \notin Aligned(r) \cup {Target} /\ (calibration # c \/ d \in corrections.lost)
             lost == {d \in Trackers : doubtful(d)}
  <2>3. /\ calibration' = c /\ stale' = stale
        /\ corrections' = [corrections EXCEPT !.frames = frames, !.lost = lost]
    BY <1>4, <1>7 DEF ApplyPreserved, Corrections
  <2>4. lost \in SUBSET Trackers  OBVIOUS
  <2>5. frames \in [Trackers -> Transforms]
    BY <1>4, TargetAssumption DEF Corrections
  <2>6. \A d \in Trackers \ lost : ~doubtful(d)  OBVIOUS
  <2> HIDE DEF lost
  <2>7. \A d \in Trackers : frames[d] = IF d \in Aligned(r) THEN corrections.frames[Target]
                                        ELSE corrections.frames[d]
    OBVIOUS
  <2> HIDE DEF frames, c
  <2>8. corrections' \in Corrections /\ corrections'.frames = frames /\ corrections'.lost = lost
    BY <1>4, <2>3, <2>4, <2>5 DEF Corrections
  <2>9. frames[Target] = corrections.frames[Target] /\ Target \notin Aligned(r)
    BY <2>7, TargetAssumption DEF Aligned
  <2>10. ASSUME ~stale, NEW d \in Trackers \ lost
         PROVE  RightOn(watch, corrections', calibration', d)
    <3>1. ASSUME d = Target \/ d \in Aligned(r)
          PROVE  /\ watch.waiting[d] = Nothing /\ watch.dev[d].frame = r.at
                 /\ frames[d] = frames[Target]
      <4>1. watch.waiting[d] = Nothing  BY <2>6, <3>1
      <4>2. watch.dev[d].frame = r.at  BY <2>6, <3>1 DEF Aligned, LastFrameIs
      <4> QED  BY <2>7, <2>9, <3>1, <4>1, <4>2
    <3>2. CASE d = Target \/ d \in Aligned(r)
      BY <2>2, <2>8, <3>1, <3>2 DEF RightOn, Ref
    <3>3. CASE d # Target /\ d \notin Aligned(r)
      <4>1. calibration = c /\ d \notin corrections.lost  BY <2>6, <3>3
      <4>2. RightOn(watch, corrections, calibration, d)
        BY <2>10, <4>1 DEF FollowInv, CorrectionsRight, AllRight
      <4>3. frames[d] = corrections.frames[d]  BY <2>7, <3>3
      <4> QED  BY <2>3, <2>8, <4>1, <4>2, <4>3 DEF RightOn
    <3> QED  BY <3>2, <3>3
  <2>11. CorrectionsRight'
    <3>1. ASSUME ~stale' PROVE AllRight(watch, corrections', calibration')
      BY <2>3, <2>8, <2>10, <3>1 DEF AllRight
    <3> QED  BY <1>2, <2>2, <2>8, <3>1 DEF CorrectionsRight
  <2> QED  BY <1>2, <1>3, <1>4, <1>7, <2>3, <2>11, RunStepFollow
<1> QED  BY <1>1, <1>5, <1>6, <1>7

LEMMA NextFollow == FollowInv /\ [Next]_vars => FollowInv'
<1> SUFFICES ASSUME FollowInv, [Next]_vars PROVE FollowInv'  OBVIOUS
<1>1. CASE UNCHANGED vars
  <2>1. UNCHANGED <<err, seat, settingUp, active, time, toMonitor, watch, enabled, stale,
                    toCollector, corrections, calibration, run, outcome>>
    BY <1>1 DEF vars, worldVars, monitorVars, profileVars
  <2>2. enabled' \in BOOLEAN /\ stale' \in BOOLEAN /\ toCollector' \in Seq(Samples)
    BY <2>1 DEF FollowInv, WorldTyped, StreamsTyped
  <2>3. RunGathers'  BY <2>1 DEF FollowInv, RunGathers, Collecting
  <2> QED  BY <2>1, <2>2, <2>3, RunStepFollow, StandsRight
<1>2. ASSUME NEW b \in Stations, Move(b) \/ StationTracks(b) PROVE FollowInv'
  BY <1>2, TargetAssumption, WorldFollow
<1>3. ASSUME NEW d \in Trackers, Track(d) \/ Jump(d) \/ ChangeStation(d) \/ SwitchOff(d)
      PROVE  FollowInv'
  <2>1. seat[d] \in Stations  BY DEF FollowInv, WorldTyped
  <2> QED  BY <1>3, <2>1, WorldFollow
<1>4. CASE SetupEnds
  <2>1. Target \in Trackers /\ seat[Target] \in Stations
    BY TargetAssumption DEF FollowInv, WorldTyped
  <2> QED  BY <1>4, <2>1, WorldFollow
<1>5. CASE RuntimeMonitorTick  BY <1>5, TickFollow
<1>6. CASE BeginCollection \/ CollectFromPoseRing \/ CancelCalibration \/ SetEnabled
  BY <1>6, RunFollow
<1>7. CASE FinishCalibration  BY <1>7, FinishFollow
<1> QED  BY <1>1, <1>2, <1>3, <1>4, <1>5, <1>6, <1>7 DEF Next

LEMMA FollowInvariant == Spec => []FollowInv
<1>1. Init => FollowInv  BY InitFollow
<1>2. FollowInv /\ [Next]_vars => FollowInv'  BY NextFollow
<1> QED  BY <1>1, <1>2, PTL DEF Spec

LEMMA FollowReads == FollowInv => TrackersReadRight
<1> SUFFICES ASSUME FollowInv, NEW d \in Trackers \ corrections.lost, watch.dev[d] # Unseen, ~stale
             PROVE  ReadsRight(calibration, corrections.frames[d],
                               IF watch.waiting[d] = Nothing THEN watch.dev[d].frame.err
                               ELSE watch.waiting[d].from.err)
  BY DEF TrackersReadRight
<1>1. RightOn(watch, corrections, calibration, d)
  BY DEF FollowInv, CorrectionsRight, AllRight
<1> QED  BY <1>1 DEF RightOn, Ref

\* A tracker whose frame the code followed reads right in the frame the watch last saw it in,
\* or in the one it left while a change of it waits, however the stations are re-solved, the
\* trackers change station, and the drains, pauses and recalibrations fall between:
\* LighthouseFrameWatch, CompensateTrackerFrameMoves and JoinTrackerFrames together.
THEOREM ReadingRight == Spec => []TrackersReadRight
<1>1. FollowInv => TrackersReadRight  BY FollowReads
<1> QED  BY <1>1, FollowInvariant, PTL

\* A calibration that FinishCalibration applies reads right on the last sample it was measured
\* with, however the target's frame moved during the run.
THEOREM MeasuringRight == Spec => MeasuredRight
<1> DEFINE A == Collecting /\ outcome' = "applied" =>
                  ReadsRight(calibration', corrections'.frames[Target], Collected.at.err)
<1>1. FollowInv /\ [Next]_vars => A
  <2> SUFFICES ASSUME FollowInv, [Next]_vars, Collecting, outcome' = "applied"
               PROVE  ReadsRight(calibration', corrections'.frames[Target], Collected.at.err)
    OBVIOUS
  <2>1. outcome = "none"  BY DEF FollowInv, RunGathers
  <2>2. outcome' # outcome  BY <2>1
  <2>3. FinishCalibration
    BY <2>1, <2>2 DEF Next, vars, Move, StationTracks, Track, Jump, ChangeStation, SwitchOff,
                 SetupEnds, RuntimeMonitorTick, BeginCollection, CollectFromPoseRing, End,
                 CancelCalibration, SetEnabled
  <2> QED  BY <2>3, FinishMeasures
<1>2. [][A]_vars <=> MeasuredRight  BY DEF MeasuredRight
<1>3. FollowInv /\ [Next]_vars => [A]_vars  BY <1>1
<1> QED  BY <1>2, <1>3, FollowInvariant, PTL DEF Spec

-----------------------------------------------------------------------------
(* A run is not stopped for a frame that was followed.                     *)

\* While a run goes on the watch is not started over under it.
RunStands ==
  Collecting => /\ stale => pc = "monitor" /\ run.captured = 0
                /\ Stands(run)

\* The run's samples are the target's among those the monitors have yet to read; once they
\* have, each lies where the corrections say, as far as the monitors observed.
CollectorInPlace ==
  /\ observed \in Nat /\ observed <= Read
  /\ pc = "collect" => Collecting
  /\ ~Collecting => toCollector = <<>>
  /\ \A i \in 1 .. Len(toCollector) :
       LET s == toCollector[i]
       IN /\ s.dev = Target /\ s.time <= time
          /\ Read < s.time => s = toMonitor[s.time - Read]
          /\ pc = "monitor" => Read < s.time
          /\ pc = "collect" /\ s.time <= observed => Holds(s)

StandInv == FollowInv /\ pc \in {"monitor", "collect"} /\ RunStands /\ CollectorInPlace

LEMMA ReadTyped ==
  ASSUME FollowInv
  PROVE  /\ time \in Nat /\ Len(toMonitor) \in Nat /\ Read \in Nat /\ Read <= time
         /\ Read + Len(toMonitor) = time
         /\ \A i \in 1 .. Len(toCollector) : toCollector[i].time \in Nat \ {0}
<1>1. /\ time \in Nat /\ toMonitor \in Seq(Samples) /\ Len(toMonitor) <= time
      /\ toCollector \in Seq(Samples)
  BY DEF FollowInv, StreamsTyped, WorldTyped
<1>2. Len(toMonitor) \in Nat  BY <1>1
<1>3. \A i \in 1 .. Len(toCollector) : toCollector[i] \in Samples  BY <1>1
<1> QED  BY <1>1, <1>2, <1>3 DEF Read, Samples

LEMMA InitStand == Init => StandInv
<1> SUFFICES ASSUME Init PROVE StandInv  OBVIOUS
<1>1. FollowInv  BY InitFollow
<1>2. ~Collecting /\ toCollector = <<>> /\ observed = 0 /\ pc = "monitor"
  BY DEF Init, Collecting, NoRun
<1>3. Len(toCollector) = 0  BY <1>2
<1> QED  BY <1>1, <1>2, <1>3, ReadTyped DEF StandInv, RunStands, CollectorInPlace

\* What Stands and Holds speak of does not change.
LEMMA StandsOn ==
  ASSUME UNCHANGED <<watch, corrections>>
  PROVE  /\ \A r : Stands(r) => Stands(r)'
         /\ \A s : Holds(s) => Holds(s)'
  BY DEF Stands, Holds, RightOn, Ref

LEMMA PublishStand ==
  ASSUME StandInv, FollowInv', NEW sample, sample \in Samples, sample.time = time + 1,
         Publish(sample), UNCHANGED <<watch, stale, observed, corrections, pc, run>>
  PROVE  StandInv'
<1> DEFINE n == Len(toCollector)
           m == Len(toMonitor)
<1>1. /\ toMonitor \in Seq(Samples) /\ toCollector \in Seq(Samples) /\ n \in Nat /\ m \in Nat
      /\ time \in Nat /\ Read \in Nat /\ Read + m = time /\ \A i \in 1 .. n : toCollector[i].time \in Nat
  BY ReadTyped DEF StandInv, FollowInv, StreamsTyped
<1>2. /\ time' = time + 1 /\ toMonitor' = Append(toMonitor, sample)
      /\ \/ toCollector' = toCollector
         \/ Collecting /\ sample.dev = Target /\ toCollector' = Append(toCollector, sample)
  BY DEF Publish
<1>3. /\ Len(toMonitor') = m + 1 /\ toMonitor'[m + 1] = sample
      /\ \A i \in 1 .. m : toMonitor'[i] = toMonitor[i]
  BY <1>1, <1>2
<1>4. Read' = Read  BY <1>1, <1>2, <1>3 DEF Read
<1>5. /\ observed \in Nat /\ observed <= Read /\ (pc = "collect" => Collecting)
      /\ ~Collecting => toCollector = <<>>
  BY DEF StandInv, CollectorInPlace
<1>6. Collecting' = Collecting  BY DEF Collecting
<1> DEFINE Fits(s) == /\ s.dev = Target /\ s.time <= time
                      /\ Read < s.time => s = toMonitor[s.time - Read]
                      /\ pc = "monitor" => Read < s.time
                      /\ pc = "collect" /\ s.time <= observed => Holds(s)
           FitsNow(s) == /\ s.dev = Target /\ s.time <= time + 1
                         /\ Read < s.time => s = toMonitor'[s.time - Read]
                         /\ pc = "monitor" => Read < s.time
                         /\ pc = "collect" /\ s.time <= observed => Holds(s)'
<1>7. ASSUME NEW s \in Samples, Fits(s), s.time \in Nat PROVE FitsNow(s)
  <2>1. Holds(s) => Holds(s)'  BY StandsOn
  <2>2. Read < s.time => s.time - Read \in 1 .. m  BY <1>1, <1>7
  <2> QED  BY <1>1, <1>3, <1>7, <2>1, <2>2
<1>8. ASSUME sample.dev = Target PROVE FitsNow(sample)
  <2>1. sample.time - Read = m + 1 /\ Read < sample.time /\ sample.time <= time + 1
        /\ ~(sample.time <= observed)
    BY <1>1, <1>5
  <2> QED  BY <1>3, <1>8, <2>1
<1>9. \A i \in 1 .. n : toCollector[i] \in Samples /\ Fits(toCollector[i])
  BY <1>1 DEF StandInv, CollectorInPlace
<1>10. ASSUME NEW i \in 1 .. Len(toCollector') PROVE \E s \in Samples : s = toCollector'[i] /\ FitsNow(s)
  <2> HIDE DEF Fits, FitsNow
  <2>1. CASE toCollector' = toCollector
    <3>1. /\ toCollector'[i] = toCollector[i] /\ toCollector[i] \in Samples
          /\ Fits(toCollector[i]) /\ toCollector[i].time \in Nat
      BY <1>1, <1>9, <2>1
    <3> QED  BY <1>7, <3>1
  <2>2. CASE sample.dev = Target /\ toCollector' = Append(toCollector, sample)
    <3>1. /\ Len(toCollector') = n + 1 /\ toCollector'[n + 1] = sample
          /\ \A j \in 1 .. n : toCollector'[j] = toCollector[j]
      BY <1>1, <2>2
    <3>2. CASE i = n + 1  BY <1>8, <2>2, <3>1, <3>2
    <3>3. CASE i \in 1 .. n
      <4>1. /\ toCollector'[i] = toCollector[i] /\ toCollector[i] \in Samples
            /\ Fits(toCollector[i]) /\ toCollector[i].time \in Nat
        BY <1>1, <1>9, <3>1, <3>3
      <4> QED  BY <1>7, <4>1
    <3> QED  BY <1>1, <3>1, <3>2, <3>3
  <2> QED  BY <1>2, <2>1, <2>2
<1>11. CollectorInPlace'
  <2>1. ~Collecting' => toCollector' = <<>>  BY <1>2, <1>5, <1>6
  <2>2. ASSUME NEW i \in 1 .. Len(toCollector')
        PROVE  (LET s == toCollector[i]
                IN /\ s.dev = Target /\ s.time <= time
                   /\ Read < s.time => s = toMonitor[s.time - Read]
                   /\ pc = "monitor" => Read < s.time
                   /\ pc = "collect" /\ s.time <= observed => Holds(s))'
    <3>1. PICK s \in Samples : s = toCollector'[i] /\ FitsNow(s)  BY <1>10
    <3> QED  BY <1>2, <1>4, <3>1 DEF Holds
  <2> QED  BY <1>4, <1>5, <1>6, <2>1, <2>2 DEF CollectorInPlace
<1>12. RunStands'
  <2>1. \A r : Stands(r) => Stands(r)'  BY StandsOn
  <2> QED  BY <1>6, <2>1 DEF StandInv, RunStands
<1> QED  BY <1>11, <1>12 DEF StandInv

\* What leaves the stream, the watch and the run alone.
LEMMA IdleStand ==
  ASSUME StandInv, FollowInv',
         UNCHANGED <<time, toMonitor, toCollector, watch, stale, observed, corrections, pc, run>>
  PROVE  StandInv'
<1>1. /\ \A r : Stands(r) => Stands(r)'
      /\ \A s : Holds(s) => Holds(s)'
  BY StandsOn
<1>2. Read' = Read /\ Collecting' = Collecting  BY DEF Read, Collecting
<1>3. RunStands'  BY <1>1, <1>2 DEF StandInv, RunStands
<1>4. CollectorInPlace'  BY <1>1, <1>2 DEF StandInv, CollectorInPlace
<1> QED  BY <1>3, <1>4 DEF StandInv

LEMMA WorldStand ==
  ASSUME StandInv, FollowInv', NEW d \in Trackers, NEW b \in Stations,
         \/ Move(b) \/ StationTracks(b)
         \/ Track(d) \/ Jump(d) \/ ChangeStation(d) \/ SwitchOff(d) \/ SetupEnds \/ SetEnabled
  PROVE  StandInv'
<1> USE DEF worldVars, monitorVars, profileVars
<1>1. FollowInv /\ seat[d] \in Stations  BY DEF StandInv, FollowInv, WorldTyped
<1>2. ASSUME NEW e \in Trackers \cup Stations, NEW a \in Stations, NEW smooth \in BOOLEAN,
             NEW tracks \in BOOLEAN, Publish(Sample(e, a, smooth, tracks)),
             UNCHANGED <<watch, stale, observed, corrections, pc, run>>
      PROVE  StandInv'
  <2> DEFINE s == Sample(e, a, smooth, tracks)
  <2>1. s \in Samples /\ s.time = time + 1  BY <1>1, SampleTyped
  <2>2. Publish(s)  BY <1>2
  <2> HIDE DEF s
  <2> QED  BY ONLY StandInv, FollowInv', <1>2, <2>1, <2>2, PublishStand
<1>3. CASE StationTracks(b)  BY <1>2, <1>3 DEF StationTracks
<1>4. CASE Track(d)  BY <1>1, <1>2, <1>4 DEF Track
<1>5. CASE Jump(d)  BY <1>1, <1>2, <1>5 DEF Jump
<1>6. CASE SwitchOff(d)  BY <1>1, <1>2, <1>6 DEF SwitchOff
<1>7. CASE Move(b) \/ ChangeStation(d) \/ SetupEnds \/ SetEnabled
  BY <1>7, IdleStand DEF Move, ChangeStation, SetupEnds, SetEnabled
<1> QED  BY <1>3, <1>4, <1>5, <1>6, <1>7

LEMMA TickStand ==
  ASSUME StandInv, FollowInv', RuntimeMonitorTick
  PROVE  StandInv'
<1> USE TargetAssumption
<1> DEFINE w == IF stale THEN FreshWatch ELSE watch
           n == Len(toMonitor)
           reads == enabled /\ active /\ toMonitor # <<>>
<1>1. /\ FollowInv /\ StreamsTyped /\ WorldTyped /\ corrections \in Corrections
      /\ calibration \in Transforms
  BY DEF StandInv, FollowInv, CorrectionsRight
<1>2. /\ time \in Nat /\ n \in Nat /\ Read \in Nat /\ Read <= time /\ Read + n = time
      /\ toMonitor \in Seq(Samples)
      /\ \A i \in 1 .. Len(toCollector) : toCollector[i].time \in Nat \ {0}
  BY <1>1, ReadTyped DEF StreamsTyped
<1>3. /\ w \in Watches /\ w.moves = <<>> /\ w.switches = <<>> /\ w.dropped = {}
      /\ \A d \in Trackers : w.waiting[d] # Nothing => w.waiting[d].time <= Read
      /\ AllRight(w, corrections, calibration) /\ (~stale => w = watch)
  <2>1. CASE stale
    <3>1. w = FreshWatch  BY <2>1
    <3> HIDE DEF w
    <3> QED  BY <1>1, <2>1, <3>1, FreshReady
  <2>2. CASE ~stale
    <3>1. w = watch  BY <2>2
    <3> HIDE DEF w
    <3> QED  BY <1>1, <2>2, <3>1 DEF FollowInv, WatchReady, CorrectionsRight
  <2> QED  BY <2>1, <2>2
<1>4. /\ pc = "monitor" /\ pc' = IF Collecting THEN "collect" ELSE "monitor"
      /\ toMonitor' = <<>> /\ stale' = FALSE
      /\ UNCHANGED <<time, toCollector, calibration, run>>
      /\ \/ reads /\ \E expired \in SUBSET Expired(w) : Observe(w, expired)
         \/ /\ ~reads /\ \E apart : watch' = Parted(w, apart)
            /\ observed' = (IF stale THEN 0 ELSE observed) /\ corrections' = corrections
  BY DEF RuntimeMonitorTick, worldVars
<1> HIDE DEF w, reads
<1>5. Read' = time /\ Collecting' = Collecting
  <2>1. Len(toMonitor') = 0 /\ time' = time  BY <1>4
  <2>2. Read' = time  BY <1>2, <2>1 DEF Read
  <2> QED  BY <1>4, <2>2 DEF Collecting
<1>6. /\ observed \in Nat /\ observed <= Read /\ (~Collecting => toCollector = <<>>)
      /\ \A i \in 1 .. Len(toCollector) :
           LET s == toCollector[i]
           IN s.dev = Target /\ s.time <= time /\ Read < s.time /\ s = toMonitor[s.time - Read]
  BY <1>4 DEF StandInv, CollectorInPlace
<1>7. observed' \in Nat /\ observed' <= time /\ (~reads => observed' <= Read)
  <2>1. CASE reads
    <3> DEFINE start == IF stale THEN 0 ELSE observed
               T == {toMonitor[i].time : i \in {i \in DOMAIN toMonitor : toMonitor[i].dev = Target}}
                      \cup {start}
    <3>1. observed' = Max(T)  BY <1>4, <2>1 DEF Observe
    <3>2. start \in Nat /\ start <= time  BY <1>2, <1>6
    <3>3. \A i \in DOMAIN toMonitor : toMonitor[i].time \in Nat /\ toMonitor[i].time <= time
      <4>1. DOMAIN toMonitor = 1 .. n  BY <1>2
      <4>2. \A i \in 1 .. n : toMonitor[i].time = Read + i  BY <1>1 DEF StreamsTyped
      <4> HIDE DEF n
      <4> QED  BY <1>2, <4>1, <4>2
    <3> HIDE DEF start
    <3>4. T \in SUBSET Nat /\ T # {} /\ \A y \in T : y <= time  BY <3>2, <3>3
    <3> HIDE DEF T
    <3>5. Max(T) \in T  BY <1>2, <3>4, MaxOf
    <3> QED  BY <2>1, <3>1, <3>4, <3>5
  <2>2. CASE ~reads  BY <1>2, <1>4, <1>6, <2>2
  <2> QED  BY <2>1, <2>2
<1>8. CollectorInPlace'
  <2>1. ASSUME NEW i \in 1 .. Len(toCollector), Collecting, toCollector[i].time <= observed'
        PROVE  Holds(toCollector[i])'
    <3> DEFINE s == toCollector[i]
               j == s.time - Read
    <3>1. s.dev = Target /\ s.time \in Nat /\ s.time <= time /\ Read < s.time /\ s = toMonitor[j]
      BY <1>2, <1>6
    <3>2. j \in 1 .. n /\ reads  BY <1>2, <1>7, <2>1, <3>1
    <3>3. PICK expired \in SUBSET Expired(w) : Observe(w, expired)  BY <1>4, <3>2
    <3>4. Target \notin corrections.lost => RightOn(w, corrections, calibration, Target)
      BY <1>3 DEF AllRight
    <3> HIDE DEF s, j
    <3>5. ASSUME s.tracks, Target \notin corrections'.lost, watch'.waiting[Target] = Nothing,
                 corrections'.usableAfter[Target] <= s.time
          PROVE  watch'.dev[Target] # Unseen /\ watch'.dev[Target].frame.err = s.frame.err
      BY <1>1, <1>3, <2>1, <3>1, <3>2, <3>3, <3>4, <3>5, ObserveStands
    <3>6. s = toCollector'[i]  BY <1>4 DEF s
    <3> QED  BY <3>5, <3>6 DEF Holds
  <2>2. ASSUME NEW i \in 1 .. Len(toCollector) PROVE Collecting  BY <1>6
  <2> QED  BY <1>2, <1>4, <1>5, <1>6, <1>7, <2>1, <2>2 DEF CollectorInPlace
<1>9. RunStands'
  <2> SUFFICES ASSUME Collecting PROVE Stands(run)'  BY <1>4, <1>5 DEF RunStands
  <2>1. Stands(run) /\ (stale => run.captured = 0)  BY DEF StandInv, RunStands
  <2>2. Gathers(run)  BY <1>1 DEF FollowInv, RunGathers, Collecting, NoRun
  <2>3. ASSUME run.captured # 0, ~run.unsettled, Target \notin corrections'.lost
        PROVE  watch'.dev[Target] # Unseen /\ RightOn(watch', corrections', Solve(Place(run)), Target)
    <3> DEFINE c == Solve(Place(run))
    <3>1. w = watch  BY <1>3, <2>1, <2>3
    <3>2. c \in Transforms
      <4>1. run.at \in Frames /\ run.normalization \in Transforms /\ run.toStart \in Transforms
        BY <2>1, <2>2, <2>3 DEF Stands, Gathers, Runs
      <4>2. Compose(run.toStart, run.at.err) \in Transforms  BY <4>1, TransformTypes DEF Frames
      <4>3. Place(run) \in Transforms  BY <4>1, <4>2, TransformTypes DEF Place
      <4> QED  BY <4>3, SolvedStands
    <3>3. Target \notin corrections.lost =>
            w.dev[Target] # Unseen /\ RightOn(w, corrections, c, Target)
      BY <2>1, <2>3, <3>1 DEF Stands
    <3> HIDE DEF c
    <3>4. CASE reads
      <4>1. PICK expired \in SUBSET Expired(w) : Observe(w, expired)  BY <1>4, <3>4
      <4>2. /\ Target \notin corrections.lost /\ RightOn(watch', corrections', c, Target)
            /\ w.dev[Target] # Unseen => watch'.dev[Target] # Unseen
        BY <1>1, <1>3, <2>3, <3>2, <3>3, <4>1, ObserveStands
      <4> QED  BY <3>3, <4>2 DEF c
    <3>5. CASE ~reads
      <4>1. PICK apart : watch' = Parted(w, apart)  BY <1>4, <3>5
      <4>2. corrections' = corrections  BY <1>4, <3>5
      <4>3. /\ Parted(w, apart).waiting = w.waiting
            /\ w.dev[Target] # Unseen => /\ Parted(w, apart).dev[Target] # Unseen
                                         /\ Parted(w, apart).dev[Target].frame = w.dev[Target].frame
        BY <1>3, PartedReady
      <4> QED  BY <2>3, <3>3, <4>1, <4>2, <4>3 DEF RightOn, Ref, c
    <3> QED  BY <3>4, <3>5
  <2> QED  BY <1>4, <2>1, <2>3 DEF Stands, Place
<1>10. pc' \in {"monitor", "collect"}  BY <1>4
<1> QED  BY <1>8, <1>9, <1>10 DEF StandInv

\* A run begins, goes on, or ends.
LEMMA RunStand ==
  ASSUME StandInv, FollowInv',
         BeginCollection \/ CollectFromPoseRing \/ FinishCalibration \/ CancelCalibration
  PROVE  StandInv'
<1> USE DEF worldVars, monitorVars, profileVars
<1>1. /\ UNCHANGED <<time, toMonitor, watch, observed>> /\ toCollector' = <<>> /\ pc' = "monitor"
  BY DEF BeginCollection, CollectFromPoseRing, FinishCalibration, CancelCalibration
<1>2. CollectorInPlace'
  <2>1. Read' = Read /\ Len(toCollector') = 0  BY <1>1 DEF Read
  <2> QED  BY <1>1, <2>1 DEF StandInv, CollectorInPlace
<1>3. CASE run' = NoRun
  <2>1. RunStands'  BY <1>3 DEF RunStands, Collecting, NoRun
  <2> QED  BY <1>1, <1>2, <2>1 DEF StandInv
<1>4. CASE BeginCollection
  <2>1. run'.captured = 0 /\ run'.at = Nothing /\ run'.toStart = Identity
    BY <1>4 DEF BeginCollection
  <2>2. RunStands'  BY <1>1, <2>1 DEF RunStands, Stands
  <2> QED  BY <1>1, <1>2, <2>2 DEF StandInv
<1>5. CASE CollectFromPoseRing /\ run' # NoRun
  <2>1. run' = Collected /\ UNCHANGED <<stale, corrections>> /\ pc = "collect" /\ Collecting
    BY <1>5 DEF CollectFromPoseRing, End
  <2>2. /\ ~stale /\ Stands(run) /\ corrections \in Corrections /\ toCollector \in Seq(Samples)
        /\ Gathers(run)
    BY <2>1 DEF StandInv, RunStands, FollowInv, CorrectionsRight, StreamsTyped, RunGathers,
                Collecting, NoRun
  <2>3. \A i \in 1 .. Len(toCollector) : toCollector[i].time <= observed => Holds(toCollector[i])
    BY <2>1 DEF StandInv, CollectorInPlace
  <2>4. Stands(Collected)  BY <2>2, <2>3, CollectedStands
  <2> DEFINE r == Collected
  <2>5. run' = r /\ Stands(r)  BY <2>1, <2>4
  <2> HIDE DEF r
  <2>6. Stands(run)'  BY <1>1, <2>1, <2>5 DEF Stands, RightOn, Ref, Place
  <2>7. RunStands'  BY <2>1, <2>2, <2>6 DEF RunStands
  <2> QED  BY <1>1, <1>2, <2>7 DEF StandInv
<1>6. FinishCalibration \/ CancelCalibration => run' = NoRun
  BY DEF FinishCalibration, CancelCalibration, End
<1> QED  BY <1>3, <1>4, <1>5, <1>6

LEMMA NextStand == StandInv /\ [Next]_vars => StandInv'
<1> SUFFICES ASSUME StandInv, [Next]_vars PROVE StandInv'  OBVIOUS
<1>1. FollowInv' /\ seat \in [Trackers -> Stations]  BY NextFollow DEF StandInv, FollowInv, WorldTyped
<1>2. CASE UNCHANGED vars  BY <1>1, <1>2, IdleStand DEF vars, monitorVars, profileVars
<1>3. ASSUME NEW b \in Stations, Move(b) \/ StationTracks(b) PROVE StandInv'
  BY <1>1, <1>3, TargetAssumption, WorldStand
<1>4. ASSUME NEW d \in Trackers, Track(d) \/ Jump(d) \/ ChangeStation(d) \/ SwitchOff(d)
      PROVE  StandInv'
  <2>1. seat[d] \in Stations  BY <1>1
  <2> QED  BY <1>1, <1>4, <2>1, WorldStand
<1>5. CASE SetupEnds \/ SetEnabled
  <2>1. Target \in Trackers /\ seat[Target] \in Stations  BY <1>1, TargetAssumption
  <2> QED  BY <1>1, <1>5, <2>1, WorldStand
<1>6. CASE RuntimeMonitorTick  BY <1>1, <1>6, TickStand
<1>7. CASE BeginCollection \/ CollectFromPoseRing \/ FinishCalibration \/ CancelCalibration
  BY <1>1, <1>7, RunStand
<1> QED  BY <1>2, <1>3, <1>4, <1>5, <1>6, <1>7 DEF Next

LEMMA StandInvariant == Spec => []StandInv
<1>1. Init => StandInv  BY InitStand
<1>2. StandInv /\ [Next]_vars => StandInv'  BY NextStand
<1> QED  BY <1>1, <1>2, PTL DEF Spec

\* A run whose target is in its frame, and was followed, is one FollowedRun lets through.
LEMMA FinishForCause ==
  ASSUME StandInv, FinishCalibration, outcome' = "unfollowed", Target \notin corrections.lost,
         watch.waiting[Target] = Nothing, watch.dev[Target].frame = Collected.at
  PROVE  Collected.unsettled
<1> USE TargetAssumption
<1> DEFINE r == Collected
           n == corrections.frames[Target]
<1>1. pc = "collect" /\ Collecting /\ r.spread # {}  BY DEF FinishCalibration
<1>2. r.preserveTrackerFrames /\ ~FollowedRun(r)  BY DEF FinishCalibration, End
<1>3. Gathers(r) /\ Stands(r) /\ corrections \in Corrections
  <2>1. /\ Stands(run) /\ corrections \in Corrections /\ toCollector \in Seq(Samples)
        /\ Gathers(run)
    BY <1>1 DEF StandInv, RunStands, FollowInv, CorrectionsRight, StreamsTyped, RunGathers,
                Collecting, NoRun
  <2>2. \A i \in 1 .. Len(toCollector) : toCollector[i].time <= observed => Holds(toCollector[i])
    BY <1>1 DEF StandInv, CollectorInPlace
  <2> QED  BY <2>1, <2>2, CollectedStands
<1> HIDE DEF r
<1>4. ASSUME ~r.unsettled PROVE FALSE
  <2>1. r.at # Nothing /\ r.captured # 0  BY <1>1, <1>2, <1>3 DEF Gathers, Stands
  <2>2. /\ r.at \in Frames /\ r.at.err \in Transforms /\ r.normalization \in Transforms
        /\ r.toStart \in Transforms /\ n \in Transforms
    <3>1. r.at \in Frames  BY <1>3, <2>1 DEF Gathers, Runs
    <3> QED  BY <1>3, <3>1 DEF Gathers, Runs, Frames, Corrections
  <2>3. ReadsRight(Solve(Place(r)), n, r.at.err)
    BY <1>3, <1>4, <2>1 DEF Stands, RightOn, Ref, r
  <2>4. Place(r) \in Transforms
    <3>1. Compose(r.toStart, r.at.err) \in Transforms  BY <2>2, TransformTypes
    <3> QED  BY <2>2, <3>1, TransformTypes DEF Place
  <2>5. Compose(n, r.at.err) = Place(r)  BY <2>2, <2>3, <2>4, SolvedStands
  <2>6. n = Compose(r.normalization, r.toStart)  BY <2>2, <2>5, CarriedOnly DEF Place
  <2> QED  BY <1>2, <2>6 DEF FollowedRun
<1> QED  BY <1>4 DEF r

\* FinishCalibration turns a measurement down for a frame its target's correction did not
\* follow only when that is so, or when N was captured with a change still to be read: the
\* moves the monitors followed meanwhile, the run's samples read before theirs and a pause of
\* the monitors never cost one.
THEOREM StoppingForCause == Spec => StopsForCause
<1> DEFINE A == Collecting /\ outcome' = "unfollowed" =>
                  \/ Target \in corrections.lost
                  \/ watch.waiting[Target] # Nothing
                  \/ watch.dev[Target].frame # Collected.at
                  \/ Collected.unsettled
<1>1. StandInv /\ [Next]_vars => A
  <2> SUFFICES ASSUME StandInv, [Next]_vars, Collecting, outcome' = "unfollowed"
               PROVE  A
    OBVIOUS
  <2>1. outcome = "none"  BY DEF StandInv, FollowInv, RunGathers
  <2>2. outcome' # outcome  BY <2>1
  <2>3. FinishCalibration
    BY <2>1, <2>2 DEF Next, vars, Move, StationTracks, Track, Jump, ChangeStation, SwitchOff,
                 SetupEnds, RuntimeMonitorTick, BeginCollection, CollectFromPoseRing, End,
                 CancelCalibration, SetEnabled
  <2> QED  BY <2>3, FinishForCause
<1>2. [][A]_vars <=> StopsForCause  BY DEF StopsForCause
<1>3. StandInv /\ [Next]_vars => [A]_vars  BY <1>1
<1> QED  BY <1>2, <1>3, StandInvariant, PTL DEF Spec

=============================================================================
