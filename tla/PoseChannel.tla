----------------------------- MODULE PoseChannel -----------------------------
(***************************************************************************)
(* What the pose hub promises each of its consumers (the contract over     *)
(* PoseStreamHub::Drain), without the ring, the cursors and the chunks     *)
(* behind it.  The stream is a run of numbered samples with losses marked  *)
(* between them.  A call of Drain hands out samples in order.  It never    *)
(* hands one out past a loss that the consumer was not told of before the  *)
(* call's first sample, it counts every loss once, and with the first      *)
(* sample it reports the whole hole in front of it and whether that holds  *)
(* a session boundary.                                                     *)
(***************************************************************************)
EXTENDS Naturals, Sequences

CONSTANT Consumers

VARIABLES
  before,   \* before[i]: the losses marked in the stream ahead of sample i
  lost,     \* the losses marked so far
  next,     \* next[c]: the oldest sample that c can still be handed
  told,     \* told[c]: the samples and losses up to c's place in the stream
  hole,     \* hole[c]: the hole open since the last sample c was handed
  call      \* call[c]: c's call of Drain, or what the last one returned

streamVars == <<before, lost>>
vars == <<streamVars, next, told, hole, call>>

Published == Len(before)
NoHole == [size |-> 0, boundary |-> FALSE]
Here == [samples |-> Published, losses |-> lost]

Init ==
  /\ before = <<>> /\ lost = 0
  /\ next = [c \in Consumers |-> 1]
  /\ told = [c \in Consumers |-> Here]
  /\ hole = [c \in Consumers |-> NoHole]
  /\ call = [c \in Consumers |-> [open |-> FALSE, got |-> <<>>, dropped |-> 0,
                                  front |-> NoHole, due |-> 0, news |-> FALSE]]

-----------------------------------------------------------------------------
(* The stream.  The history is finite: with any entry, a consumer that is   *)
(* behind may lose the oldest sample it was not handed yet.                 *)

Heard(k, again) == [k EXCEPT !.news = k.open, !.due = IF again /\ @ > 0 THEN @ - 1 ELSE @]

Forget ==
  \E gone \in SUBSET {c \in Consumers : next[c] <= Published} :
    /\ next' = [c \in Consumers |-> IF c \in gone THEN next[c] + 1 ELSE next[c]]
    /\ call' = [c \in Consumers |-> Heard(call[c], c \in gone)]

Publish ==
  /\ before' = Append(before, lost) /\ Forget
  /\ UNCHANGED <<lost, told, hole>>

Lose ==
  /\ lost' \in Nat /\ lost' > lost /\ Forget
  /\ UNCHANGED <<before, told, hole>>

\* Every backlog goes; one loss and a mark in the open hole stand for it.
Boundary ==
  /\ lost' = lost + 1
  /\ next' = [c \in Consumers |-> Published + 1]
  /\ told' = [c \in Consumers |-> Here]
  /\ hole' = [c \in Consumers |-> [hole[c] EXCEPT !.boundary = TRUE]]
  /\ call' = [c \in Consumers |-> [call[c] EXCEPT !.due = 0, !.news = call[c].open]]
  /\ UNCHANGED before

-----------------------------------------------------------------------------
(* A consumer.                                                              *)

\* The end of the loss in front of c: where it is told of all of it.
Clear(c) == [samples |-> next[c] - 1,
             losses |-> IF next[c] <= Published THEN before[next[c]] ELSE lost]

\* A call is due all the samples that are there when it begins.
Call(c) ==
  /\ ~call[c].open
  /\ call' = [call EXCEPT ![c] = [open |-> TRUE, got |-> <<>>, dropped |-> 0, front |-> NoHole,
                                  due |-> Published + 1 - next[c], news |-> FALSE]]
  /\ UNCHANGED <<streamVars, next, told, hole>>

\* c is told of a loss in front of it, before it is handed anything.
Count(c) ==
  /\ call[c].open /\ call[c].got = <<>>
  /\ \E samples \in told[c].samples .. Clear(c).samples, losses \in told[c].losses .. Clear(c).losses :
       LET n == (samples - told[c].samples) + (losses - told[c].losses) IN
       /\ n > 0
       /\ told' = [told EXCEPT ![c] = [samples |-> samples, losses |-> losses]]
       /\ hole' = [hole EXCEPT ![c].size = @ + n]
       /\ call' = [call EXCEPT ![c].dropped = @ + n]
  /\ UNCHANGED <<streamVars, next>>

Hand(c) ==
  /\ call[c].open /\ next[c] <= Published /\ told[c] = Clear(c) /\ call[c].due > 0
  /\ next' = [next EXCEPT ![c] = @ + 1]
  /\ told' = [told EXCEPT ![c].samples = @ + 1]
  /\ hole' = [hole EXCEPT ![c] = NoHole]
  /\ call' = [call EXCEPT ![c] = [call[c] EXCEPT !.got = Append(@, next[c]), !.due = @ - 1,
                !.front = IF call[c].got = <<>> THEN hole[c] ELSE @]]
  /\ UNCHANGED streamVars

\* A call ends at a loss after what it handed, or when nothing it was due is left;
\* with nothing handed it has also told c of the loss at the end, unless more
\* came meanwhile, and reports the hole that stays open.
Return(c) ==
  /\ call[c].open
  /\ IF call[c].got = <<>> THEN call[c].due = 0 /\ (call[c].news \/ told[c] = Clear(c))
                           ELSE call[c].due = 0 \/ told[c] # Clear(c)
  /\ call' = [call EXCEPT ![c] = [call[c] EXCEPT !.open = FALSE, !.due = 0, !.news = FALSE,
                !.front = IF call[c].got = <<>> THEN hole[c] ELSE @]]
  /\ UNCHANGED <<streamVars, next, told, hole>>

\* DiscardBacklog and CreateConsumer: from here on, with nothing behind.
Discard(c) ==
  /\ ~call[c].open
  /\ next' = [next EXCEPT ![c] = Published + 1]
  /\ told' = [told EXCEPT ![c] = Here]
  /\ hole' = [hole EXCEPT ![c] = NoHole]
  /\ UNCHANGED <<streamVars, call>>

Next ==
  \/ Publish \/ Boundary \/ Lose
  \/ \E c \in Consumers : Call(c) \/ Count(c) \/ Hand(c) \/ Return(c) \/ Discard(c)

Spec == Init /\ [][Next]_vars
=============================================================================
