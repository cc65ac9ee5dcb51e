------------------------------ MODULE PoseRing ------------------------------
(***************************************************************************)
(* The data path of the shared-memory pose ring (common/PoseRing*.h):      *)
(* vrserver's pose threads (Producers) publish raw poses, the overlay's    *)
(* drain thread (the reader) delivers them in queue order and reports      *)
(* every loss at its exact position.  A full ring is made room in by       *)
(* discarding its oldest completed slot; a publish that cannot claim or    *)
(* cannot discard is counted in `pending' for the next slot to carry.      *)
(*                                                                         *)
(* Every step is one access to the shared mapping.  Accesses are taken as  *)
(* sequentially consistent: the ring is built for x64 only, where the      *)
(* acquire/release pairs of the code cost nothing and every CAS is a full  *)
(* fence.  Queue positions are naturals, not 64-bit words: a session would *)
(* have to publish 2^63 samples for the wrapping comparison of             *)
(* PoseRingCounters.h to differ from theirs.                               *)
(* A sample is identified with the position (ticket) it was claimed at.    *)
(*                                                                         *)
(* NewSession stands for a writer process that died and was replaced: the  *)
(* reset gate that keeps it apart from an active drain is the subject of   *)
(* PoseRingSession; here it is the guard rpc = "idle".                     *)
(***************************************************************************)
EXTENDS Integers, Sequences

CONSTANTS
  Producers,      \* pose threads of the writer process
  Capacity,       \* slots of the ring; 4096 in the code
  MaxPublishes,   \* bound: publish attempts started, over all sessions
  MaxSessions,    \* bound: writer sessions
  MaxLeaks        \* bound: overlay processes that die inside a drain

ASSUME CapacityAssumption == Capacity \in Nat /\ Capacity >= 2
ASSUME BoundsAssumption ==
  MaxPublishes \in Nat /\ MaxSessions \in Nat /\ MaxLeaks \in Nat

Slots == 0 .. Capacity - 1
SlotOf(pos) == pos % Capacity
Torn == -1   \* payload of a slot a producer is copying into

VARIABLES
  \* The mapping (struct PoseRing).
  seq,            \* slots[i].seq
  fdb,            \* slots[i].failedDropsBefore
  payload,        \* slots[i].sample: the ticket it was written for, or Torn
  enq, deq,       \* enqueuePos, dequeuePos
  discardSeq,     \* discardSequence
  discardedLoss,  \* discardedLossCount
  claimLock,
  pending,        \* pendingFailedDrops: generation and count
  epoch,          \* sessionEpoch
  leaked,         \* activeReaders counts left behind by dead overlays
  \* One publish call per producer (PublishImpl, TryDiscardOldest).
  ppc, tick, pfail, dpos,
  \* The drain call in progress (DrainImpl) and the reader's memory between
  \* calls (observedSessionEpoch, observedDiscardedLossCount).
  rpc, rpos, rseq, rlost, rcopy, rfail, rword, obsEpoch, obsLoss,
  \* History: what this session's callers saw.
  started,        \* publish attempts
  failed,         \* publish attempts that returned false
  lastFailAt,     \* enq when the latest failed publish was recorded
  harvestLog,     \* harvestLog[t+1]: failures carried by tickets up to t
  delivered,      \* samples handed to fn
  lossReported,   \* total handed to gapFn
  termTaken       \* part of lossReported taken from an empty queue

ringVars == <<seq, fdb, payload, enq, deq, discardSeq, discardedLoss, claimLock, pending, epoch,
              leaked>>
prodVars == <<ppc, tick, pfail, dpos>>
readVars == <<rpc, rpos, rseq, rlost, rcopy, rfail, rword, obsEpoch, obsLoss>>
histVars == <<started, failed, lastFailAt, harvestLog, delivered, lossReported, termTaken>>
vars == <<ringVars, prodVars, readVars, histVars>>

NoDrops == [gen |-> 0, count |-> 0]

\* PendingDropsAfterHarvest: the next generation and no count.
AfterHarvestNoGeneration(word) == [gen |-> word.gen, count |-> 0]
AfterHarvest(word) == [gen |-> word.gen + 1, count |-> 0]

FreshRing ==
  /\ seq = [i \in Slots |-> i]
  /\ fdb = [i \in Slots |-> 0]
  /\ payload = [i \in Slots |-> Torn]
  /\ enq = 0 /\ deq = 0
  /\ discardSeq = 0 /\ discardedLoss = 0
  /\ claimLock = 0
  /\ pending = NoDrops

FreshHistory ==
  /\ started = 0 /\ failed = 0 /\ lastFailAt = 0
  /\ harvestLog = <<>>
  /\ delivered = 0 /\ lossReported = 0 /\ termTaken = 0

\* The reader opened the mapping while its first session was idle (OpenImpl).
Init ==
  /\ FreshRing
  /\ FreshHistory
  /\ epoch = 1 /\ leaked = 0
  /\ ppc = [p \in Producers |-> "idle"]
  /\ tick = [p \in Producers |-> 0]
  /\ pfail = [p \in Producers |-> 0]
  /\ dpos = [p \in Producers |-> 0]
  /\ rpc = "idle" /\ rpos = 0 /\ rseq = 0 /\ rlost = 0
  /\ rcopy = Torn /\ rfail = 0 /\ rword = NoDrops
  /\ obsEpoch = 1 /\ obsLoss = 0

-----------------------------------------------------------------------------
(* Producer: PublishImpl.                                                  *)

Goto(p, from, to) ==
  /\ ppc[p] = from
  /\ ppc' = [ppc EXCEPT ![p] = to]

\* RecordFailedPublish, and what the caller learns.
RecordFailedPublish ==
  /\ pending' = [gen |-> pending.gen, count |-> pending.count + 1]
  /\ failed' = failed + 1
  /\ lastFailAt' = enq
  /\ UNCHANGED <<started, harvestLog, delivered, lossReported, termTaken>>

\* TryAcquireClaimLock succeeds.
AcquireClaimLock(p) ==
  /\ started < MaxPublishes
  /\ claimLock = 0
  /\ Goto(p, "idle", "locked")
  /\ claimLock' = 1
  /\ started' = started + 1
  /\ UNCHANGED <<seq, fdb, payload, enq, deq, discardSeq, discardedLoss, pending, epoch, leaked,
                 tick, pfail, dpos, readVars, failed, lastFailAt, harvestLog, delivered,
                 lossReported, termTaken>>

\* TryAcquireClaimLock runs out of attempts: the last of them found it held.
ClaimContended(p) ==
  /\ started < MaxPublishes
  /\ claimLock = 1
  /\ Goto(p, "idle", "contended")
  /\ started' = started + 1
  /\ UNCHANGED <<ringVars, tick, pfail, dpos, readVars, failed, lastFailAt, harvestLog,
                 delivered, lossReported, termTaken>>

RecordContended(p) ==
  /\ Goto(p, "contended", "idle")
  /\ RecordFailedPublish
  /\ UNCHANGED <<seq, fdb, payload, enq, deq, discardSeq, discardedLoss, claimLock, epoch, leaked,
                 tick, pfail, dpos, readVars>>

\* The slot at the tail: free, or still of the previous lap (a full queue).
\* Only the holder of claimLock moves enq, so its two loads are one step.
TailFreeUnchecked(p) ==
  /\ Goto(p, "locked", "harvest")
  /\ UNCHANGED <<ringVars, tick, pfail, dpos, readVars, histVars>>

TailFree(p) ==
  /\ seq[SlotOf(enq)] = enq
  /\ Goto(p, "locked", "harvest")
  /\ UNCHANGED <<ringVars, tick, pfail, dpos, readVars, histVars>>

TailFull(p) ==
  /\ seq[SlotOf(enq)] < enq
  /\ Goto(p, "locked", "oldest")
  /\ UNCHANGED <<ringVars, tick, pfail, dpos, readVars, histVars>>

\* HarvestPendingDrops: its CAS loop succeeds at one instant.
HarvestPendingDrops(p) ==
  /\ Goto(p, "harvest", "advance")
  /\ pfail' = [pfail EXCEPT ![p] = pending.count]
  /\ pending' = AfterHarvest(pending)
  /\ UNCHANGED <<seq, fdb, payload, enq, deq, discardSeq, discardedLoss, claimLock, epoch, leaked,
                 tick, dpos, readVars, histVars>>

HarvestedSoFar == IF harvestLog = <<>> THEN 0 ELSE harvestLog[Len(harvestLog)]

AdvanceTail(p) ==
  /\ Goto(p, "advance", "release")
  /\ enq' = enq + 1
  /\ tick' = [tick EXCEPT ![p] = enq]
  /\ harvestLog' = Append(harvestLog, HarvestedSoFar + pfail[p])
  /\ UNCHANGED <<seq, fdb, payload, deq, discardSeq, discardedLoss, claimLock, pending, epoch, leaked,
                 pfail, dpos, readVars, started, failed, lastFailAt, delivered,
                 lossReported, termTaken>>

\* ReleaseClaimLock, then the copy into the owned slot begins.
ReleaseAndCopy(p) ==
  /\ Goto(p, "release", "copy")
  /\ claimLock' = 0
  /\ fdb' = [fdb EXCEPT ![SlotOf(tick[p])] = pfail[p]]
  /\ payload' = [payload EXCEPT ![SlotOf(tick[p])] = Torn]
  /\ UNCHANGED <<seq, enq, deq, discardSeq, discardedLoss, pending, epoch, leaked,
                 tick, pfail, dpos, readVars, histVars>>

\* The copy is complete and the slot's sequence publishes it.
PublishSlot(p) ==
  /\ Goto(p, "copy", "idle")
  /\ payload' = [payload EXCEPT ![SlotOf(tick[p])] = tick[p]]
  /\ seq' = [seq EXCEPT ![SlotOf(tick[p])] = tick[p] + 1]
  /\ tick' = [tick EXCEPT ![p] = 0]
  /\ pfail' = [pfail EXCEPT ![p] = 0]
  /\ UNCHANGED <<fdb, enq, deq, discardSeq, discardedLoss, claimLock, pending, epoch, leaked,
                 dpos, readVars, histVars>>

-----------------------------------------------------------------------------
(* Producer: TryDiscardOldest, under claimLock.                            *)

LoadOldest(p) ==
  /\ Goto(p, "oldest", "inspect")
  /\ dpos' = [dpos EXCEPT ![p] = deq]
  /\ UNCHANGED <<ringVars, tick, pfail, readVars, histVars>>

\* The oldest producer is still in flight: fail fast.
OldestInFlight(p) ==
  /\ seq[SlotOf(dpos[p])] < dpos[p] + 1
  /\ Goto(p, "inspect", "full")
  /\ UNCHANGED <<ringVars, tick, pfail, dpos, readVars, histVars>>

\* The reader took it and the slot moved on: look again.
OldestGone(p) ==
  /\ seq[SlotOf(dpos[p])] > dpos[p] + 1
  /\ ppc[p] = "inspect"
  /\ dpos' = [dpos EXCEPT ![p] = deq]
  /\ UNCHANGED <<ringVars, ppc, tick, pfail, readVars, histVars>>

OldestReady(p) ==
  /\ seq[SlotOf(dpos[p])] = dpos[p] + 1
  /\ Goto(p, "inspect", "open")
  /\ UNCHANGED <<ringVars, tick, pfail, dpos, readVars, histVars>>

OpenDiscard(p) ==
  /\ Goto(p, "open", "discard")
  /\ discardSeq' = discardSeq + 1
  /\ UNCHANGED <<seq, fdb, payload, enq, deq, discardedLoss, claimLock, pending, epoch, leaked,
                 tick, pfail, dpos, readVars, histVars>>

DiscardHead(p) ==
  /\ deq = dpos[p]
  /\ Goto(p, "discard", "count")
  /\ deq' = deq + 1
  /\ UNCHANGED <<seq, fdb, payload, enq, discardSeq, discardedLoss, claimLock, pending, epoch, leaked,
                 tick, pfail, dpos, readVars, histVars>>

\* The CAS lost to the reader and loaded the current head.
DiscardLost(p) ==
  /\ deq # dpos[p]
  /\ Goto(p, "discard", "reopen")
  /\ dpos' = [dpos EXCEPT ![p] = deq]
  /\ UNCHANGED <<ringVars, tick, pfail, readVars, histVars>>

CountDiscard(p) ==
  /\ Goto(p, "count", "free")
  /\ discardedLoss' = discardedLoss + 1 + fdb[SlotOf(dpos[p])]
  /\ UNCHANGED <<seq, fdb, payload, enq, deq, discardSeq, claimLock, pending, epoch, leaked,
                 tick, pfail, dpos, readVars, histVars>>

FreeDiscarded(p) ==
  /\ Goto(p, "free", "close")
  /\ seq' = [seq EXCEPT ![SlotOf(dpos[p])] = dpos[p] + Capacity]
  /\ UNCHANGED <<fdb, payload, enq, deq, discardSeq, discardedLoss, claimLock, pending, epoch, leaked,
                 tick, pfail, dpos, readVars, histVars>>

\* Even again: after a discard the claim looks at the tail again, after a
\* lost CAS the discard looks at the new head.
CloseDiscard(p) ==
  /\ \/ Goto(p, "close", "locked") /\ dpos' = [dpos EXCEPT ![p] = 0]
     \/ Goto(p, "reopen", "inspect") /\ UNCHANGED dpos
  /\ discardSeq' = discardSeq + 1
  /\ UNCHANGED <<seq, fdb, payload, enq, deq, discardedLoss, claimLock, pending, epoch, leaked,
                 tick, pfail, readVars, histVars>>

RecordFull(p) ==
  /\ Goto(p, "full", "giveup")
  /\ RecordFailedPublish
  /\ UNCHANGED <<seq, fdb, payload, enq, deq, discardSeq, discardedLoss, claimLock, epoch, leaked,
                 tick, pfail, dpos, readVars>>

ReleaseAfterFullHeld(p) ==
  /\ Goto(p, "giveup", "idle")
  /\ dpos' = [dpos EXCEPT ![p] = 0]
  /\ UNCHANGED <<ringVars, tick, pfail, readVars, histVars>>

ReleaseAfterFull(p) ==
  /\ Goto(p, "giveup", "idle")
  /\ claimLock' = 0
  /\ dpos' = [dpos EXCEPT ![p] = 0]
  /\ UNCHANGED <<seq, fdb, payload, enq, deq, discardSeq, discardedLoss, pending, epoch, leaked,
                 tick, pfail, readVars, histVars>>

-----------------------------------------------------------------------------
(* Reader: DrainImpl, with TrySnapshotDiscardState and                     *)
(* EmitTerminalGapIfEmpty.                                                 *)

RGoto(from, to) == rpc = from /\ rpc' = to

\* gapFn(n).
ReportLoss(n) ==
  /\ lossReported' = lossReported + n
  /\ UNCHANGED <<started, failed, lastFailAt, harvestLog, delivered, termTaken>>

BeginDrain ==
  /\ RGoto("idle", "snap")
  /\ UNCHANGED <<ringVars, prodVars, rpos, rseq, rlost, rcopy, rfail, rword, obsEpoch, obsLoss,
                 histVars>>

\* One attempt of TrySnapshotDiscardState: the sequence, both values, the
\* sequence again.
SnapBegin ==
  /\ discardSeq % 2 = 0
  /\ RGoto("snap", "snapDeq")
  /\ rseq' = discardSeq
  /\ UNCHANGED <<ringVars, prodVars, rpos, rlost, rcopy, rfail, rword, obsEpoch, obsLoss, histVars>>

SnapDequeue ==
  /\ RGoto("snapDeq", "snapLoss")
  /\ rpos' = deq
  /\ UNCHANGED <<ringVars, prodVars, rseq, rlost, rcopy, rfail, rword, obsEpoch, obsLoss, histVars>>

SnapLoss ==
  /\ RGoto("snapLoss", "snapAfter")
  /\ rlost' = discardedLoss
  /\ UNCHANGED <<ringVars, prodVars, rpos, rseq, rcopy, rfail, rword, obsEpoch, obsLoss, histVars>>

\* A discard is open, or one ran between the two loads of the sequence: try
\* again, or (the 64 attempts are spent) end the drain.
SnapMiss ==
  /\ \/ rpc = "snap" /\ discardSeq % 2 = 1
     \/ rpc = "snapAfter" /\ discardSeq # rseq
  /\ rpc' \in {"snap", "idle"}
  /\ UNCHANGED <<ringVars, prodVars, rpos, rseq, rlost, rcopy, rfail, rword, obsEpoch, obsLoss,
                 histVars>>

SnapBaselineKeepsCount ==
  /\ discardSeq = rseq /\ obsEpoch # epoch
  /\ RGoto("snapAfter", "snap")
  /\ obsEpoch' = epoch
  /\ ReportLoss(rlost)
  /\ UNCHANGED <<ringVars, prodVars, rpos, rseq, rlost, rcopy, rfail, rword, obsLoss>>

\* The first drain of a session takes its losses so far as the baseline: the
\* caller's session boundary stands for them (PoseStreamHub::DrainRing).
SnapBaseline ==
  /\ discardSeq = rseq /\ obsEpoch # epoch
  /\ RGoto("snapAfter", "snap")
  /\ obsEpoch' = epoch
  /\ obsLoss' = rlost
  /\ ReportLoss(rlost)
  /\ UNCHANGED <<ringVars, prodVars, rpos, rseq, rlost, rcopy, rfail, rword>>

\* Losses since the last snapshot are reported before the head is read.
SnapAcceptAnySequence ==
  /\ obsEpoch = epoch
  /\ RGoto("snapAfter", "head")
  /\ obsLoss' = rlost
  /\ ReportLoss(rlost - obsLoss)
  /\ UNCHANGED <<ringVars, prodVars, rpos, rseq, rlost, rcopy, rfail, rword, obsEpoch>>

SnapAccept ==
  /\ discardSeq = rseq /\ obsEpoch = epoch
  /\ RGoto("snapAfter", "head")
  /\ obsLoss' = rlost
  /\ ReportLoss(rlost - obsLoss)
  /\ UNCHANGED <<ringVars, prodVars, rpos, rseq, rlost, rcopy, rfail, rword, obsEpoch>>

\* The head: not published yet, already discarded, or ready.
InspectHead ==
  /\ \/ seq[SlotOf(rpos)] < rpos + 1 /\ RGoto("head", "empty")
     \/ seq[SlotOf(rpos)] > rpos + 1 /\ RGoto("head", "snap")
     \/ seq[SlotOf(rpos)] = rpos + 1 /\ RGoto("head", "take")
  /\ UNCHANGED <<ringVars, prodVars, rpos, rseq, rlost, rcopy, rfail, rword, obsEpoch, obsLoss,
                 histVars>>

\* The CAS on dequeuePos; a producer that discards competes for it.
TakeHeadUnchecked ==
  /\ RGoto("take", "copy")
  /\ deq' = rpos + 1
  /\ UNCHANGED <<seq, fdb, payload, enq, discardSeq, discardedLoss, claimLock, pending, epoch, leaked,
                 prodVars, rpos, rseq, rlost, rcopy, rfail, rword, obsEpoch, obsLoss, histVars>>

TakeHead ==
  /\ deq = rpos
  /\ RGoto("take", "copy")
  /\ deq' = rpos + 1
  /\ UNCHANGED <<seq, fdb, payload, enq, discardSeq, discardedLoss, claimLock, pending, epoch, leaked,
                 prodVars, rpos, rseq, rlost, rcopy, rfail, rword, obsEpoch, obsLoss, histVars>>

TakeLost ==
  /\ deq # rpos
  /\ RGoto("take", "snap")
  /\ UNCHANGED <<ringVars, prodVars, rpos, rseq, rlost, rcopy, rfail, rword, obsEpoch, obsLoss,
                 histVars>>

CopyHead ==
  /\ RGoto("copy", "release")
  /\ rcopy' = payload[SlotOf(rpos)]
  /\ rfail' = fdb[SlotOf(rpos)]
  /\ UNCHANGED <<ringVars, prodVars, rpos, rseq, rlost, rword, obsEpoch, obsLoss, histVars>>

\* The slot is freed for the next lap; gapFn, then fn.
Deliver ==
  /\ RGoto("release", "snap")
  /\ seq' = [seq EXCEPT ![SlotOf(rpos)] = rpos + Capacity]
  /\ lossReported' = lossReported + rfail
  /\ delivered' = delivered + 1
  /\ UNCHANGED <<fdb, payload, enq, deq, discardSeq, discardedLoss, claimLock, pending, epoch, leaked,
                 prodVars, rpos, rseq, rlost, rcopy, rfail, rword, obsEpoch, obsLoss,
                 started, failed, lastFailAt, harvestLog, termTaken>>

\* EmitTerminalGapIfEmpty: emptyAt, enqueuePos, the word, both positions
\* again (deq <= enq, so the two loads agree at one instant), the CAS.
LoadEmptyAt ==
  /\ RGoto("empty", "emptyEnq")
  /\ rpos' = deq
  /\ UNCHANGED <<ringVars, prodVars, rseq, rlost, rcopy, rfail, rword, obsEpoch, obsLoss, histVars>>

CheckEmpty ==
  /\ \/ enq = rpos /\ RGoto("emptyEnq", "word")
     \/ enq # rpos /\ RGoto("emptyEnq", "idle")
  /\ UNCHANGED <<ringVars, prodVars, rpos, rseq, rlost, rcopy, rfail, rword, obsEpoch, obsLoss,
                 histVars>>

LoadPending ==
  /\ \/ pending.count > 0 /\ RGoto("word", "recheck")
     \/ pending.count = 0 /\ RGoto("word", "idle")
  /\ rword' = pending
  /\ UNCHANGED <<ringVars, prodVars, rpos, rseq, rlost, rcopy, rfail, obsEpoch, obsLoss, histVars>>

RecheckEmpty ==
  /\ \/ deq = rpos /\ enq = rpos /\ RGoto("recheck", "termCas")
     \/ (deq # rpos \/ enq # rpos) /\ RGoto("recheck", "idle")
  /\ UNCHANGED <<ringVars, prodVars, rpos, rseq, rlost, rcopy, rfail, rword, obsEpoch, obsLoss,
                 histVars>>

TakeTerminalGapUnreported ==
  /\ pending = rword
  /\ RGoto("termCas", "idle")
  /\ pending' = AfterHarvest(pending)
  /\ UNCHANGED <<seq, fdb, payload, enq, deq, discardSeq, discardedLoss, claimLock, epoch, leaked,
                 prodVars, rpos, rseq, rlost, rcopy, rfail, rword, obsEpoch, obsLoss, histVars>>

TakeTerminalGap ==
  /\ pending = rword
  /\ RGoto("termCas", "idle")
  /\ pending' = AfterHarvest(pending)
  /\ lossReported' = lossReported + rword.count
  /\ termTaken' = termTaken + rword.count
  /\ UNCHANGED <<seq, fdb, payload, enq, deq, discardSeq, discardedLoss, claimLock, epoch, leaked,
                 prodVars, rpos, rseq, rlost, rcopy, rfail, rword, obsEpoch, obsLoss,
                 started, failed, lastFailAt, harvestLog, delivered>>

TerminalGapLost ==
  /\ pending # rword
  /\ RGoto("termCas", "idle")
  /\ UNCHANGED <<ringVars, prodVars, rpos, rseq, rlost, rcopy, rfail, rword, obsEpoch, obsLoss,
                 histVars>>

-----------------------------------------------------------------------------
\* The writer process died at any point of its publishes and its successor
\* reset the retained mapping (ResetForNewWriterSession), which it does only
\* when no reader is counted.  Slot payloads and markers stay as they were.
NewSession ==
  /\ epoch < MaxSessions
  /\ rpc = "idle" /\ leaked = 0
  /\ epoch' = epoch + 1
  /\ seq' = [i \in Slots |-> i]
  /\ enq' = 0 /\ deq' = 0
  /\ discardSeq' = 0 /\ discardedLoss' = 0
  /\ claimLock' = 0
  /\ pending' = NoDrops
  /\ ppc' = [p \in Producers |-> "idle"]
  /\ tick' = [p \in Producers |-> 0]
  /\ pfail' = [p \in Producers |-> 0]
  /\ dpos' = [p \in Producers |-> 0]
  /\ failed' = 0 /\ lastFailAt' = 0
  /\ harvestLog' = <<>>
  /\ delivered' = 0 /\ lossReported' = 0 /\ termTaken' = 0
  /\ UNCHANGED <<fdb, payload, leaked, readVars, started>>

\* The overlay dies inside a drain and a new one opens the ring (OpenImpl: a
\* coherent snapshot, taken between discards).  The dead one's count and the
\* slot it may have owned are never given back.
ReaderCrash ==
  /\ leaked < MaxLeaks
  /\ rpc # "idle"
  /\ discardSeq % 2 = 0
  /\ rpc' = "idle"
  /\ leaked' = leaked + 1
  /\ obsEpoch' = epoch
  /\ obsLoss' = discardedLoss
  /\ UNCHANGED <<seq, fdb, payload, enq, deq, discardSeq, discardedLoss, claimLock, pending, epoch,
                 prodVars, rpos, rseq, rlost, rcopy, rfail, rword, histVars>>

\* A publish call starts, or goes on until it returns.
StartPublish(p) == AcquireClaimLock(p) \/ ClaimContended(p)

ClaimStep(p) ==
  TailFree(p) \/ TailFull(p) \/ HarvestPendingDrops(p) \/ AdvanceTail(p)
  \/ ReleaseAndCopy(p) \/ PublishSlot(p)

DiscardStep(p) ==
  LoadOldest(p) \/ OldestInFlight(p) \/ OldestGone(p) \/ OldestReady(p) \/ OpenDiscard(p)
  \/ DiscardHead(p) \/ DiscardLost(p) \/ CountDiscard(p) \/ FreeDiscarded(p) \/ CloseDiscard(p)

FailStep(p) == RecordContended(p) \/ RecordFull(p) \/ ReleaseAfterFull(p)

PublishStep(p) == ClaimStep(p) \/ DiscardStep(p) \/ FailStep(p)

SnapshotStep == SnapBegin \/ SnapDequeue \/ SnapLoss \/ SnapMiss \/ SnapBaseline \/ SnapAccept

TakeStep == InspectHead \/ TakeHead \/ TakeLost \/ CopyHead \/ Deliver

TerminalStep ==
  LoadEmptyAt \/ CheckEmpty \/ LoadPending \/ RecheckEmpty \/ TakeTerminalGap \/ TerminalGapLost

ReadStep == BeginDrain \/ SnapshotStep \/ TakeStep \/ TerminalStep

Next ==
  \/ \E p \in Producers : StartPublish(p) \/ PublishStep(p)
  \/ ReadStep
  \/ NewSession
  \/ ReaderCrash

Spec == Init /\ [][Next]_vars

\* The operating system schedules every running thread; nobody is obliged to
\* start another publish, and the overlay's drain thread polls for ever.
Fairness ==
  /\ \A p \in Producers : WF_vars(PublishStep(p))
  /\ WF_vars(ReadStep)

FairSpec == Spec /\ Fairness

-----------------------------------------------------------------------------
(* Properties.                                                             *)

ProducerStates ==
  {"idle", "contended", "locked", "harvest", "advance", "release", "copy", "oldest", "inspect",
   "open", "discard", "count", "free", "close", "reopen", "full", "giveup"}

ReaderStates ==
  {"idle", "snap", "snapDeq", "snapLoss", "snapAfter", "head", "take", "copy", "release",
   "empty", "emptyEnq", "word", "recheck", "termCas"}

DropWords == [gen : Nat, count : Nat]

RingTypeOK ==
  /\ seq \in [Slots -> Nat] /\ fdb \in [Slots -> Nat] /\ payload \in [Slots -> Int]
  /\ enq \in Nat /\ deq \in Nat /\ discardSeq \in Nat /\ discardedLoss \in Nat
  /\ claimLock \in {0, 1} /\ pending \in DropWords /\ epoch \in Nat /\ leaked \in Nat

ProducerTypeOK ==
  /\ ppc \in [Producers -> ProducerStates]
  /\ tick \in [Producers -> Nat] /\ pfail \in [Producers -> Nat] /\ dpos \in [Producers -> Nat]

ReaderTypeOK ==
  /\ rpc \in ReaderStates
  /\ rpos \in Nat /\ rseq \in Nat /\ rlost \in Nat /\ rcopy \in Int
  /\ rfail \in Nat /\ rword \in DropWords /\ obsEpoch \in Nat /\ obsLoss \in Nat

HistoryTypeOK ==
  /\ started \in Nat /\ failed \in Nat /\ lastFailAt \in Nat /\ harvestLog \in Seq(Nat)
  /\ delivered \in Nat /\ termTaken \in Nat /\ lossReported \in Int

\* Every variable has its type.
TypeOK == RingTypeOK /\ ProducerTypeOK /\ ReaderTypeOK /\ HistoryTypeOK

\* Slot contents are plain memory: while a producer copies into its slot, no
\* other producer writes it, the reader does not copy out of it, and no
\* discard reads its marker ("That ownership is what makes the ordinary
\* DevicePoseSample copy race-free", PoseRing.h).
NoSlotRace ==
  \A p \in Producers : ppc[p] = "copy" =>
    /\ rpc = "copy" => SlotOf(rpos) # SlotOf(tick[p])
    /\ \A q \in Producers \ {p} :
         /\ ppc[q] = "copy" => SlotOf(tick[q]) # SlotOf(tick[p])
         /\ ppc[q] = "count" => SlotOf(dpos[q]) # SlotOf(tick[p])

\* What the reader hands to its caller is, whole, the sample that was claimed
\* at the position it took: never a torn slot, a previous or a next lap.
DeliveredIntact == rpc = "release" => rcopy = rpos

\* The queued samples and the failures their markers carry.
QueuedLosses ==
  LET upTo[t \in deq .. enq] ==
        IF t = deq THEN 0 ELSE upTo[t - 1] + 1 + fdb[SlotOf(t - 1)]
  IN upTo[enq]

\* A queue with every call idle has counted everything: a publish attempt is
\* a delivered sample, a reported loss, or still in the ring as a live slot,
\* its marker, a pending marker or an unread discard.
NothingUncounted ==
  (leaked = 0 /\ rpc = "idle" /\ obsEpoch = epoch /\ \A p \in Producers : ppc[p] = "idle") =>
    enq + failed =
      delivered + lossReported + (discardedLoss - obsLoss) + pending.count
      + QueuedLosses

\* When a sample is delivered, exactly the samples claimed before it and the
\* failures carried by tickets up to its own have been delivered or reported:
\* each loss is reported before the first surviving sample after it and
\* after the last one before it (PoseRingReader::Drain).  Losses taken from
\* an empty queue are placed by TerminalGapInPlace.
GapBeforeSample ==
  [][leaked = 0 /\ delivered' = delivered + 1 =>
       lossReported' - termTaken' = rpos - delivered + harvestLog[rpos + 1]]_vars

\* A gap reported for an empty queue never counts a failure that happened
\* after a later sample was claimed: that sample is not delivered yet, and
\* its consumer would see the loss on the wrong side of it.
TerminalGapInPlace == [][termTaken' > termTaken => lastFailAt <= rpos]_vars

\* A pose thread's publish always returns: contention, a full ring, an
\* in-flight head and a dead reader fail fast, and claimLock is given back.
PublishReturns ==
  /\ \A p \in Producers : []<>(ppc[p] = "idle")
  /\ []<>(claimLock = 0)

\* While the overlay lives, once publishing pauses every attempt of the
\* session has been delivered or reported as lost, even a failure that no
\* later publish came to carry.
EventuallyAllAccounted == <>[](leaked = 0 => delivered + lossReported = enq + failed)

-----------------------------------------------------------------------------
(* The inductive invariant behind NoSlotRace and DeliveredIntact, proved   *)
(* in PoseRingProof.                                                       *)

HoldsLock(p) ==
  ppc[p] \in {"locked", "harvest", "advance", "release", "oldest", "inspect", "open", "discard",
              "count", "free", "close", "reopen", "full", "giveup"}

\* p owns the slot of its ticket and has not published it.
InFlight(p) == ppc[p] \in {"release", "copy"}

\* The reader, or a discard, owns the slot of the position it took.
ReaderOwns == rpc \in {"copy", "release"}
DiscardOwns(p) == ppc[p] \in {"count", "free"}

\* One producer at a time is inside claimLock.
LockInv ==
  /\ \A p \in Producers : HoldsLock(p) => claimLock = 1
  /\ \A p, q \in Producers : HoldsLock(p) /\ HoldsLock(q) => p = q

WindowInv == deq <= enq /\ enq <= deq + Capacity

\* A slot is never ahead of the lap the tail will write next.
TailInv == \A t \in enq .. enq + Capacity - 1 : seq[SlotOf(t)] <= t

\* A queued position is in flight, or complete and whole.
LiveInv ==
  \A t \in deq .. enq - 1 :
    \/ seq[SlotOf(t)] = t
    \/ seq[SlotOf(t)] = t + 1 /\ payload[SlotOf(t)] = t

FlightInv ==
  /\ \A p \in Producers : InFlight(p) =>
       deq <= tick[p] /\ tick[p] < enq /\ seq[SlotOf(tick[p])] = tick[p]
  /\ \A p, q \in Producers : InFlight(p) /\ InFlight(q) /\ p # q => tick[p] # tick[q]

\* A position that was taken keeps its slot out of the tail's reach.
Taken(pos) ==
  /\ pos < deq /\ enq <= pos + Capacity
  /\ seq[SlotOf(pos)] = pos + 1 /\ payload[SlotOf(pos)] = pos

OwnerInv ==
  /\ ReaderOwns => Taken(rpos)
  /\ \A p \in Producers : DiscardOwns(p) => Taken(dpos[p])
  /\ \A p \in Producers : ReaderOwns /\ DiscardOwns(p) => rpos # dpos[p]

\* A position seen ready stays ready until somebody takes it.
Ready(pos) ==
  /\ pos <= deq
  /\ deq = pos => pos < enq /\ seq[SlotOf(pos)] = pos + 1

ReadyInv ==
  /\ rpc \in {"snapLoss", "snapAfter", "head"} => rpos <= deq
  /\ rpc = "take" => Ready(rpos)
  /\ \A p \in Producers : ppc[p] \in {"inspect", "reopen"} => dpos[p] <= deq
  /\ \A p \in Producers : ppc[p] \in {"open", "discard"} => Ready(dpos[p])

\* A tail slot found free stays free until the claim.
ClaimInv == \A p \in Producers : ppc[p] \in {"harvest", "advance"} => seq[SlotOf(enq)] = enq

\* The parts of the proof of NoSlotRace and DeliveredIntact, together.
OwnershipInv ==
  /\ LockInv /\ WindowInv /\ TailInv /\ LiveInv /\ FlightInv /\ OwnerInv /\ ReadyInv /\ ClaimInv
  /\ DeliveredIntact

-----------------------------------------------------------------------------
(* The inductive invariant behind NothingUncounted, GapBeforeSample and    *)
(* TerminalGapInPlace.  harvestLog is the running total of the markers, so *)
(* what lies between two positions is a difference of two of its entries.  *)

\* The failures carried by tickets below t, and by t alone.
CarriedBelow(t) == IF t = 0 THEN 0 ELSE harvestLog[t]
CarriedBy(t) == CarriedBelow(t + 1) - CarriedBelow(t)

Marked(t) == fdb[SlotOf(t)] = CarriedBy(t)

\* A claimed position is marked with what its ticket carries, or will be;
\* what was read off a slot is its mark.
MarkerInv ==
  /\ Len(harvestLog) = enq
  /\ \A t \in deq .. enq - 1 :
       (\A p \in Producers : ppc[p] = "release" => tick[p] # t) => Marked(t)
  /\ \A p \in Producers : ppc[p] = "release" => pfail[p] = CarriedBy(tick[p])
  /\ ReaderOwns => Marked(rpos)
  /\ rpc = "release" => rfail = CarriedBy(rpos)
  /\ \A p \in Producers : ppc[p] = "count" => Marked(dpos[p])

DiscardOpen(p) == ppc[p] \in {"discard", "count", "free", "close", "reopen"}

\* The discard sequence is odd while a discard is open.
ParityInv == discardSeq % 2 = 1 <=> \E p \in Producers : DiscardOpen(p)

\* What a snapshot has loaded is still so while no discard was opened since.
SnapInv ==
  /\ rpc \in {"snapDeq", "snapLoss", "snapAfter"} => rseq <= discardSeq /\ rseq % 2 = 0
  /\ rpc \in {"snapLoss", "snapAfter"} /\ discardSeq = rseq => rpos = deq
  /\ rpc = "snapAfter" /\ discardSeq = rseq => rlost = discardedLoss

Snapping == {"snap", "snapDeq", "snapLoss", "snapAfter"}

\* A head that nobody took since its snapshot has every loss before it
\* reported; a session's first drain has delivered nothing.
HeadInv ==
  /\ rpc \in {"head", "take"} /\ deq = rpos =>
       obsLoss = discardedLoss /\ \A p \in Producers : ppc[p] # "count"
  /\ rpc \notin Snapping \cup {"idle"} => obsEpoch = epoch
  /\ obsEpoch <= epoch
  /\ leaked = 0 /\ obsEpoch # epoch => delivered = 0 /\ lossReported = 0 /\ termTaken = 0

\* What became of the samples claimed and the failures carried below deq, but
\* for a discard that has still to count its own.
Settled ==
  delivered + lossReported - termTaken
    + (discardedLoss - IF obsEpoch = epoch THEN obsLoss ELSE 0)
    + (IF ReaderOwns THEN 1 + CarriedBy(rpos) ELSE 0)

BalanceInv ==
  leaked = 0 =>
    /\ (\A p \in Producers : ppc[p] # "count") => Settled = deq + CarriedBelow(deq)
    /\ \A p \in Producers : ppc[p] = "count" =>
         Settled + 1 + CarriedBy(dpos[p]) = deq + CarriedBelow(deq)

\* Everything before the position the reader took has been handed out.
PlacedInv ==
  leaked = 0 /\ ReaderOwns => delivered + lossReported - termTaken = rpos + CarriedBelow(rpos)

\* A failed publish is pending, harvested, carried or taken off an empty
\* queue.
FailedInv ==
  /\ (\A p \in Producers : ppc[p] # "advance") =>
       failed = CarriedBelow(enq) + pending.count + termTaken
  /\ \A p \in Producers : ppc[p] = "advance" =>
       failed = CarriedBelow(enq) + pfail[p] + pending.count + termTaken

\* The pending word only moves on: a word seen again has not changed since.
Passed(word) ==
  word.gen < pending.gen \/ (word.gen = pending.gen /\ word.count <= pending.count)

TerminalInv ==
  /\ lastFailAt <= enq
  /\ rpc \in {"recheck", "termCas"} => Passed(rword)
  /\ rpc = "termCas" /\ pending = rword => lastFailAt <= rpos

\* The parts of the proof of the accounting properties, together.
AccountInv ==
  /\ MarkerInv /\ ParityInv /\ SnapInv /\ HeadInv /\ BalanceInv /\ PlacedInv /\ FailedInv
  /\ TerminalInv

=============================================================================
