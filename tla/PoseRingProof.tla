--------------------------- MODULE PoseRingProof ---------------------------
(* Proofs about PoseRing, for every set of producers and every capacity.   *)
(* The lemmas on SlotOf say when two positions share a slot; TypeCorrect   *)
(* and Ownership are inductive; NoRace and Intact follow from Ownership.   *)
(* Accounted is inductive on top of both: GapsInPlace, TerminalInPlace and *)
(* Uncounted follow from it.                                               *)
EXTENDS PoseRing, WellFoundedInduction, TLAPS

-----------------------------------------------------------------------------
(* Slots of positions.                                                     *)

LEMMA SlotInRange == ASSUME NEW a \in Nat PROVE SlotOf(a) \in Slots
  BY CapacityAssumption DEF SlotOf, Slots

LEMMA DivisionByCapacity ==
  ASSUME NEW a \in Nat
  PROVE  /\ a \div Capacity \in Int /\ a % Capacity \in 0 .. Capacity - 1
         /\ a = Capacity * (a \div Capacity) + (a % Capacity)
  BY CapacityAssumption, SMT

\* Two positions less than a lap apart never share a slot.
LEMMA SlotDistinct ==
  ASSUME NEW a \in Nat, NEW b \in Nat, a < b, b < a + Capacity
  PROVE  SlotOf(a) # SlotOf(b)
<1> DEFINE x == a \div Capacity
           y == b \div Capacity
<1>1. SUFFICES ASSUME a % Capacity = b % Capacity PROVE FALSE  BY DEF SlotOf
<1>2. x \in Int /\ y \in Int /\ a % Capacity \in 0 .. Capacity - 1  BY DivisionByCapacity
<1>3. a = Capacity * x + (a % Capacity) /\ b = Capacity * y + (b % Capacity)
  BY DivisionByCapacity
<1> HIDE DEF x, y
<1>4. Capacity * x < Capacity * y /\ Capacity * y < Capacity * x + Capacity
  BY <1>1, <1>2, <1>3, CapacityAssumption
<1>5. CASE y <= x
  <2>1. Capacity * y <= Capacity * x  BY <1>2, <1>5, CapacityAssumption
  <2> QED  BY <2>1, <1>2, <1>4, CapacityAssumption
<1>6. CASE x < y
  <2>1. Capacity * (y - x) >= Capacity  BY <1>2, <1>6, CapacityAssumption
  <2> QED  BY <2>1, <1>2, <1>4, CapacityAssumption
<1> QED  BY <1>2, <1>5, <1>6

\* A position and its successor lap share a slot.
LEMMA SlotLap == ASSUME NEW a \in Nat PROVE SlotOf(a + Capacity) = SlotOf(a)
<1> DEFINE b == a + Capacity
           x == a \div Capacity
           y == b \div Capacity
<1>1. b \in Nat  BY CapacityAssumption
<1>2. /\ x \in Int /\ y \in Int
      /\ a % Capacity \in 0 .. Capacity - 1 /\ b % Capacity \in 0 .. Capacity - 1
  BY <1>1, DivisionByCapacity
<1>3. a = Capacity * x + (a % Capacity) /\ b = Capacity * y + (b % Capacity)
  BY <1>1, DivisionByCapacity
<1> HIDE DEF x, y
<1>4. Capacity * y = Capacity * x + Capacity + (a % Capacity) - (b % Capacity)
  BY <1>2, <1>3, CapacityAssumption
<1>5. CASE y <= x
  <2>1. Capacity * y <= Capacity * x  BY <1>2, <1>5, CapacityAssumption
  <2> QED  BY <2>1, <1>2, <1>4, CapacityAssumption
<1>6. CASE y >= x + 2
  <2>1. Capacity * (y - x) >= Capacity * 2  BY <1>2, <1>6, CapacityAssumption
  <2> QED  BY <2>1, <1>2, <1>4, CapacityAssumption
<1>7. CASE y = x + 1
  BY <1>2, <1>4, <1>7, CapacityAssumption DEF SlotOf
<1> QED  BY <1>2, <1>5, <1>6, <1>7

\* A slot of a fresh ring is never ahead of the first lap.
LEMMA SlotBelow == \A t \in Nat : SlotOf(t) <= t /\ SlotOf(t) \in Slots
<1>1. ASSUME NEW t \in Nat, t < Capacity PROVE SlotOf(t) <= t
  BY <1>1, CapacityAssumption DEF SlotOf
<1>2. ASSUME NEW t \in Nat, t >= Capacity PROVE SlotOf(t) <= t
  BY <1>2, SlotInRange, CapacityAssumption DEF Slots
<1> QED  BY <1>1, <1>2, SlotInRange, CapacityAssumption

-----------------------------------------------------------------------------
(* Type correctness.                                                       *)

LEMMA UpdateType ==
  ASSUME NEW S, NEW T, NEW f \in [S -> T], NEW i, NEW v \in T
  PROVE  [f EXCEPT ![i] = v] \in [S -> T]
  OBVIOUS

LEMMA TypeInit == Init => TypeOK
<1> USE CapacityAssumption DEF Init, FreshRing, FreshHistory, TypeOK, DropWords, NoDrops, Torn
<1>1. Init => RingTypeOK  BY DEF RingTypeOK, Slots
<1>2. Init => ProducerTypeOK  BY DEF ProducerTypeOK, ProducerStates
<1>3. Init => ReaderTypeOK  BY DEF ReaderTypeOK, ReaderStates
<1>4. Init => HistoryTypeOK  BY DEF HistoryTypeOK
<1> QED  BY <1>1, <1>2, <1>3, <1>4

LEMMA StartTypes ==
  ASSUME TypeOK, NEW p \in Producers, StartPublish(p)
  PROVE  TypeOK'
<1> USE DEF TypeOK, StartPublish, AcquireClaimLock, ClaimContended
<1>1. UNCHANGED <<readVars, tick, pfail, dpos>>  OBVIOUS
<1>2. ReaderTypeOK'  BY <1>1 DEF ReaderTypeOK, readVars
<1>3. ProducerTypeOK'  BY <1>1 DEF ProducerTypeOK, Goto, ProducerStates
<1>4. HistoryTypeOK'  BY DEF HistoryTypeOK
<1>5. RingTypeOK'  BY DEF RingTypeOK, ringVars
<1> QED  BY <1>2, <1>3, <1>4, <1>5

LEMMA FailTypes ==
  ASSUME TypeOK, NEW p \in Producers, FailStep(p)
  PROVE  TypeOK'
<1> USE DEF TypeOK, FailStep, RecordContended, RecordFull, ReleaseAfterFull, RecordFailedPublish
<1>1. UNCHANGED <<readVars, tick, pfail>>  OBVIOUS
<1>2. ReaderTypeOK'  BY <1>1 DEF ReaderTypeOK, readVars
<1>3. ProducerTypeOK'  BY <1>1 DEF ProducerTypeOK, Goto, ProducerStates
<1>4. HistoryTypeOK'  BY DEF HistoryTypeOK, RingTypeOK, histVars
<1>5. pending' \in DropWords  BY DEF RingTypeOK, DropWords
<1>6. RingTypeOK'  BY <1>5 DEF RingTypeOK
<1> QED  BY <1>2, <1>3, <1>4, <1>6

LEMMA ClaimTypes ==
  ASSUME TypeOK, NEW p \in Producers, ClaimStep(p)
  PROVE  TypeOK'
<1> USE DEF TypeOK
<1>1. ASSUME TailFree(p) \/ TailFull(p) PROVE TypeOK'
  <2> USE DEF TailFree, TailFull
  <2>1. UNCHANGED <<ringVars, tick, pfail, dpos, readVars, histVars>>  BY <1>1
  <2>2. ProducerTypeOK'  BY <1>1, <2>1 DEF ProducerTypeOK, Goto, ProducerStates
  <2> QED
    BY <2>1, <2>2 DEF RingTypeOK, ReaderTypeOK, HistoryTypeOK, ringVars, readVars, histVars
<1>2. ASSUME HarvestPendingDrops(p) PROVE TypeOK'
  <2> USE <1>2 DEF HarvestPendingDrops
  <2>1. ProducerTypeOK'  BY DEF ProducerTypeOK, RingTypeOK, DropWords, Goto, ProducerStates
  <2>2. pending' \in DropWords  BY DEF RingTypeOK, AfterHarvest, DropWords
  <2>3. RingTypeOK'  BY <2>2 DEF RingTypeOK
  <2> QED  BY <2>1, <2>3 DEF ReaderTypeOK, HistoryTypeOK, readVars, histVars
<1>3. ASSUME AdvanceTail(p) PROVE TypeOK'
  <2> USE <1>3 DEF AdvanceTail
  <2>1. ProducerTypeOK'  BY DEF ProducerTypeOK, RingTypeOK, Goto, ProducerStates
  <2>2. HarvestedSoFar + pfail[p] \in Nat  BY DEF HistoryTypeOK, ProducerTypeOK, HarvestedSoFar
  <2>3. harvestLog' \in Seq(Nat)  BY <2>2 DEF HistoryTypeOK
  <2>4. HistoryTypeOK'  BY <2>3 DEF HistoryTypeOK
  <2>5. RingTypeOK'  BY DEF RingTypeOK
  <2> QED  BY <2>1, <2>4, <2>5 DEF ReaderTypeOK, readVars
<1>4. ASSUME ReleaseAndCopy(p) PROVE TypeOK'
  <2> USE <1>4 DEF ReleaseAndCopy
  <2>1. ProducerTypeOK'  BY DEF ProducerTypeOK, Goto, ProducerStates
  <2>2. payload' \in [Slots -> Int]
    <3>1. payload \in [Slots -> Int] /\ Torn \in Int  BY DEF RingTypeOK, Torn
    <3>2. payload' = [payload EXCEPT ![SlotOf(tick[p])] = Torn]  OBVIOUS
    <3> QED  BY ONLY <3>1, <3>2, UpdateType
  <2>3. fdb' \in [Slots -> Nat]  BY DEF RingTypeOK, ProducerTypeOK
  <2>4. RingTypeOK'  BY <2>2, <2>3 DEF RingTypeOK
  <2> QED  BY <2>1, <2>4 DEF ReaderTypeOK, HistoryTypeOK, readVars, histVars
<1>5. ASSUME PublishSlot(p) PROVE TypeOK'
  <2> USE <1>5 DEF PublishSlot
  <2>1. ProducerTypeOK'  BY DEF ProducerTypeOK, Goto, ProducerStates
  <2>0. tick[p] \in Nat /\ tick[p] \in Int /\ tick[p] + 1 \in Nat  BY DEF ProducerTypeOK
  <2>2. payload' \in [Slots -> Int]
    <3>1. payload \in [Slots -> Int]  BY DEF RingTypeOK
    <3>2. payload' = [payload EXCEPT ![SlotOf(tick[p])] = tick[p]]  OBVIOUS
    <3> QED  BY ONLY <2>0, <3>1, <3>2, UpdateType
  <2>3. seq' \in [Slots -> Nat]
    <3>1. seq \in [Slots -> Nat]  BY DEF RingTypeOK
    <3>2. seq' = [seq EXCEPT ![SlotOf(tick[p])] = tick[p] + 1]  OBVIOUS
    <3> QED  BY ONLY <2>0, <3>1, <3>2, UpdateType
  <2>4. RingTypeOK'  BY <2>2, <2>3 DEF RingTypeOK
  <2> QED  BY <2>1, <2>4 DEF ReaderTypeOK, HistoryTypeOK, readVars, histVars
<1> QED  BY <1>1, <1>2, <1>3, <1>4, <1>5 DEF ClaimStep

LEMMA DiscardTypes ==
  ASSUME TypeOK, NEW p \in Producers, DiscardStep(p)
  PROVE  TypeOK'
<1> USE DEF TypeOK
<1>1. ASSUME LoadOldest(p) \/ OldestInFlight(p) \/ OldestGone(p) \/ OldestReady(p)
             \/ DiscardLost(p)
      PROVE  TypeOK'
  <2> USE DEF LoadOldest, OldestInFlight, OldestGone, OldestReady, DiscardLost
  <2>1. UNCHANGED <<ringVars, tick, pfail, readVars, histVars>>  BY <1>1
  <2>2. ProducerTypeOK'
    BY <1>1, <2>1 DEF ProducerTypeOK, RingTypeOK, Goto, ProducerStates
  <2> QED
    BY <2>1, <2>2 DEF RingTypeOK, ReaderTypeOK, HistoryTypeOK, ringVars, readVars, histVars
<1>2. ASSUME OpenDiscard(p) \/ DiscardHead(p) \/ CloseDiscard(p) PROVE TypeOK'
  <2> USE DEF OpenDiscard, DiscardHead, CloseDiscard
  <2>1. UNCHANGED <<tick, pfail, readVars, histVars>>  BY <1>2
  <2>2. ProducerTypeOK'  BY <1>2, <2>1 DEF ProducerTypeOK, Goto, ProducerStates
  <2>3. RingTypeOK'  BY <1>2 DEF RingTypeOK
  <2> QED  BY <2>1, <2>2, <2>3 DEF ReaderTypeOK, HistoryTypeOK, readVars, histVars
<1>3. ASSUME CountDiscard(p) PROVE TypeOK'
  <2> USE <1>3 DEF CountDiscard
  <2>1. ProducerTypeOK'  BY DEF ProducerTypeOK, Goto, ProducerStates
  <2>2. fdb[SlotOf(dpos[p])] \in Nat  BY SlotInRange DEF RingTypeOK, ProducerTypeOK
  <2>3. RingTypeOK'  BY <2>2 DEF RingTypeOK
  <2> QED  BY <2>1, <2>3 DEF ReaderTypeOK, HistoryTypeOK, readVars, histVars
<1>4. ASSUME FreeDiscarded(p) PROVE TypeOK'
  <2> USE <1>4 DEF FreeDiscarded
  <2>1. ProducerTypeOK'  BY DEF ProducerTypeOK, Goto, ProducerStates
  <2>2. seq' \in [Slots -> Nat]
    <3>1. seq \in [Slots -> Nat]  BY DEF RingTypeOK
    <3>2. dpos[p] + Capacity \in Nat  BY CapacityAssumption DEF ProducerTypeOK
    <3>3. seq' = [seq EXCEPT ![SlotOf(dpos[p])] = dpos[p] + Capacity]  OBVIOUS
    <3> QED  BY ONLY <3>1, <3>2, <3>3, UpdateType
  <2>3. RingTypeOK'  BY <2>2 DEF RingTypeOK
  <2> QED  BY <2>1, <2>3 DEF ReaderTypeOK, HistoryTypeOK, readVars, histVars
<1> QED  BY <1>1, <1>2, <1>3, <1>4 DEF DiscardStep

LEMMA SnapshotTypes ==
  ASSUME TypeOK, BeginDrain \/ SnapshotStep
  PROVE  TypeOK'
<1> USE DEF TypeOK, SnapshotStep, BeginDrain, SnapBegin, SnapDequeue, SnapLoss, SnapMiss,
            SnapBaseline, SnapAccept, ReportLoss
<1>1. UNCHANGED <<ringVars, prodVars>>  OBVIOUS
<1>2. RingTypeOK' /\ ProducerTypeOK'  BY <1>1 DEF RingTypeOK, ProducerTypeOK, ringVars, prodVars
<1>3. ReaderTypeOK'  BY DEF ReaderTypeOK, RingTypeOK, RGoto, ReaderStates
<1>4. UNCHANGED histVars \/ ReportLoss(rlost) \/ ReportLoss(rlost - obsLoss)  OBVIOUS
<1>5. HistoryTypeOK'
  BY ONLY TypeOK, <1>4 DEF TypeOK, HistoryTypeOK, ReaderTypeOK, ReportLoss, histVars
<1> QED  BY <1>2, <1>3, <1>5

LEMMA TakeTypes ==
  ASSUME TypeOK, TakeStep
  PROVE  TypeOK'
<1> USE DEF TypeOK
<1>1. ASSUME InspectHead \/ TakeLost \/ TakeHead \/ CopyHead PROVE TypeOK'
  <2> USE DEF InspectHead, TakeLost, TakeHead, CopyHead
  <2>1. UNCHANGED <<prodVars, histVars>>  BY <1>1
  <2>2. RingTypeOK'  BY <1>1 DEF RingTypeOK, ReaderTypeOK, ringVars
  <2>3. payload[SlotOf(rpos)] \in Int /\ fdb[SlotOf(rpos)] \in Nat
    BY SlotInRange DEF RingTypeOK, ReaderTypeOK
  <2>4. ReaderTypeOK'  BY <1>1, <2>3 DEF ReaderTypeOK, RGoto, ReaderStates
  <2> QED  BY <2>1, <2>2, <2>4 DEF ProducerTypeOK, HistoryTypeOK, prodVars, histVars
<1>2. ASSUME Deliver PROVE TypeOK'
  <2> USE <1>2 DEF Deliver
  <2>1. seq' \in [Slots -> Nat]
    <3>1. seq \in [Slots -> Nat]  BY DEF RingTypeOK
    <3>2. rpos + Capacity \in Nat  BY CapacityAssumption DEF ReaderTypeOK
    <3>3. seq' = [seq EXCEPT ![SlotOf(rpos)] = rpos + Capacity]  OBVIOUS
    <3> QED  BY ONLY <3>1, <3>2, <3>3, UpdateType
  <2>2. RingTypeOK'  BY <2>1 DEF RingTypeOK
  <2>3. ReaderTypeOK'  BY DEF ReaderTypeOK, RGoto, ReaderStates
  <2>4. HistoryTypeOK'  BY DEF HistoryTypeOK, ReaderTypeOK
  <2> QED  BY <2>2, <2>3, <2>4 DEF ProducerTypeOK, prodVars
<1> QED  BY <1>1, <1>2 DEF TakeStep

LEMMA TerminalTypes ==
  ASSUME TypeOK, TerminalStep
  PROVE  TypeOK'
<1> USE DEF TypeOK, TerminalStep, LoadEmptyAt, CheckEmpty, LoadPending, RecheckEmpty,
            TakeTerminalGap, TerminalGapLost
<1>1. ProducerTypeOK'  BY DEF ProducerTypeOK, prodVars
<1>2. ReaderTypeOK'  BY DEF ReaderTypeOK, RingTypeOK, RGoto, ReaderStates
<1>3. HistoryTypeOK'
  <2>1. rword.count \in Nat  BY DEF ReaderTypeOK, DropWords
  <2>2. CASE TakeTerminalGap  BY <2>1, <2>2 DEF HistoryTypeOK
  <2>3. CASE UNCHANGED histVars  BY <2>3 DEF HistoryTypeOK, histVars
  <2> QED  BY <2>2, <2>3
<1>4. pending' \in DropWords  BY DEF RingTypeOK, DropWords, AfterHarvest, ringVars
<1>5. RingTypeOK'  BY <1>4 DEF RingTypeOK, ringVars
<1> QED  BY <1>1, <1>2, <1>3, <1>5

LEMMA RestartTypes ==
  ASSUME TypeOK, NewSession \/ ReaderCrash
  PROVE  TypeOK'
<1> USE CapacityAssumption DEF TypeOK
<1>1. ASSUME NewSession PROVE TypeOK'
  <2> USE <1>1 DEF NewSession
  <2>1. seq' \in [Slots -> Nat]  BY DEF Slots
  <2>2. RingTypeOK'  BY <2>1 DEF RingTypeOK, NoDrops, DropWords
  <2>3. ProducerTypeOK'  BY DEF ProducerTypeOK, ProducerStates
  <2>4. ReaderTypeOK'  BY DEF ReaderTypeOK, readVars
  <2>5. HistoryTypeOK'  BY DEF HistoryTypeOK
  <2> QED  BY <2>2, <2>3, <2>4, <2>5
<1>2. ASSUME ReaderCrash PROVE TypeOK'
  <2> USE <1>2 DEF ReaderCrash
  <2>1. RingTypeOK'  BY DEF RingTypeOK
  <2>2. ReaderTypeOK'  BY DEF ReaderTypeOK, RingTypeOK, ReaderStates
  <2> QED  BY <2>1, <2>2 DEF ProducerTypeOK, HistoryTypeOK, prodVars, histVars
<1> QED  BY <1>1, <1>2

LEMMA TypeStep == TypeOK /\ [Next]_vars => TypeOK'
<1> SUFFICES ASSUME TypeOK, [Next]_vars PROVE TypeOK'  OBVIOUS
<1>1. ASSUME UNCHANGED vars PROVE TypeOK'
  BY <1>1 DEF vars, ringVars, prodVars, readVars, histVars, TypeOK, RingTypeOK, ProducerTypeOK,
              ReaderTypeOK, HistoryTypeOK
<1> QED
  BY <1>1, StartTypes, FailTypes, ClaimTypes, DiscardTypes, SnapshotTypes, TakeTypes,
     TerminalTypes, RestartTypes
     DEF Next, PublishStep, ReadStep

\* Every variable keeps its type, whatever the bounds.
THEOREM TypeCorrect == Spec => []TypeOK
  BY TypeInit, TypeStep, PTL DEF Spec

-----------------------------------------------------------------------------
(* Slot ownership.                                                         *)

LEMMA SlotsApart ==
  ASSUME NEW a \in Nat, NEW b \in Nat, a # b, a < b + Capacity, b < a + Capacity
  PROVE  SlotOf(a) # SlotOf(b)
  BY SlotDistinct, CapacityAssumption

\* What the types say of the variables the ownership argument is about.
LEMMA CoreTypes ==
  ASSUME TypeOK
  PROVE  /\ enq \in Nat /\ deq \in Nat /\ rpos \in Nat /\ Capacity \in Nat /\ Capacity >= 2
         /\ \A p \in Producers : tick[p] \in Nat /\ dpos[p] \in Nat /\ ppc[p] \in ProducerStates
         /\ seq \in [Slots -> Nat] /\ payload \in [Slots -> Int]
         /\ DOMAIN ppc = Producers /\ DOMAIN tick = Producers /\ DOMAIN dpos = Producers
  BY CapacityAssumption DEF TypeOK, RingTypeOK, ProducerTypeOK, ReaderTypeOK

LEMMA OwnershipInit == Init => OwnershipInv
<1> SUFFICES ASSUME Init PROVE OwnershipInv  OBVIOUS
<1> USE CapacityAssumption DEF Init, FreshRing
<1>1. LockInv  BY DEF LockInv, HoldsLock
<1>2. WindowInv  BY DEF WindowInv
<1>3. TailInv
  <2>1. \A t \in Nat : seq[SlotOf(t)] <= t  BY SlotBelow
  <2> QED  BY <2>1 DEF TailInv
<1>4. LiveInv  BY DEF LiveInv
<1>5. FlightInv  BY DEF FlightInv, InFlight
<1>6. OwnerInv  BY DEF OwnerInv, ReaderOwns, DiscardOwns
<1>7. ReadyInv  BY DEF ReadyInv
<1>8. ClaimInv  BY DEF ClaimInv
<1>9. DeliveredIntact  BY DEF DeliveredIntact
<1> QED  BY <1>1, <1>2, <1>3, <1>4, <1>5, <1>6, <1>7, <1>8, <1>9 DEF OwnershipInv

\* Only a producer's own steps move it in or out of claimLock.
LEMMA LockByProducer ==
  ASSUME TypeOK, LockInv, NEW p \in Producers, StartPublish(p) \/ PublishStep(p)
  PROVE  LockInv'
<1>1. \A q \in Producers \ {p} : ppc'[q] = ppc[q]
  BY DEF StartPublish, PublishStep, ClaimStep, DiscardStep, FailStep, TypeOK, ProducerTypeOK, Goto,
         AcquireClaimLock, ClaimContended, RecordContended, TailFree, TailFull,
         HarvestPendingDrops, AdvanceTail, ReleaseAndCopy, PublishSlot, LoadOldest,
         OldestInFlight, OldestGone, OldestReady, OpenDiscard, DiscardHead, DiscardLost,
         CountDiscard, FreeDiscarded, CloseDiscard, RecordFull, ReleaseAfterFull
<1>2. \/ claimLock = 0 /\ claimLock' = 1
      \/ HoldsLock(p) /\ ~HoldsLock(p)' /\ claimLock' = 0
      \/ (HoldsLock(p)' => HoldsLock(p)) /\ UNCHANGED claimLock
  <2> USE DEF HoldsLock, TypeOK, ProducerTypeOK, Goto, ringVars
  <2>1. CASE StartPublish(p)  BY <2>1 DEF StartPublish, AcquireClaimLock, ClaimContended
  <2>2. CASE ClaimStep(p)
    BY <2>2 DEF ClaimStep, TailFree, TailFull, HarvestPendingDrops, AdvanceTail, ReleaseAndCopy,
                PublishSlot
  <2>3. CASE DiscardStep(p)
    BY <2>3 DEF DiscardStep, LoadOldest, OldestInFlight, OldestGone, OldestReady, OpenDiscard,
                DiscardHead, DiscardLost, CountDiscard, FreeDiscarded, CloseDiscard
  <2>4. CASE FailStep(p)
    BY <2>4 DEF FailStep, RecordContended, RecordFull, ReleaseAfterFull
  <2> QED  BY <2>1, <2>2, <2>3, <2>4 DEF PublishStep
<1>3. claimLock \in {0, 1}  BY DEF TypeOK, RingTypeOK
<1> QED  BY <1>1, <1>2, <1>3 DEF LockInv, HoldsLock

\* A producer step that writes no slot, no position and no ticket.
LEMMA OwnershipFramed ==
  ASSUME TypeOK, OwnershipInv, NEW p \in Producers, LockInv',
         UNCHANGED <<seq, payload, enq, deq, rpc, rpos, rcopy, tick>>,
         \A q \in Producers \ {p} : ppc'[q] = ppc[q] /\ dpos'[q] = dpos[q],
         ~InFlight(p), ~InFlight(p)',
         ~DiscardOwns(p)' \/ (DiscardOwns(p) /\ UNCHANGED dpos),
         ppc'[p] \in {"inspect", "reopen"} => dpos'[p] <= deq,
         ppc'[p] \in {"open", "discard"} => Ready(dpos'[p]),
         ppc'[p] \in {"harvest", "advance"} => seq[SlotOf(enq)] = enq
  PROVE  OwnershipInv'
<1> USE DEF OwnershipInv
<1>1. WindowInv' /\ TailInv' /\ LiveInv'  BY DEF WindowInv, TailInv, LiveInv
<1>2. FlightInv'  BY DEF FlightInv, InFlight
<1>3. OwnerInv'  BY DEF OwnerInv, ReaderOwns, DiscardOwns, Taken
<1>4. ReadyInv'  BY DEF ReadyInv, Ready
<1>5. ClaimInv'  BY DEF ClaimInv
<1>6. DeliveredIntact'  BY DEF DeliveredIntact
<1> QED  BY <1>1, <1>2, <1>3, <1>4, <1>5, <1>6

LEMMA OwnershipQuietProducer ==
  ASSUME TypeOK, OwnershipInv, NEW p \in Producers,
         \/ StartPublish(p) \/ FailStep(p)
         \/ TailFree(p) \/ TailFull(p) \/ HarvestPendingDrops(p)
         \/ LoadOldest(p) \/ OldestInFlight(p) \/ OldestGone(p) \/ OldestReady(p)
         \/ OpenDiscard(p) \/ DiscardLost(p) \/ CountDiscard(p) \/ CloseDiscard(p)
  PROVE  OwnershipInv'
<1>0. LockInv'
  BY LockByProducer DEF OwnershipInv, PublishStep, ClaimStep, DiscardStep
<1> USE CoreTypes
    DEF StartPublish, AcquireClaimLock, ClaimContended, FailStep, RecordContended, RecordFull,
        ReleaseAfterFull, TailFree, TailFull, HarvestPendingDrops, LoadOldest, OldestInFlight,
        OldestGone, OldestReady, OpenDiscard, DiscardLost, CountDiscard, CloseDiscard, Goto,
        ringVars, readVars
<1>1. UNCHANGED <<seq, payload, enq, deq, rpc, rpos, rcopy, tick>>  OBVIOUS
<1>2. \A q \in Producers \ {p} : ppc'[q] = ppc[q] /\ dpos'[q] = dpos[q]  OBVIOUS
<1>3. ~InFlight(p) /\ ~InFlight(p)'  BY DEF InFlight
<1>4. ~DiscardOwns(p)' \/ (DiscardOwns(p) /\ UNCHANGED dpos)  BY DEF DiscardOwns
<1>5. ppc'[p] \in {"inspect", "reopen"} => dpos'[p] <= deq
  BY DEF OwnershipInv, ReadyInv
<1>6. ppc'[p] \in {"open", "discard"} => Ready(dpos'[p])
  <2>1. CASE OldestReady(p)
    <3>1. dpos[p] <= deq /\ seq[SlotOf(dpos[p])] = dpos[p] + 1
      BY <2>1 DEF OwnershipInv, ReadyInv
    <3>2. deq = dpos[p] => dpos[p] < enq
      BY <3>1, SlotInRange DEF OwnershipInv, WindowInv, TailInv
    <3> QED  BY <2>1, <3>1, <3>2 DEF Ready
  <2>2. CASE OpenDiscard(p)  BY <2>2 DEF OwnershipInv, ReadyInv
  <2>3. CASE ~OldestReady(p) /\ ~OpenDiscard(p)  BY <2>3
  <2> QED  BY <2>1, <2>2, <2>3
<1>7. ppc'[p] \in {"harvest", "advance"} => seq[SlotOf(enq)] = enq
  BY DEF OwnershipInv, ClaimInv
<1> QED  BY ONLY TypeOK, OwnershipInv, <1>0, <1>1, <1>2, <1>3, <1>4, <1>5, <1>6, <1>7, OwnershipFramed

LEMMA OwnershipAdvance ==
  ASSUME TypeOK, OwnershipInv, NEW p \in Producers, AdvanceTail(p)
  PROVE  OwnershipInv'
<1>0. LockInv'
  BY LockByProducer DEF OwnershipInv, PublishStep, ClaimStep
<1>1. /\ UNCHANGED <<seq, payload, deq, rpc, rpos, rcopy, dpos>>
      /\ enq' = enq + 1 /\ tick'[p] = enq
      /\ ppc[p] = "advance" /\ ppc'[p] = "release"
      /\ \A q \in Producers \ {p} : ppc'[q] = ppc[q] /\ tick'[q] = tick[q]
  BY CoreTypes DEF AdvanceTail, Goto, readVars
<1> USE DEF OwnershipInv
<1>2. seq[SlotOf(enq)] = enq  BY <1>1 DEF ClaimInv
<1>3. enq < deq + Capacity
  <2>1. ASSUME enq = deq + Capacity PROVE FALSE
    <3>1. SlotOf(enq) = SlotOf(deq)  BY <2>1, CoreTypes, SlotLap
    <3>2. seq[SlotOf(deq)] \in {deq, deq + 1}  BY <2>1, CoreTypes DEF LiveInv
    <3> QED  BY <1>2, <2>1, <3>1, <3>2, CoreTypes
  <2> QED  BY <2>1, CoreTypes DEF WindowInv
<1>4. WindowInv'  BY <1>1, <1>3, CoreTypes DEF WindowInv
<1>5. TailInv'
  <2>1. seq[SlotOf(enq + Capacity)] <= enq + Capacity  BY <1>2, CoreTypes, SlotLap
  <2> QED  BY <1>1, <2>1, CoreTypes DEF TailInv
<1>6. LiveInv'  BY <1>1, <1>2, CoreTypes DEF LiveInv
<1>7. FlightInv'  BY <1>1, <1>2, CoreTypes DEF FlightInv, InFlight, WindowInv
<1>8. \A pos \in Nat : Taken(pos) => Taken(pos)'
  <2> SUFFICES ASSUME NEW pos \in Nat, Taken(pos) PROVE Taken(pos)'  OBVIOUS
  <2>1. enq # pos + Capacity  BY <1>2, CoreTypes, SlotLap DEF Taken
  <2> QED  BY <1>1, <2>1, CoreTypes DEF Taken
<1>9. OwnerInv'  BY <1>1, <1>8, CoreTypes DEF OwnerInv, ReaderOwns, DiscardOwns
<1>10. ReadyInv'  BY <1>1, CoreTypes DEF ReadyInv, Ready
<1>11. ClaimInv'  BY <1>1 DEF ClaimInv, LockInv, HoldsLock
<1>12. DeliveredIntact'  BY <1>1 DEF DeliveredIntact
<1> QED  BY <1>0, <1>4, <1>5, <1>6, <1>7, <1>9, <1>10, <1>11, <1>12

LEMMA OwnershipPublish ==
  ASSUME TypeOK, OwnershipInv, NEW p \in Producers, ReleaseAndCopy(p) \/ PublishSlot(p)
  PROVE  OwnershipInv'
<1>0. LockInv'
  BY LockByProducer DEF OwnershipInv, PublishStep, ClaimStep
<1> DEFINE s == SlotOf(tick[p])
<1>1. /\ UNCHANGED <<enq, deq, rpc, rpos, rcopy, dpos>>
      /\ InFlight(p) /\ tick[p] \in Nat
      /\ \A q \in Producers \ {p} : ppc'[q] = ppc[q] /\ tick'[q] = tick[q]
      /\ ppc'[p] \in {"copy", "idle"}
      /\ ppc'[p] = "copy" => tick'[p] = tick[p]
  BY CoreTypes DEF ReleaseAndCopy, PublishSlot, Goto, readVars, InFlight
<1>2. \A i \in Slots \ {s} : seq'[i] = seq[i] /\ payload'[i] = payload[i]
  BY CoreTypes DEF ReleaseAndCopy, PublishSlot
<1>3. \/ ppc'[p] = "copy" /\ seq' = seq
      \/ ppc'[p] = "idle" /\ seq'[s] = tick[p] + 1 /\ payload'[s] = tick[p]
  BY CoreTypes, SlotInRange DEF ReleaseAndCopy, PublishSlot, Goto
<1>4. deq <= tick[p] /\ tick[p] < enq /\ seq[s] = tick[p]
  BY <1>1 DEF OwnershipInv, FlightInv
<1>5. enq <= deq + Capacity /\ deq <= enq  BY DEF OwnershipInv, WindowInv
<1>6. \A t \in Nat : t # tick[p] /\ t >= deq /\ t < deq + Capacity => SlotOf(t) # s
  BY <1>1, <1>4, <1>5, CoreTypes, SlotsApart
<1> HIDE DEF s
<1> USE DEF OwnershipInv
<1>7. WindowInv'  BY <1>1 DEF WindowInv
<1>8. TailInv'
  <2> SUFFICES ASSUME NEW t \in enq .. enq + Capacity - 1 PROVE seq'[SlotOf(t)] <= t
    BY <1>1 DEF TailInv
  <2>1. SlotOf(t) \in Slots /\ seq[SlotOf(t)] <= t  BY CoreTypes, SlotInRange DEF TailInv
  <2> QED  BY <1>1, <1>2, <1>3, <1>4, <2>1, CoreTypes
<1>9. LiveInv'
  <2> SUFFICES ASSUME NEW t \in deq .. enq - 1
               PROVE  \/ seq'[SlotOf(t)] = t
                      \/ seq'[SlotOf(t)] = t + 1 /\ payload'[SlotOf(t)] = t
    BY <1>1 DEF LiveInv
  <2>1. CASE t = tick[p]  BY <1>3, <1>4, <2>1 DEF s
  <2>2. CASE t # tick[p]
    BY <1>2, <1>5, <1>6, <2>2, CoreTypes, SlotInRange DEF LiveInv
  <2> QED  BY <2>1, <2>2
<1>10. FlightInv'
  <2>1. ASSUME NEW q \in Producers, InFlight(q)'
        PROVE  deq <= tick'[q] /\ tick'[q] < enq /\ seq'[SlotOf(tick'[q])] = tick'[q]
    <3>1. CASE q = p  BY <1>1, <1>3, <1>4, <2>1, <3>1 DEF InFlight, s
    <3>2. CASE q # p
      <4>1. InFlight(q) /\ tick'[q] = tick[q] /\ tick[q] # tick[p] /\ tick[q] \in Nat
        BY <1>1, <2>1, <3>2, CoreTypes DEF InFlight, FlightInv
      <4>2. deq <= tick[q] /\ tick[q] < enq /\ seq[SlotOf(tick[q])] = tick[q]
        BY <4>1 DEF FlightInv
      <4> QED  BY <1>2, <1>5, <1>6, <4>1, <4>2, CoreTypes, SlotInRange
    <3> QED  BY <3>1, <3>2
  <2>2. ASSUME NEW q \in Producers, NEW r \in Producers, InFlight(q)', InFlight(r)', q # r
        PROVE  tick'[q] # tick'[r]
    BY <1>1, <2>2 DEF InFlight, FlightInv
  <2> QED  BY <1>1, <2>1, <2>2 DEF FlightInv
<1>11. \A pos \in Nat : Taken(pos) => Taken(pos)'
  <2> SUFFICES ASSUME NEW pos \in Nat, Taken(pos) PROVE Taken(pos)'  OBVIOUS
  <2>1. SlotOf(pos) # s
    BY <1>1, <1>4, CoreTypes, SlotsApart DEF Taken, s
  <2> QED  BY <1>1, <1>2, <2>1, CoreTypes, SlotInRange DEF Taken
<1>12. OwnerInv'
  BY <1>1, <1>11, CoreTypes DEF OwnerInv, ReaderOwns, DiscardOwns, InFlight
<1>13. \A pos \in Nat : Ready(pos) => Ready(pos)'
  <2> SUFFICES ASSUME NEW pos \in Nat, Ready(pos) PROVE Ready(pos)'  OBVIOUS
  <2>1. CASE deq = pos
    <3>1. pos # tick[p]  BY <1>4, <2>1, CoreTypes DEF Ready, s
    <3>2. SlotOf(pos) # s  BY <1>6, <2>1, <3>1, CoreTypes
    <3> QED  BY <1>1, <1>2, <2>1, <3>2, CoreTypes, SlotInRange DEF Ready
  <2> QED  BY <1>1, <2>1 DEF Ready
<1>14. ReadyInv'  BY <1>1, <1>13, CoreTypes DEF ReadyInv, InFlight
<1>15. ClaimInv'
  <2> SUFFICES ASSUME NEW q \in Producers, ppc'[q] \in {"harvest", "advance"}
               PROVE  seq'[SlotOf(enq)] = enq
    BY <1>1 DEF ClaimInv
  <2>1. q # p /\ seq[SlotOf(enq)] = enq  BY <1>1 DEF ClaimInv
  <2>2. SlotOf(enq) # s  BY <1>4, <2>1, CoreTypes DEF s
  <2> QED  BY <1>2, <2>1, <2>2, CoreTypes, SlotInRange
<1>16. DeliveredIntact'  BY <1>1 DEF DeliveredIntact
<1> QED  BY <1>0, <1>7, <1>8, <1>9, <1>10, <1>12, <1>14, <1>15, <1>16

\* Freeing the slot of a taken position for the next lap touches no queued
\* position and no other owner's slot.
LEMMA OwnershipFreed ==
  ASSUME TypeOK, OwnershipInv, LockInv', DeliveredIntact',
         NEW x \in Nat, Taken(x),
         seq' = [seq EXCEPT ![SlotOf(x)] = x + Capacity],
         UNCHANGED <<payload, enq, deq, tick, dpos, rpos>>,
         \A q \in Producers : ppc'[q] = ppc[q] \/ ppc'[q] = "close",
         rpc' \in {rpc, "snap"},
         ReaderOwns' => rpos # x,
         \A q \in Producers : DiscardOwns(q)' => dpos[q] # x
  PROVE  OwnershipInv'
<1> DEFINE s == SlotOf(x)
<1>1. /\ x < deq /\ enq <= x + Capacity /\ seq[s] = x + 1 /\ s \in Slots
      /\ deq <= enq /\ enq <= deq + Capacity
  BY SlotInRange DEF Taken, OwnershipInv, WindowInv
<1>2. seq'[s] = x + Capacity /\ \A i \in Slots \ {s} : seq'[i] = seq[i]
  BY <1>1, CoreTypes
<1>3. \A t \in Nat : t # x /\ t < x + Capacity /\ x < t + Capacity => SlotOf(t) # s
  BY CoreTypes, SlotsApart
<1> HIDE DEF s
<1> USE DEF OwnershipInv
<1>4. WindowInv'  BY <1>1 DEF WindowInv
<1>5. TailInv'
  <2> SUFFICES ASSUME NEW t \in enq .. enq + Capacity - 1 PROVE seq'[SlotOf(t)] <= t
    BY DEF TailInv
  <2>1. SlotOf(t) \in Slots /\ seq[SlotOf(t)] <= t /\ t \in Nat
    BY CoreTypes, SlotInRange DEF TailInv
  <2>2. CASE SlotOf(t) = s
    <3>1. t >= x + Capacity  BY <1>1, <1>3, <2>1, <2>2, CoreTypes
    <3> QED  BY <1>2, <2>2, <3>1
  <2> QED  BY <1>2, <2>1, <2>2
<1>6. \A t \in deq .. enq - 1 : SlotOf(t) \in Slots /\ SlotOf(t) # s
  BY <1>1, <1>3, CoreTypes, SlotInRange
<1>7. LiveInv'  BY <1>2, <1>6 DEF LiveInv
<1>8. FlightInv'
  <2>1. \A q \in Producers : InFlight(q)' => InFlight(q)  BY DEF InFlight
  <2>2. \A q \in Producers : InFlight(q) => tick[q] \in deq .. enq - 1
    BY CoreTypes DEF FlightInv
  <2> QED  BY <1>2, <1>6, <2>1, <2>2 DEF FlightInv
<1>9. \A pos \in Nat : pos # x /\ Taken(pos) => Taken(pos)'
  <2> SUFFICES ASSUME NEW pos \in Nat, pos # x, Taken(pos) PROVE Taken(pos)'  OBVIOUS
  <2>1. SlotOf(pos) # s  BY <1>1, <1>3, CoreTypes DEF Taken
  <2> QED  BY <1>2, <2>1, SlotInRange DEF Taken
<1>10. OwnerInv'
  <2>1. ReaderOwns' => ReaderOwns  BY DEF ReaderOwns
  <2>2. \A q \in Producers : DiscardOwns(q)' => DiscardOwns(q)  BY DEF DiscardOwns
  <2> QED  BY <1>9, <2>1, <2>2, CoreTypes DEF OwnerInv
<1>11. \A pos \in Nat : Ready(pos) => Ready(pos)'
  BY <1>2, <1>6, CoreTypes DEF Ready
<1>12. ReadyInv'  BY <1>11, CoreTypes DEF ReadyInv
<1>13. ClaimInv'
  <2> SUFFICES ASSUME NEW q \in Producers, ppc'[q] \in {"harvest", "advance"}
               PROVE  seq'[SlotOf(enq)] = enq
    BY DEF ClaimInv
  <2>1. seq[SlotOf(enq)] = enq  BY DEF ClaimInv
  <2>2. SlotOf(enq) # s
    <3>1. ASSUME SlotOf(enq) = s PROVE FALSE
      <4>1. enq = x + 1  BY <1>1, <2>1, <3>1
      <4> QED  BY <1>3, <3>1, <4>1, CoreTypes
    <3> QED  BY <3>1
  <2> QED  BY <1>2, <2>1, <2>2, CoreTypes, SlotInRange
<1> QED  BY <1>4, <1>5, <1>7, <1>8, <1>10, <1>12, <1>13

LEMMA OwnershipFreeDiscarded ==
  ASSUME TypeOK, OwnershipInv, NEW p \in Producers, FreeDiscarded(p)
  PROVE  OwnershipInv'
<1>1. LockInv'
  BY LockByProducer DEF OwnershipInv, PublishStep, DiscardStep
<1>2. /\ UNCHANGED <<payload, enq, deq, tick, dpos, rpos, rpc, rcopy>>
      /\ ppc[p] = "free" /\ ppc'[p] = "close"
      /\ \A q \in Producers \ {p} : ppc'[q] = ppc[q]
      /\ seq' = [seq EXCEPT ![SlotOf(dpos[p])] = dpos[p] + Capacity]
  BY CoreTypes DEF FreeDiscarded, Goto, readVars
<1>3. DeliveredIntact'  BY <1>2 DEF OwnershipInv, DeliveredIntact
<1>4. Taken(dpos[p]) /\ dpos[p] \in Nat /\ (ReaderOwns' => rpos # dpos[p])
  BY <1>2, CoreTypes DEF OwnershipInv, OwnerInv, DiscardOwns, ReaderOwns
<1>5. \A q \in Producers : ~DiscardOwns(q)'
  BY <1>2 DEF OwnershipInv, LockInv, HoldsLock, DiscardOwns
<1> QED  BY <1>1, <1>2, <1>3, <1>4, <1>5, OwnershipFreed

LEMMA OwnershipDeliver ==
  ASSUME TypeOK, OwnershipInv, Deliver
  PROVE  OwnershipInv'
<1>1. /\ UNCHANGED <<payload, enq, deq, tick, dpos, rpos, ppc, claimLock>>
      /\ rpc = "release" /\ rpc' = "snap"
      /\ seq' = [seq EXCEPT ![SlotOf(rpos)] = rpos + Capacity]
  BY DEF Deliver, RGoto, prodVars
<1>2. LockInv' /\ DeliveredIntact'
  BY <1>1 DEF OwnershipInv, LockInv, HoldsLock, DeliveredIntact
<1>3. Taken(rpos) /\ ~ReaderOwns'  BY <1>1 DEF OwnershipInv, OwnerInv, ReaderOwns
<1>4. \A q \in Producers : DiscardOwns(q)' => dpos[q] # rpos
  BY <1>1 DEF OwnershipInv, OwnerInv, DiscardOwns, ReaderOwns
<1> QED  BY <1>1, <1>2, <1>3, <1>4, CoreTypes, OwnershipFreed

\* Taking the head h: it was complete, so nobody is copying into it.
LEMMA HeadTaken ==
  ASSUME TypeOK, OwnershipInv, NEW h \in Nat, deq = h, Ready(h), deq' = h + 1,
         UNCHANGED <<seq, payload, enq, tick, dpos, rpos>>,
         \A q \in Producers : ppc'[q] = ppc[q] \/ (DiscardOwns(q)' /\ dpos[q] = h)
  PROVE  /\ WindowInv' /\ TailInv' /\ LiveInv' /\ FlightInv' /\ ClaimInv'
         /\ Taken(h)'
         /\ \A pos \in Nat : Taken(pos) => Taken(pos)' /\ pos # h
         /\ \A pos \in Nat : Ready(pos) => Ready(pos)'
<1> USE CoreTypes DEF OwnershipInv
<1>1. h < enq /\ seq[SlotOf(h)] = h + 1  BY DEF Ready
<1>2. payload[SlotOf(h)] = h  BY <1>1 DEF LiveInv
<1>3. WindowInv'  BY <1>1 DEF WindowInv
<1>4. TailInv' /\ LiveInv'  BY DEF TailInv, LiveInv
<1>5. FlightInv'
  <2>1. \A q \in Producers : InFlight(q)' => InFlight(q) /\ tick[q] # h
    BY <1>1 DEF InFlight, DiscardOwns, FlightInv
  <2> QED  BY <2>1 DEF FlightInv
<1>6. ClaimInv'  BY DEF ClaimInv, DiscardOwns
<1>7. Taken(h)'  BY <1>1, <1>2 DEF Taken, WindowInv
<1>8. \A pos \in Nat : Taken(pos) => Taken(pos)' /\ pos # h  BY DEF Taken
<1>9. \A pos \in Nat : Ready(pos) => Ready(pos)'  BY DEF Ready
<1> QED  BY <1>3, <1>4, <1>5, <1>6, <1>7, <1>8, <1>9

LEMMA OwnershipDiscardHead ==
  ASSUME TypeOK, OwnershipInv, NEW p \in Producers, DiscardHead(p)
  PROVE  OwnershipInv'
<1>1. LockInv'
  BY LockByProducer DEF OwnershipInv, PublishStep, DiscardStep
<1>2. PICK h \in Nat : h = dpos[p]  BY CoreTypes
<1>3. /\ deq = h /\ deq' = h + 1
      /\ UNCHANGED <<seq, payload, enq, tick, dpos, rpos, rpc, rcopy>>
      /\ ppc[p] = "discard" /\ ppc'[p] = "count"
      /\ \A q \in Producers \ {p} : ppc'[q] = ppc[q]
  BY <1>2, CoreTypes DEF DiscardHead, Goto, readVars
<1>4. Ready(h)  BY <1>2, <1>3 DEF OwnershipInv, ReadyInv
<1>5. /\ WindowInv' /\ TailInv' /\ LiveInv' /\ FlightInv' /\ ClaimInv' /\ Taken(h)'
      /\ \A pos \in Nat : Taken(pos) => Taken(pos)' /\ pos # h
      /\ \A pos \in Nat : Ready(pos) => Ready(pos)'
  BY <1>2, <1>3, <1>4, HeadTaken DEF DiscardOwns
<1>6. OwnerInv'
  BY <1>2, <1>3, <1>5, CoreTypes DEF OwnershipInv, OwnerInv, ReaderOwns, DiscardOwns
<1>7. ReadyInv'
  <2>1. \A pos \in Nat : pos <= deq => pos <= deq'  BY <1>3, CoreTypes
  <2> QED  BY <1>3, <1>5, <2>1, CoreTypes DEF OwnershipInv, ReadyInv
<1>8. DeliveredIntact'  BY <1>3 DEF OwnershipInv, DeliveredIntact
<1> QED  BY <1>1, <1>5, <1>6, <1>7, <1>8 DEF OwnershipInv

LEMMA OwnershipTakeHead ==
  ASSUME TypeOK, OwnershipInv, TakeHead
  PROVE  OwnershipInv'
<1>1. PICK h \in Nat : h = rpos  BY CoreTypes
<1>2. /\ deq = h /\ deq' = h + 1
      /\ UNCHANGED <<seq, payload, enq, tick, dpos, rpos, ppc, claimLock>>
      /\ rpc = "take" /\ rpc' = "copy"
  BY <1>1 DEF TakeHead, RGoto, prodVars
<1>3. Ready(h)  BY <1>1, <1>2 DEF OwnershipInv, ReadyInv
<1>4. /\ WindowInv' /\ TailInv' /\ LiveInv' /\ FlightInv' /\ ClaimInv' /\ Taken(h)'
      /\ \A pos \in Nat : Taken(pos) => Taken(pos)' /\ pos # h
      /\ \A pos \in Nat : Ready(pos) => Ready(pos)'
  BY <1>1, <1>2, <1>3, HeadTaken
<1>5. OwnerInv'
  BY <1>1, <1>2, <1>4, CoreTypes DEF OwnershipInv, OwnerInv, ReaderOwns, DiscardOwns
<1>6. ReadyInv'
  <2>1. \A pos \in Nat : pos <= deq => pos <= deq'  BY <1>2, CoreTypes
  <2> QED  BY <1>2, <1>4, <2>1, CoreTypes DEF OwnershipInv, ReadyInv
<1>7. DeliveredIntact' /\ LockInv'
  BY <1>2 DEF OwnershipInv, DeliveredIntact, LockInv, HoldsLock
<1> QED  BY <1>4, <1>5, <1>6, <1>7 DEF OwnershipInv

\* A reader step that writes nothing the invariant speaks of but the
\* reader's own registers.
LEMMA OwnershipReaderFramed ==
  ASSUME TypeOK, OwnershipInv,
         UNCHANGED <<seq, payload, enq, deq, claimLock, prodVars>>,
         ReaderOwns' => ReaderOwns /\ UNCHANGED rpos,
         rpc' \in {"snapLoss", "snapAfter", "head"} => rpos' <= deq,
         rpc' = "take" => Ready(rpos'),
         rpc' = "release" => rcopy' = rpos'
  PROVE  OwnershipInv'
<1> USE DEF OwnershipInv, prodVars
<1>1. LockInv'  BY DEF LockInv, HoldsLock
<1>2. WindowInv' /\ TailInv' /\ LiveInv'  BY DEF WindowInv, TailInv, LiveInv
<1>3. FlightInv' /\ ClaimInv'  BY DEF FlightInv, InFlight, ClaimInv
<1>4. OwnerInv'  BY DEF OwnerInv, ReaderOwns, DiscardOwns, Taken
<1>5. ReadyInv'  BY DEF ReadyInv, Ready
<1>6. DeliveredIntact'  BY DEF DeliveredIntact
<1> QED  BY <1>1, <1>2, <1>3, <1>4, <1>5, <1>6

LEMMA OwnershipReader ==
  ASSUME TypeOK, OwnershipInv, ReadStep
  PROVE  OwnershipInv'
<1> USE DEF RGoto, ringVars
<1>1. ASSUME BeginDrain \/ SnapshotStep PROVE OwnershipInv'
  <2> USE <1>1 DEF BeginDrain, SnapshotStep, SnapBegin, SnapDequeue, SnapLoss, SnapMiss,
                   SnapBaseline, SnapAccept
  <2>1. UNCHANGED <<seq, payload, enq, deq, claimLock, prodVars>>  OBVIOUS
  <2>2. ~ReaderOwns' /\ rpc' # "take" /\ rpc' # "release"  BY DEF ReaderOwns
  <2>3. rpc' \in {"snapLoss", "snapAfter", "head"} => rpos' <= deq
    BY CoreTypes DEF OwnershipInv, ReadyInv
  <2> QED  BY ONLY TypeOK, OwnershipInv, <2>1, <2>2, <2>3, OwnershipReaderFramed
<1>2. ASSUME InspectHead PROVE OwnershipInv'
  <2> USE <1>2 DEF InspectHead
  <2>1. UNCHANGED <<seq, payload, enq, deq, claimLock, prodVars, rpos>>  OBVIOUS
  <2>2. ~ReaderOwns' /\ rpc' \notin {"snapLoss", "snapAfter", "head", "release"}
    BY DEF ReaderOwns
  <2>3. rpc' = "take" => Ready(rpos')
    <3>1. rpos <= deq  BY DEF OwnershipInv, ReadyInv
    <3>2. rpc' = "take" => seq[SlotOf(rpos)] = rpos + 1  OBVIOUS
    <3>3. seq[SlotOf(enq)] <= enq  BY CoreTypes DEF OwnershipInv, TailInv
    <3> QED
      BY ONLY TypeOK, OwnershipInv, <2>1, <3>1, <3>2, <3>3, CoreTypes
      DEF OwnershipInv, WindowInv, Ready
  <2> QED  BY ONLY TypeOK, OwnershipInv, <2>1, <2>2, <2>3, OwnershipReaderFramed
<1>3. ASSUME TakeLost \/ TerminalStep PROVE OwnershipInv'
  <2> USE <1>3 DEF TakeLost, TerminalStep, LoadEmptyAt, CheckEmpty, LoadPending, RecheckEmpty,
                   TakeTerminalGap, TerminalGapLost
  <2>1. UNCHANGED <<seq, payload, enq, deq, claimLock, prodVars>>  OBVIOUS
  <2>2. ~ReaderOwns' /\ rpc' \notin {"snapLoss", "snapAfter", "head", "take", "release"}
    BY DEF ReaderOwns
  <2> QED  BY ONLY TypeOK, OwnershipInv, <2>1, <2>2, OwnershipReaderFramed
<1>4. ASSUME CopyHead PROVE OwnershipInv'
  <2> USE <1>4 DEF CopyHead
  <2>1. UNCHANGED <<seq, payload, enq, deq, claimLock, prodVars, rpos>>  OBVIOUS
  <2>2. ReaderOwns /\ rpc' = "release"  BY DEF ReaderOwns
  <2>3. rcopy' = rpos'  BY <2>2 DEF OwnershipInv, OwnerInv, Taken
  <2> QED  BY ONLY TypeOK, OwnershipInv, <2>1, <2>2, <2>3, OwnershipReaderFramed
<1> QED
  BY <1>1, <1>2, <1>3, <1>4, OwnershipTakeHead, OwnershipDeliver DEF ReadStep, TakeStep

LEMMA OwnershipRestart ==
  ASSUME TypeOK, OwnershipInv, NewSession \/ ReaderCrash
  PROVE  OwnershipInv'
<1>1. ASSUME ReaderCrash PROVE OwnershipInv'
  <2>1. UNCHANGED <<seq, payload, enq, deq, claimLock, prodVars>>  BY <1>1 DEF ReaderCrash
  <2>2. ~ReaderOwns' /\ rpc' = "idle"  BY <1>1 DEF ReaderCrash, ReaderOwns
  <2> QED  BY ONLY TypeOK, OwnershipInv, <2>1, <2>2, OwnershipReaderFramed
<1>2. ASSUME NewSession PROVE OwnershipInv'
  <2> USE <1>2, CapacityAssumption DEF NewSession, readVars
  <2>1. LockInv' /\ WindowInv'  BY DEF LockInv, HoldsLock, WindowInv
  <2>2. TailInv'
    <3>1. \A t \in Nat : seq'[SlotOf(t)] <= t  BY SlotBelow
    <3> QED  BY <3>1 DEF TailInv
  <2>3. LiveInv' /\ FlightInv' /\ ClaimInv'  BY DEF LiveInv, FlightInv, InFlight, ClaimInv
  <2>4. OwnerInv' /\ DeliveredIntact'  BY DEF OwnerInv, ReaderOwns, DiscardOwns, DeliveredIntact
  <2>5. ReadyInv'  BY DEF ReadyInv
  <2> QED  BY <2>1, <2>2, <2>3, <2>4, <2>5 DEF OwnershipInv
<1> QED  BY <1>1, <1>2

LEMMA OwnershipStep == TypeOK /\ OwnershipInv /\ [Next]_vars => OwnershipInv'
<1> SUFFICES ASSUME TypeOK, OwnershipInv, [Next]_vars PROVE OwnershipInv'  OBVIOUS
<1>1. ASSUME UNCHANGED vars PROVE OwnershipInv'
  BY <1>1 DEF vars, ringVars, prodVars, readVars, OwnershipInv, LockInv, HoldsLock, WindowInv,
              TailInv, LiveInv, FlightInv, InFlight, OwnerInv, ReaderOwns, DiscardOwns, Taken,
              ReadyInv, Ready, ClaimInv, DeliveredIntact
<1>2. ASSUME NEW p \in Producers, StartPublish(p) \/ PublishStep(p) PROVE OwnershipInv'
  BY <1>2, OwnershipQuietProducer, OwnershipAdvance, OwnershipPublish, OwnershipFreeDiscarded,
     OwnershipDiscardHead
     DEF PublishStep, ClaimStep, DiscardStep
<1> QED  BY <1>1, <1>2, OwnershipReader, OwnershipRestart DEF Next

\* A slot has one owner at a time, at every step of every interleaving.
THEOREM Ownership == Spec => []OwnershipInv
<1>1. Init => TypeOK /\ OwnershipInv  BY TypeInit, OwnershipInit
<1>2. TypeOK /\ OwnershipInv /\ [Next]_vars => (TypeOK /\ OwnershipInv)'
  BY TypeStep, OwnershipStep
<1> QED  BY <1>1, <1>2, PTL DEF Spec

\* The copies in and out of the slots never overlap (PoseRing.h's "That
\* ownership is what makes the ordinary DevicePoseSample copy race-free").
THEOREM NoRace == Spec => []NoSlotRace
<1>1. TypeOK /\ OwnershipInv => NoSlotRace
  <2> SUFFICES ASSUME TypeOK, OwnershipInv, NEW p \in Producers, ppc[p] = "copy"
               PROVE  /\ rpc = "copy" => SlotOf(rpos) # SlotOf(tick[p])
                      /\ \A q \in Producers \ {p} :
                           /\ ppc[q] = "copy" => SlotOf(tick[q]) # SlotOf(tick[p])
                           /\ ppc[q] = "count" => SlotOf(dpos[q]) # SlotOf(tick[p])
    BY DEF NoSlotRace
  <2>1. InFlight(p) /\ deq <= tick[p] /\ tick[p] < enq /\ deq <= enq /\ enq <= deq + Capacity
    BY DEF OwnershipInv, FlightInv, InFlight, WindowInv
  <2>2. \A pos \in Nat : Taken(pos) => SlotOf(pos) # SlotOf(tick[p])
    BY <2>1, CoreTypes, SlotDistinct DEF Taken
  <2>3. rpc = "copy" => SlotOf(rpos) # SlotOf(tick[p])
    BY <2>2, CoreTypes DEF OwnershipInv, OwnerInv, ReaderOwns
  <2>4. ASSUME NEW q \in Producers \ {p}, ppc[q] = "count"
        PROVE  SlotOf(dpos[q]) # SlotOf(tick[p])
    BY <2>2, <2>4, CoreTypes DEF OwnershipInv, OwnerInv, DiscardOwns
  <2>5. ASSUME NEW q \in Producers \ {p}, ppc[q] = "copy"
        PROVE  SlotOf(tick[q]) # SlotOf(tick[p])
    <3>1. InFlight(q) /\ deq <= tick[q] /\ tick[q] < enq /\ tick[q] # tick[p]
      BY <2>1, <2>5 DEF OwnershipInv, FlightInv, InFlight
    <3> QED  BY <2>1, <3>1, CoreTypes, SlotsApart
  <2> QED  BY <2>3, <2>4, <2>5
<1> QED  BY <1>1, TypeCorrect, Ownership, PTL

\* What the reader delivers is the whole sample of the position it took.
THEOREM Intact == Spec => []DeliveredIntact
<1>1. OwnershipInv => DeliveredIntact  BY DEF OwnershipInv
<1> QED  BY <1>1, Ownership, PTL

-----------------------------------------------------------------------------
(* Accounting.                                                             *)

\* What the types say of the variables the accounting argument is about.
LEMMA AccountTypes ==
  ASSUME TypeOK
  PROVE  /\ harvestLog \in Seq(Nat) /\ fdb \in [Slots -> Nat]
         /\ pending.gen \in Nat /\ pending.count \in Nat
         /\ rword.gen \in Nat /\ rword.count \in Nat
         /\ rseq \in Nat /\ rlost \in Nat /\ rfail \in Nat /\ obsLoss \in Nat
         /\ discardSeq \in Nat /\ discardedLoss \in Nat /\ leaked \in Nat
         /\ delivered \in Nat /\ lossReported \in Int /\ termTaken \in Nat
         /\ failed \in Nat /\ lastFailAt \in Nat
         /\ rpc \in ReaderStates
         /\ \A p \in Producers : pfail[p] \in Nat
         /\ DOMAIN pfail = Producers
  BY DEF TypeOK, RingTypeOK, ProducerTypeOK, ReaderTypeOK, HistoryTypeOK, DropWords

LEMMA Halves ==
  ASSUME NEW n \in Nat
  PROVE  n % 2 \in {0, 1} /\ (n + 1) % 2 = 1 - (n % 2)
  OBVIOUS

LEMMA HalvesNext ==
  ASSUME NEW n \in Nat, NEW m \in Nat, m = n + 1
  PROVE  (n % 2 = 0 => m % 2 = 1) /\ (n % 2 = 1 => m % 2 = 0)
  BY Halves

\* A producer's step leaves the other producers and the reader alone.
LEMMA OthersStay ==
  ASSUME TypeOK, NEW p \in Producers, StartPublish(p) \/ PublishStep(p)
  PROVE  /\ \A q \in Producers \ {p} :
              ppc'[q] = ppc[q] /\ tick'[q] = tick[q] /\ pfail'[q] = pfail[q] /\ dpos'[q] = dpos[q]
         /\ UNCHANGED <<rpc, rpos, rseq, rlost, rcopy, rfail, rword, obsEpoch, obsLoss>>
         /\ UNCHANGED <<delivered, lossReported, termTaken, epoch, leaked>>
<1> USE DEF TypeOK, ProducerTypeOK, Goto, ringVars, readVars, histVars
<1>1. CASE StartPublish(p)  BY <1>1 DEF StartPublish, AcquireClaimLock, ClaimContended
<1>2. CASE ClaimStep(p)
  BY <1>2 DEF ClaimStep, TailFree, TailFull, HarvestPendingDrops, AdvanceTail, ReleaseAndCopy,
              PublishSlot
<1>3. CASE DiscardStep(p)
  BY <1>3 DEF DiscardStep, LoadOldest, OldestInFlight, OldestGone, OldestReady, OpenDiscard,
              DiscardHead, DiscardLost, CountDiscard, FreeDiscarded, CloseDiscard
<1>4. CASE FailStep(p)
  BY <1>4 DEF FailStep, RecordContended, RecordFull, ReleaseAfterFull, RecordFailedPublish
<1> QED  BY <1>1, <1>2, <1>3, <1>4 DEF PublishStep

\* A reader's step leaves the producers alone.
LEMMA ProducersStay ==
  ASSUME ReadStep
  PROVE  UNCHANGED <<ppc, tick, pfail, dpos, enq, fdb, discardSeq, discardedLoss, claimLock,
                     epoch, leaked, started, failed, lastFailAt, harvestLog>>
<1> USE DEF prodVars, ringVars, histVars
<1>1. CASE BeginDrain  BY <1>1 DEF BeginDrain
<1>2. CASE SnapshotStep
  BY <1>2 DEF SnapshotStep, SnapBegin, SnapDequeue, SnapLoss, SnapMiss, SnapBaseline, SnapAccept,
              ReportLoss
<1>3. CASE TakeStep  BY <1>3 DEF TakeStep, InspectHead, TakeHead, TakeLost, CopyHead, Deliver
<1>4. CASE TerminalStep
  BY <1>4 DEF TerminalStep, LoadEmptyAt, CheckEmpty, LoadPending, RecheckEmpty, TakeTerminalGap,
              TerminalGapLost
<1> QED  BY <1>1, <1>2, <1>3, <1>4 DEF ReadStep

LEMMA AccountInit == Init => AccountInv
<1> SUFFICES ASSUME Init PROVE AccountInv  OBVIOUS
<1> USE CapacityAssumption DEF Init, FreshRing, FreshHistory, NoDrops, ReaderOwns, CarriedBelow
<1>1. MarkerInv  BY DEF MarkerInv
<1>2. ParityInv /\ SnapInv  BY DEF ParityInv, DiscardOpen, SnapInv
<1>3. HeadInv /\ BalanceInv /\ PlacedInv  BY DEF HeadInv, BalanceInv, Settled, PlacedInv
<1>4. FailedInv /\ TerminalInv  BY DEF FailedInv, TerminalInv
<1> QED  BY <1>1, <1>2, <1>3, <1>4 DEF AccountInv

-----------------------------------------------------------------------------
(* The discard sequence and the reader's snapshot.                         *)

LEMMA ParityProducer ==
  ASSUME TypeOK, LockInv, ParityInv, NEW p \in Producers, StartPublish(p) \/ PublishStep(p)
  PROVE  ParityInv'
<1>1. \A q \in Producers \ {p} : ppc'[q] = ppc[q]  BY OthersStay
<1>2. \/ discardSeq' = discardSeq /\ (DiscardOpen(p)' <=> DiscardOpen(p))
      \/ ppc[p] = "open" /\ DiscardOpen(p)' /\ discardSeq' = discardSeq + 1
      \/ DiscardOpen(p) /\ ~DiscardOpen(p)' /\ discardSeq' = discardSeq + 1
  <2> USE DEF DiscardOpen, TypeOK, ProducerTypeOK, Goto, ringVars
  <2>1. CASE StartPublish(p)  BY <2>1 DEF StartPublish, AcquireClaimLock, ClaimContended
  <2>2. CASE ClaimStep(p)
    BY <2>2 DEF ClaimStep, TailFree, TailFull, HarvestPendingDrops, AdvanceTail, ReleaseAndCopy,
                PublishSlot
  <2>3. CASE DiscardStep(p)
    BY <2>3 DEF DiscardStep, LoadOldest, OldestInFlight, OldestGone, OldestReady, OpenDiscard,
                DiscardHead, DiscardLost, CountDiscard, FreeDiscarded, CloseDiscard
  <2>4. CASE FailStep(p)
    BY <2>4 DEF FailStep, RecordContended, RecordFull, ReleaseAfterFull
  <2> QED  BY <2>1, <2>2, <2>3, <2>4 DEF PublishStep
<1>3. ppc[p] = "open" \/ DiscardOpen(p) => \A q \in Producers : DiscardOpen(q) => q = p
  BY DEF LockInv, HoldsLock, DiscardOpen
<1>4. discardSeq % 2 \in {0, 1} /\ (discardSeq + 1) % 2 = 1 - (discardSeq % 2)
  BY AccountTypes, Halves
<1>5. CASE discardSeq' = discardSeq /\ (DiscardOpen(p)' <=> DiscardOpen(p))
  BY <1>1, <1>5 DEF ParityInv, DiscardOpen
<1>6. CASE ppc[p] = "open" /\ DiscardOpen(p)' /\ discardSeq' = discardSeq + 1
  <2>1. ~ \E q \in Producers : DiscardOpen(q)  BY <1>3, <1>6 DEF DiscardOpen
  <2>2. discardSeq % 2 = 0  BY <1>4, <2>1 DEF ParityInv
  <2>3. discardSeq' = discardSeq + 1  BY <1>6
  <2>4. discardSeq \in Nat  BY AccountTypes
  <2>5. discardSeq' \in Nat  BY ONLY <2>3, <2>4
  <2>6. discardSeq' % 2 = 1  BY ONLY <2>2, <2>3, <2>4, <2>5, HalvesNext, Zenon
  <2> QED  BY <1>6, <2>6 DEF ParityInv
<1>7. CASE DiscardOpen(p) /\ ~DiscardOpen(p)' /\ discardSeq' = discardSeq + 1
  <2>1. ~ \E q \in Producers : DiscardOpen(q)'  BY <1>1, <1>3, <1>7 DEF DiscardOpen
  <2>2. discardSeq % 2 = 1  BY <1>7 DEF ParityInv
  <2>3. discardSeq' = discardSeq + 1  BY <1>7
  <2>4. discardSeq \in Nat  BY AccountTypes
  <2>5. discardSeq' \in Nat  BY ONLY <2>3, <2>4
  <2>6. discardSeq' % 2 = 0  BY ONLY <2>2, <2>3, <2>4, <2>5, HalvesNext, Zenon
  <2> QED  BY <2>1, <2>6 DEF ParityInv
<1> QED  BY <1>2, <1>5, <1>6, <1>7

\* A producer moves the head and the count of losses only with a discard
\* open, and opening one takes the sequence further.
LEMMA SnapProducer ==
  ASSUME TypeOK, ParityInv, SnapInv, NEW p \in Producers, StartPublish(p) \/ PublishStep(p)
  PROVE  SnapInv'
<1>1. UNCHANGED <<rpc, rpos, rseq, rlost>>  BY OthersStay
<1>2. \/ discardSeq' = discardSeq /\ UNCHANGED <<deq, discardedLoss>>
      \/ discardSeq' = discardSeq /\ DiscardOpen(p)
      \/ discardSeq' = discardSeq + 1
  <2> USE DEF DiscardOpen, Goto, ringVars
  <2>1. CASE StartPublish(p)  BY <2>1 DEF StartPublish, AcquireClaimLock, ClaimContended
  <2>2. CASE ClaimStep(p)
    BY <2>2 DEF ClaimStep, TailFree, TailFull, HarvestPendingDrops, AdvanceTail, ReleaseAndCopy,
                PublishSlot
  <2>3. CASE DiscardStep(p)
    BY <2>3 DEF DiscardStep, LoadOldest, OldestInFlight, OldestGone, OldestReady, OpenDiscard,
                DiscardHead, DiscardLost, CountDiscard, FreeDiscarded, CloseDiscard
  <2>4. CASE FailStep(p)
    BY <2>4 DEF FailStep, RecordContended, RecordFull, ReleaseAfterFull
  <2> QED  BY <2>1, <2>2, <2>3, <2>4 DEF PublishStep
<1>3. CASE discardSeq' = discardSeq /\ UNCHANGED <<deq, discardedLoss>>
  BY <1>1, <1>3 DEF SnapInv
<1>4. CASE discardSeq' = discardSeq /\ DiscardOpen(p)
  <2>1. discardSeq % 2 = 1  BY <1>4 DEF ParityInv
  <2>2. rpc \in {"snapDeq", "snapLoss", "snapAfter"} => discardSeq # rseq  BY <2>1 DEF SnapInv
  <2> QED  BY <1>1, <1>4, <2>2 DEF SnapInv
<1>5. CASE discardSeq' = discardSeq + 1
  <2>1. rpc \in {"snapDeq", "snapLoss", "snapAfter"} => rseq < discardSeq'
    BY <1>5, AccountTypes DEF SnapInv
  <2>2. rpc \in {"snapDeq", "snapLoss", "snapAfter"} => rseq % 2 = 0  BY DEF SnapInv
  <2>3. rseq' = rseq /\ rpc' = rpc  BY <1>1
  <2>4. rpc' \in {"snapDeq", "snapLoss", "snapAfter"} => rseq' <= discardSeq' /\ discardSeq' # rseq'
    <3>1. rseq \in Nat /\ discardSeq \in Nat  BY AccountTypes
    <3>2. discardSeq' \in Nat  BY ONLY <1>5, <3>1
    <3>3. rpc \in {"snapDeq", "snapLoss", "snapAfter"} => rseq <= discardSeq' /\ discardSeq' # rseq
      BY ONLY <2>1, <3>1, <3>2
    <3> QED  BY ONLY <2>3, <3>3
  <2>5. rpc' \in {"snapDeq", "snapLoss", "snapAfter"} => rseq' % 2 = 0
    BY ONLY <2>2, <2>3, Zenon
  <2>6. rpc' \in {"snapLoss", "snapAfter"} /\ discardSeq' = rseq' => rpos' = deq'
    BY ONLY <2>4
  <2>7. rpc' = "snapAfter" /\ discardSeq' = rseq' => rlost' = discardedLoss'
    BY ONLY <2>4
  <2>8. rpc' \in {"snapDeq", "snapLoss", "snapAfter"} => rseq' <= discardSeq'
    BY ONLY <2>4
  <2> QED  BY ONLY <2>5, <2>6, <2>7, <2>8, Zenon DEF SnapInv
<1> QED  BY <1>2, <1>3, <1>4, <1>5

LEMMA SnapReader ==
  ASSUME TypeOK, ParityInv, SnapInv, ReadStep
  PROVE  SnapInv' /\ ParityInv'
<1>1. UNCHANGED <<ppc, discardSeq, discardedLoss>>  BY ProducersStay
<1>2. ParityInv'  BY <1>1 DEF ParityInv, DiscardOpen
<1>3. ASSUME SnapBegin \/ SnapDequeue \/ SnapLoss PROVE SnapInv'
  <2> USE DEF RGoto, SnapInv, ringVars
  <2>1. CASE SnapBegin  BY <2>1, AccountTypes DEF SnapBegin
  <2>2. CASE SnapDequeue  BY <2>2, AccountTypes DEF SnapDequeue
  <2>3. CASE SnapLoss  BY <2>3, AccountTypes DEF SnapLoss
  <2> QED  BY <1>3, <2>1, <2>2, <2>3
<1>4. rpc' \notin {"snapDeq", "snapLoss", "snapAfter"} => SnapInv'  BY DEF SnapInv
<1>5. rpc' \notin {"snapDeq", "snapLoss", "snapAfter"} \/ SnapBegin \/ SnapDequeue \/ SnapLoss
  <2> USE DEF RGoto
  <2>1. CASE BeginDrain  BY <2>1 DEF BeginDrain
  <2>2. CASE SnapshotStep
    BY <2>2 DEF SnapshotStep, SnapMiss, SnapBaseline, SnapAccept
  <2>3. CASE TakeStep  BY <2>3 DEF TakeStep, InspectHead, TakeHead, TakeLost, CopyHead, Deliver
  <2>4. CASE TerminalStep
    BY <2>4 DEF TerminalStep, LoadEmptyAt, CheckEmpty, LoadPending, RecheckEmpty, TakeTerminalGap,
                TerminalGapLost
  <2> QED  BY <2>1, <2>2, <2>3, <2>4 DEF ReadStep
<1> QED  BY <1>2, <1>3, <1>4, <1>5
-----------------------------------------------------------------------------
(* Markers.                                                                *)

LEMMA CarriedTypes ==
  ASSUME TypeOK, MarkerInv
  PROVE  /\ Len(harvestLog) = enq
         /\ \A t \in 0 .. enq : CarriedBelow(t) \in Nat
         /\ HarvestedSoFar = CarriedBelow(enq)
<1>1. Len(harvestLog) = enq /\ harvestLog \in Seq(Nat) /\ enq \in Nat
  BY AccountTypes, CoreTypes DEF MarkerInv
<1>2. \A t \in 0 .. enq : CarriedBelow(t) \in Nat  BY <1>1 DEF CarriedBelow
<1>3. CASE enq = 0  BY <1>1, <1>3 DEF HarvestedSoFar, CarriedBelow
<1>4. CASE enq # 0  BY <1>1, <1>4 DEF HarvestedSoFar, CarriedBelow
<1> QED  BY <1>1, <1>2, <1>3, <1>4

\* A claim adds its own failures after the last entry and changes no other.
LEMMA CarriedAppend ==
  ASSUME TypeOK, MarkerInv, NEW p \in Producers, AdvanceTail(p), NEW n \in Nat, n = enq
  PROVE  /\ Len(harvestLog') = n + 1
         /\ \A t \in 0 .. n : CarriedBelow(t)' = CarriedBelow(t)
         /\ CarriedBelow(n + 1)' = CarriedBelow(n) + pfail[p]
<1>1. PICK h \in Nat : h = HarvestedSoFar + pfail[p]
  <2>1. HarvestedSoFar = CarriedBelow(n) /\ CarriedBelow(n) \in Nat  BY CarriedTypes
  <2>2. pfail[p] \in Nat  BY AccountTypes
  <2> QED  BY <2>1, <2>2
<1>2. Len(harvestLog) = n /\ harvestLog \in Seq(Nat) /\ h = CarriedBelow(n) + pfail[p]
  BY <1>1, CarriedTypes, AccountTypes
<1>3. harvestLog' = Append(harvestLog, h)  BY <1>1 DEF AdvanceTail
<1>4. Len(harvestLog') = n + 1 /\ harvestLog'[n + 1] = h
      /\ \A t \in 1 .. n : harvestLog'[t] = harvestLog[t]
  BY <1>2, <1>3
<1>5. \A t \in 0 .. n : CarriedBelow(t)' = CarriedBelow(t)  BY <1>4 DEF CarriedBelow
<1>6. CarriedBelow(n + 1)' = h  BY <1>4 DEF CarriedBelow
<1> QED  BY <1>2, <1>4, <1>5, <1>6

LEMMA MarkerFramed ==
  ASSUME MarkerInv, UNCHANGED <<fdb, enq, deq, harvestLog>>,
         \A q \in Producers :
           /\ ppc'[q] = "release" <=> ppc[q] = "release"
           /\ ppc[q] = "release" => tick'[q] = tick[q] /\ pfail'[q] = pfail[q]
           /\ ppc'[q] = "count" => ppc[q] = "count" /\ dpos'[q] = dpos[q],
         ReaderOwns' => ReaderOwns /\ rpos' = rpos,
         rpc' = "release" => rfail' = CarriedBy(rpos')
  PROVE  MarkerInv'
<1>1. \A t : CarriedBelow(t)' = CarriedBelow(t)  BY DEF CarriedBelow
<1>2. \A t : CarriedBy(t)' = CarriedBy(t)  BY DEF CarriedBelow, CarriedBy
<1>3. \A t : Marked(t)' <=> Marked(t)  BY <1>2 DEF Marked
<1>4. (Len(harvestLog) = enq)'  BY DEF MarkerInv
<1>5. ASSUME NEW t \in deq' .. enq' - 1, \A q \in Producers : ppc'[q] = "release" => tick'[q] # t
      PROVE  Marked(t)'
  <2>1. \A q \in Producers : ppc[q] = "release" => tick[q] # t  BY <1>5
  <2> QED  BY <1>3, <2>1 DEF MarkerInv
<1>6. \A q \in Producers : ppc'[q] = "release" => pfail'[q] = CarriedBy(tick[q])'
  BY <1>2 DEF MarkerInv
<1>7. ReaderOwns' => Marked(rpos)'  BY <1>3 DEF MarkerInv
<1>8. rpc' = "release" => rfail' = CarriedBy(rpos)'  BY DEF CarriedBy, CarriedBelow
<1>9. \A q \in Producers : ppc'[q] = "count" => Marked(dpos[q])'  BY <1>3 DEF MarkerInv
<1> QED  BY <1>4, <1>5, <1>6, <1>7, <1>8, <1>9 DEF MarkerInv

LEMMA MarkerAdvance ==
  ASSUME TypeOK, OwnershipInv, MarkerInv, NEW p \in Producers, AdvanceTail(p)
  PROVE  MarkerInv'
<1>1. PICK n \in Nat : n = enq  BY CoreTypes
<1>2. /\ UNCHANGED <<fdb, deq, rpc, rpos, rfail, dpos, pfail>>
      /\ enq' = n + 1 /\ tick'[p] = n
      /\ ppc[p] = "advance" /\ ppc'[p] = "release"
      /\ \A q \in Producers \ {p} : ppc'[q] = ppc[q] /\ tick'[q] = tick[q]
  BY <1>1, CoreTypes DEF AdvanceTail, Goto, readVars
<1>3. /\ Len(harvestLog') = n + 1
      /\ \A t \in 0 .. n : CarriedBelow(t)' = CarriedBelow(t)
      /\ CarriedBelow(n + 1)' = CarriedBelow(n) + pfail[p]
      /\ \A t \in 0 .. n : CarriedBelow(t) \in Nat
  BY <1>1, CarriedAppend, CarriedTypes
<1>4. \A t \in 0 .. n - 1 : CarriedBy(t)' = CarriedBy(t) /\ (Marked(t)' <=> Marked(t))
  BY <1>2, <1>3 DEF CarriedBy, Marked
<1>5. CarriedBy(n)' = pfail[p]
  <2>1. pfail[p] \in Nat  BY AccountTypes
  <2> QED  BY <1>3, <2>1 DEF CarriedBy
<1>6. \A q \in Producers : ppc[q] # "release" /\ ppc[q] # "count"
  BY <1>2 DEF OwnershipInv, LockInv, HoldsLock
<1>7. ASSUME NEW t \in deq .. n, \A q \in Producers : ppc'[q] = "release" => tick'[q] # t
      PROVE  Marked(t)'
  <2>1. t \in 0 .. n - 1 /\ t \in deq .. n - 1  BY <1>2, <1>7, CoreTypes
  <2>2. Marked(t)  BY <1>1, <1>6, <2>1 DEF MarkerInv
  <2> QED  BY <1>4, <2>1, <2>2
<1>8. \A q \in Producers : ppc'[q] = "release" => q = p  BY <1>2, <1>6
<1>9. ReaderOwns => rpos \in 0 .. n - 1
  BY <1>1, CoreTypes DEF OwnershipInv, OwnerInv, Taken, WindowInv
<1>10. ReaderOwns' => Marked(rpos)'
  <2>1. ReaderOwns' => ReaderOwns /\ Marked(rpos)  BY <1>2 DEF ReaderOwns, MarkerInv
  <2>2. PICK t : t = rpos  OBVIOUS
  <2> QED  BY <1>2, <1>4, <1>9, <2>1, <2>2 DEF Marked
<1>11. rpc' = "release" => rfail' = CarriedBy(rpos)'
  <2>1. rpc' = "release" => ReaderOwns /\ rfail = CarriedBy(rpos)
    BY <1>2 DEF ReaderOwns, MarkerInv
  <2>2. PICK t : t = rpos  OBVIOUS
  <2> QED  BY <1>2, <1>4, <1>9, <2>1, <2>2 DEF CarriedBy, CarriedBelow
<1>12. pfail'[p] = CarriedBy(tick[p])'  BY <1>2, <1>5
<1>13. \A q \in Producers : ppc'[q] = "count" => FALSE  BY <1>2, <1>6
<1> QED  BY <1>2, <1>3, <1>7, <1>8, <1>10, <1>11, <1>12, <1>13 DEF MarkerInv

LEMMA MarkerRelease ==
  ASSUME TypeOK, OwnershipInv, MarkerInv, NEW p \in Producers, ReleaseAndCopy(p)
  PROVE  MarkerInv'
<1>1. PICK x \in Nat : x = tick[p]  BY CoreTypes
<1>2. /\ UNCHANGED <<enq, deq, harvestLog, rpc, rpos, rfail, dpos, pfail, tick>>
      /\ fdb' = [fdb EXCEPT ![SlotOf(x)] = pfail[p]]
      /\ ppc[p] = "release" /\ ppc'[p] = "copy"
      /\ \A q \in Producers \ {p} : ppc'[q] = ppc[q]
  BY <1>1, CoreTypes DEF ReleaseAndCopy, Goto, readVars, histVars
<1>3. /\ deq <= x /\ x < enq /\ enq <= deq + Capacity
      /\ pfail[p] = CarriedBy(x)
      /\ \A q \in Producers \ {p} : ppc[q] # "release" /\ ppc[q] # "count"
  BY <1>1, <1>2 DEF OwnershipInv, LockInv, HoldsLock, FlightInv, InFlight, WindowInv, MarkerInv
<1>4. \A t : CarriedBy(t)' = CarriedBy(t)  BY <1>2 DEF CarriedBelow, CarriedBy
<1>5. \A t \in Nat : t # x /\ t < x + Capacity /\ x < t + Capacity =>
        fdb'[SlotOf(t)] = fdb[SlotOf(t)]
  BY <1>2, SlotsApart, SlotInRange, AccountTypes
<1>6. fdb'[SlotOf(x)] = pfail[p]  BY <1>2, SlotInRange, AccountTypes
<1>7. ASSUME NEW t \in deq .. enq - 1, \A q \in Producers : ppc'[q] = "release" => tick[q] # t
      PROVE  Marked(t)'
  <2>1. CASE t = x  BY <1>3, <1>4, <1>6, <2>1 DEF Marked
  <2>2. CASE t # x
    <3>1. Marked(t)  BY <1>1, <1>2, <1>3, <1>7, <2>2 DEF MarkerInv
    <3>2. fdb'[SlotOf(t)] = fdb[SlotOf(t)]  BY <1>3, <1>5, <2>2, CoreTypes
    <3> QED  BY <1>4, <3>1, <3>2 DEF Marked
  <2> QED  BY <2>1, <2>2
<1>8. ReaderOwns' => Marked(rpos)'
  <2>1. PICK t \in Nat : t = rpos  BY CoreTypes
  <2>2. ReaderOwns' => ReaderOwns  BY <1>2 DEF ReaderOwns
  <2>3. ReaderOwns => t < deq /\ enq <= t + Capacity /\ Marked(t)
    BY <2>1 DEF OwnershipInv, OwnerInv, Taken, MarkerInv
  <2>4. ReaderOwns => fdb'[SlotOf(t)] = fdb[SlotOf(t)]  BY <1>3, <1>5, <2>3, CoreTypes
  <2>5. ReaderOwns' => Marked(t)'  BY <1>4, <2>2, <2>3, <2>4 DEF Marked
  <2> QED  BY <1>2, <2>1, <2>5 DEF Marked
<1>9. rpc' = "release" => rfail' = CarriedBy(rpos)'
  BY <1>2 DEF MarkerInv, CarriedBy, CarriedBelow
<1>10. (Len(harvestLog) = enq)'  BY <1>2 DEF MarkerInv
<1>11. \A q \in Producers : ppc'[q] # "release" /\ ppc'[q] # "count"  BY <1>2, <1>3
<1> QED  BY <1>2, <1>7, <1>8, <1>9, <1>10, <1>11 DEF MarkerInv

\* The head, once complete, bears its mark.
LEMMA HeadMarked ==
  ASSUME TypeOK, OwnershipInv, MarkerInv, NEW h \in Nat, deq = h, Ready(h)
  PROVE  Marked(h)
<1>1. h < enq /\ seq[SlotOf(h)] = h + 1  BY DEF Ready
<1>2. \A q \in Producers : ppc[q] = "release" => tick[q] # h
  BY <1>1 DEF OwnershipInv, FlightInv, InFlight
<1> QED  BY <1>1, <1>2, CoreTypes DEF MarkerInv

\* Taking the head leaves the rest of the queue marked.
LEMMA MarkerHeadTaken ==
  ASSUME TypeOK, OwnershipInv, MarkerInv, NEW h \in Nat, deq = h, deq' = h + 1,
         UNCHANGED <<fdb, enq, harvestLog, tick, pfail, dpos, rpos>>,
         \A q \in Producers : ppc'[q] = "release" <=> ppc[q] = "release",
         \A q \in Producers : ppc'[q] = "count" => Marked(dpos[q]),
         ReaderOwns' => Marked(rpos),
         rpc' = "release" => rfail' = CarriedBy(rpos)
  PROVE  MarkerInv'
<1>1. \A t : CarriedBy(t)' = CarriedBy(t)  BY DEF CarriedBelow, CarriedBy
<1>2. \A t : Marked(t)' <=> Marked(t)  BY <1>1 DEF Marked
<1>3. ASSUME NEW t \in deq' .. enq' - 1, \A q \in Producers : ppc'[q] = "release" => tick'[q] # t
      PROVE  Marked(t)'
  <2>1. \A q \in Producers : ppc[q] = "release" => tick[q] # t  BY <1>3
  <2>2. t \in deq .. enq - 1  BY CoreTypes
  <2> QED  BY <1>2, <2>1, <2>2 DEF MarkerInv
<1>4. \A q \in Producers : ppc'[q] = "release" => pfail'[q] = CarriedBy(tick[q])'
  BY <1>1 DEF MarkerInv
<1>5. ReaderOwns' => Marked(rpos)'  BY <1>2
<1>6. rpc' = "release" => rfail' = CarriedBy(rpos)'  BY DEF CarriedBy, CarriedBelow
<1>7. \A q \in Producers : ppc'[q] = "count" => Marked(dpos[q])'  BY <1>2
<1>8. (Len(harvestLog) = enq)'  BY DEF MarkerInv
<1> QED  BY <1>3, <1>4, <1>5, <1>6, <1>7, <1>8 DEF MarkerInv

LEMMA MarkerProducer ==
  ASSUME TypeOK, OwnershipInv, MarkerInv, NEW p \in Producers, StartPublish(p) \/ PublishStep(p)
  PROVE  MarkerInv'
<1>1. \A q \in Producers \ {p} :
        ppc'[q] = ppc[q] /\ tick'[q] = tick[q] /\ pfail'[q] = pfail[q] /\ dpos'[q] = dpos[q]
  BY OthersStay
<1>2. UNCHANGED <<rpc, rpos, rfail>>  BY OthersStay
<1>3. rpc' = "release" => rfail' = CarriedBy(rpos')
  BY <1>2 DEF MarkerInv, CarriedBy, CarriedBelow
<1>4. ASSUME UNCHANGED <<fdb, enq, deq, harvestLog>>,
             ppc[p] # "release" /\ ppc'[p] # "release" /\ ppc'[p] # "count"
      PROVE  MarkerInv'
  BY <1>1, <1>2, <1>3, <1>4, MarkerFramed DEF ReaderOwns
<1>5. CASE DiscardHead(p)
  <2>1. PICK h \in Nat : h = dpos[p]  BY CoreTypes
  <2>2. /\ deq = h /\ deq' = h + 1 /\ Ready(h)
        /\ UNCHANGED <<fdb, enq, harvestLog, tick, pfail, dpos, rpos>>
        /\ ppc[p] = "discard" /\ ppc'[p] = "count"
    BY <1>5, <2>1, CoreTypes
       DEF DiscardHead, Goto, readVars, histVars, OwnershipInv, ReadyInv
  <2>3. Marked(dpos[p])  BY <2>1, <2>2, HeadMarked
  <2>4. \A q \in Producers : ppc'[q] = "release" <=> ppc[q] = "release"  BY <1>1, <2>2
  <2>5. \A q \in Producers : ppc'[q] = "count" => Marked(dpos[q])
    BY <1>1, <2>3 DEF MarkerInv
  <2>6. ReaderOwns' => Marked(rpos)  BY <1>2 DEF MarkerInv, ReaderOwns
  <2> QED  BY <1>2, <1>3, <2>2, <2>4, <2>5, <2>6, MarkerHeadTaken
<1>6. CASE \/ StartPublish(p) \/ FailStep(p)
           \/ TailFree(p) \/ TailFull(p) \/ HarvestPendingDrops(p) \/ PublishSlot(p)
           \/ LoadOldest(p) \/ OldestInFlight(p) \/ OldestGone(p) \/ OldestReady(p)
           \/ OpenDiscard(p) \/ DiscardLost(p) \/ CountDiscard(p) \/ FreeDiscarded(p)
           \/ CloseDiscard(p)
  <2>1. UNCHANGED <<fdb, enq, deq, harvestLog>>
    BY <1>6 DEF StartPublish, AcquireClaimLock, ClaimContended, FailStep, RecordContended,
       RecordFull, ReleaseAfterFull, RecordFailedPublish, TailFree, TailFull,
       HarvestPendingDrops, PublishSlot, LoadOldest, OldestInFlight, OldestGone, OldestReady,
       OpenDiscard, DiscardLost, CountDiscard, FreeDiscarded, CloseDiscard, ringVars, histVars
  <2>2. ppc[p] # "release" /\ ppc'[p] # "release" /\ ppc'[p] # "count"
    BY <1>6, CoreTypes
       DEF StartPublish, AcquireClaimLock, ClaimContended, FailStep, RecordContended,
       RecordFull, ReleaseAfterFull, TailFree, TailFull,
       HarvestPendingDrops, PublishSlot, LoadOldest, OldestInFlight, OldestGone, OldestReady,
       OpenDiscard, DiscardLost, CountDiscard, FreeDiscarded, CloseDiscard, Goto
  <2> QED  BY <1>4, <2>1, <2>2
<1> QED
  BY <1>5, <1>6, MarkerAdvance, MarkerRelease DEF PublishStep, ClaimStep, DiscardStep

LEMMA MarkerReader ==
  ASSUME TypeOK, OwnershipInv, MarkerInv, ReadStep
  PROVE  MarkerInv'
<1>1. UNCHANGED <<ppc, tick, pfail, dpos, enq, fdb, harvestLog>>  BY ProducersStay
<1>2. CASE TakeHead
  <2>1. PICK h \in Nat : h = rpos  BY CoreTypes
  <2>2. /\ deq = h /\ deq' = h + 1 /\ Ready(h)
        /\ UNCHANGED rpos /\ rpc' = "copy"
    BY <1>2, <2>1 DEF TakeHead, RGoto, OwnershipInv, ReadyInv
  <2>3. Marked(rpos)  BY <2>1, <2>2, HeadMarked
  <2>4. \A q \in Producers : ppc'[q] = "count" => Marked(dpos[q])  BY <1>1 DEF MarkerInv
  <2> QED  BY <1>1, <2>2, <2>3, <2>4, MarkerHeadTaken
<1>3. CASE CopyHead
  <2>1. /\ UNCHANGED <<deq, rpos>> /\ ReaderOwns /\ rpc' = "release"
        /\ rfail' = fdb[SlotOf(rpos)]
    BY <1>3 DEF CopyHead, RGoto, ringVars, ReaderOwns
  <2>2. rfail' = CarriedBy(rpos')  BY <2>1 DEF MarkerInv, Marked
  <2> QED  BY <1>1, <2>1, <2>2, MarkerFramed
<1>4. CASE BeginDrain \/ SnapshotStep \/ InspectHead \/ TakeLost \/ Deliver \/ TerminalStep
  <2>1. UNCHANGED deq
    BY <1>4 DEF BeginDrain, SnapshotStep, SnapBegin, SnapDequeue, SnapLoss, SnapMiss,
       SnapBaseline, SnapAccept, InspectHead, TakeLost, Deliver, TerminalStep, LoadEmptyAt,
       CheckEmpty, LoadPending, RecheckEmpty, TakeTerminalGap, TerminalGapLost, ringVars
  <2>2. ~ReaderOwns' /\ rpc' # "release"
    BY <1>4 DEF BeginDrain, SnapshotStep, SnapBegin, SnapDequeue, SnapLoss, SnapMiss,
       SnapBaseline, SnapAccept, InspectHead, TakeLost, Deliver, TerminalStep, LoadEmptyAt,
       CheckEmpty, LoadPending, RecheckEmpty, TakeTerminalGap, TerminalGapLost, RGoto,
       ReaderOwns
  <2> QED  BY <1>1, <2>1, <2>2, MarkerFramed
<1> QED  BY <1>2, <1>3, <1>4 DEF ReadStep, TakeStep

-----------------------------------------------------------------------------
(* Head, balance, place, failures, terminal gap.                           *)

BooksInv == HeadInv /\ BalanceInv /\ PlacedInv /\ FailedInv /\ TerminalInv

\* A producer's step that moves no position, counts nothing and neither
\* enters nor leaves the two windows the books have an entry for.
LEMMA BooksFramed ==
  ASSUME BooksInv,
         UNCHANGED <<enq, deq, discardedLoss, harvestLog, pending, failed, lastFailAt, delivered,
                     lossReported, termTaken, epoch, leaked, rpc, rpos, rword, obsEpoch, obsLoss>>,
         \A q \in Producers :
           /\ ppc'[q] = "count" <=> ppc[q] = "count"
           /\ ppc[q] = "count" => dpos'[q] = dpos[q]
           /\ ppc'[q] = "advance" <=> ppc[q] = "advance"
           /\ ppc[q] = "advance" => pfail'[q] = pfail[q]
  PROVE  BooksInv'
<1> USE DEF BooksInv
<1>1. \A t : CarriedBelow(t)' = CarriedBelow(t) /\ CarriedBy(t)' = CarriedBy(t)
  BY DEF CarriedBelow, CarriedBy
<1>2. HeadInv'  BY DEF HeadInv
<1>3. (ReaderOwns' <=> ReaderOwns) /\ Settled' = Settled
  BY DEF ReaderOwns, Settled, CarriedBelow, CarriedBy
<1>4. BalanceInv'  BY <1>1, <1>3 DEF BalanceInv
<1>5. PlacedInv'  BY <1>1, <1>3 DEF PlacedInv
<1>6. FailedInv'  BY <1>1 DEF FailedInv
<1>7. TerminalInv'  BY DEF TerminalInv, Passed
<1> QED  BY <1>2, <1>4, <1>5, <1>6, <1>7

\* What a producer does to the books, one case at a time.
LEMMA BooksAdvance ==
  ASSUME TypeOK, OwnershipInv, MarkerInv, BooksInv, NEW p \in Producers, AdvanceTail(p)
  PROVE  BooksInv'
<1> USE DEF BooksInv
<1>1. PICK n \in Nat : n = enq  BY CoreTypes
<1>2. /\ UNCHANGED <<deq, discardedLoss, pending, failed, lastFailAt, delivered, lossReported,
                     termTaken, epoch, leaked, rpc, rpos, rword, obsEpoch, obsLoss, dpos, pfail>>
      /\ enq' = n + 1 /\ ppc[p] = "advance" /\ ppc'[p] = "release"
      /\ \A q \in Producers \ {p} : ppc'[q] = ppc[q]
  BY <1>1, CoreTypes DEF AdvanceTail, Goto, readVars
<1>3. /\ \A t \in 0 .. n : CarriedBelow(t)' = CarriedBelow(t) /\ CarriedBelow(t) \in Nat
      /\ CarriedBelow(n + 1)' = CarriedBelow(n) + pfail[p]
  BY <1>1, CarriedAppend, CarriedTypes
<1>4. \A q \in Producers : ppc[q] # "count" /\ (ppc[q] = "advance" => q = p)
  BY <1>2 DEF OwnershipInv, LockInv, HoldsLock
<1>5. \A q \in Producers : ppc'[q] # "count" /\ ppc'[q] # "advance"  BY <1>2, <1>4
<1>6. PICK d \in Nat, r \in Nat : d = deq /\ r = rpos  BY CoreTypes
<1>7. d <= n /\ (ReaderOwns => r < d)
  BY <1>1, <1>6 DEF OwnershipInv, WindowInv, OwnerInv, Taken
<1>8. HeadInv'  BY <1>2, <1>5 DEF HeadInv
<1>9. ReaderOwns' <=> ReaderOwns  BY <1>2 DEF ReaderOwns
<1>10. CarriedBelow(d)' = CarriedBelow(d)  BY <1>3, <1>7
<1>11. ReaderOwns => CarriedBelow(r)' = CarriedBelow(r) /\ CarriedBy(r)' = CarriedBy(r)
  BY <1>3, <1>7 DEF CarriedBy
<1>12. /\ ReaderOwns => CarriedBelow(rpos)' = CarriedBelow(rpos)
       /\ ReaderOwns => CarriedBy(rpos)' = CarriedBy(rpos)
       /\ CarriedBelow(deq)' = CarriedBelow(deq)
  BY <1>2, <1>6, <1>10, <1>11 DEF CarriedBelow, CarriedBy
<1>13. Settled' = Settled  BY <1>2, <1>9, <1>12 DEF Settled
<1>14. BalanceInv'  BY <1>2, <1>4, <1>5, <1>12, <1>13 DEF BalanceInv
<1>15. PlacedInv'  BY <1>2, <1>9, <1>12 DEF PlacedInv
<1>16. FailedInv'
  <2>1. failed = CarriedBelow(n) + pfail[p] + pending.count + termTaken
    BY <1>1, <1>2 DEF FailedInv
  <2>2. CarriedBelow(enq)' = CarriedBelow(n) + pfail[p]
    BY <1>2, <1>3 DEF CarriedBelow
  <2>3. (failed = CarriedBelow(enq) + pending.count + termTaken)'
    BY <1>2, <2>1, <2>2, AccountTypes
  <2> QED  BY <1>5, <2>3 DEF FailedInv
<1>17. TerminalInv'  BY <1>1, <1>2, AccountTypes DEF TerminalInv, Passed
<1> QED  BY <1>8, <1>14, <1>15, <1>16, <1>17

LEMMA BooksHarvest ==
  ASSUME TypeOK, OwnershipInv, MarkerInv, BooksInv, NEW p \in Producers, HarvestPendingDrops(p)
  PROVE  BooksInv'
<1> USE DEF BooksInv
<1>1. /\ UNCHANGED <<enq, deq, discardedLoss, harvestLog, failed, lastFailAt, delivered,
                     lossReported, termTaken, epoch, leaked, rpc, rpos, rword, obsEpoch, obsLoss,
                     dpos>>
      /\ ppc[p] = "harvest" /\ ppc'[p] = "advance"
      /\ \A q \in Producers \ {p} : ppc'[q] = ppc[q] /\ pfail'[q] = pfail[q]
      /\ pfail'[p] = pending.count
      /\ pending'.gen = pending.gen + 1 /\ pending'.count = 0
  BY CoreTypes, AccountTypes
     DEF HarvestPendingDrops, Goto, readVars, histVars, AfterHarvest
<1>2. \A t : CarriedBelow(t)' = CarriedBelow(t) /\ CarriedBy(t)' = CarriedBy(t)
  BY <1>1 DEF CarriedBelow, CarriedBy
<1>3. \A q \in Producers : ppc[q] # "count" /\ ppc[q] # "advance"
  BY <1>1 DEF OwnershipInv, LockInv, HoldsLock
<1>4. \A q \in Producers : ppc'[q] # "count" /\ (ppc'[q] = "advance" => q = p)  BY <1>1, <1>3
<1>5. HeadInv'  BY <1>1, <1>4 DEF HeadInv
<1>6. (ReaderOwns' <=> ReaderOwns) /\ Settled' = Settled
  BY <1>1 DEF ReaderOwns, Settled, CarriedBelow, CarriedBy
<1>7. BalanceInv'  BY <1>1, <1>2, <1>3, <1>4, <1>6 DEF BalanceInv
<1>8. PlacedInv'  BY <1>1, <1>2, <1>6 DEF PlacedInv
<1>9. FailedInv'
  <2>1. PICK e \in Nat : e = CarriedBelow(enq)
    BY CarriedTypes, CoreTypes
  <2>2. PICK c \in Nat, f \in Nat, t \in Nat : c = pending.count /\ f = failed /\ t = termTaken
    BY AccountTypes
  <2>3. f = e + c + t  BY <1>3, <2>1, <2>2 DEF FailedInv
  <2>4. failed' = f /\ termTaken' = t /\ pfail'[p] = c /\ pending'.count = 0
    BY <1>1, <2>2
  <2>5. CarriedBelow(enq)' = e  BY <1>1, <2>1 DEF CarriedBelow
  <2>6. (failed = CarriedBelow(enq) + pfail[p] + pending.count + termTaken)'
    BY <2>3, <2>4, <2>5
  <2> QED  BY <1>1, <1>4, <2>6 DEF FailedInv
<1>10. TerminalInv'
  <2>1. PICK g \in Nat, r \in Nat : g = pending.gen /\ r = rword.gen  BY AccountTypes
  <2>2. rpc \in {"recheck", "termCas"} => Passed(rword)  BY DEF TerminalInv
  <2>3. rpc \in {"recheck", "termCas"} => r <= g  BY <2>1, <2>2 DEF Passed
  <2>4. pending'.gen = g + 1 /\ rword'.gen = r  BY <1>1, <2>1
  <2>5. rpc' \in {"recheck", "termCas"} => Passed(rword)'
    BY <1>1, <2>1, <2>3, <2>4 DEF Passed
  <2>6. rpc' = "termCas" => pending' # rword'  BY <1>1, <2>1, <2>3, <2>4
  <2> QED  BY <1>1, <2>5, <2>6 DEF TerminalInv
<1> QED  BY <1>5, <1>7, <1>8, <1>9, <1>10

LEMMA BooksRecord ==
  ASSUME TypeOK, OwnershipInv, MarkerInv, BooksInv, NEW p \in Producers,
         RecordContended(p) \/ RecordFull(p)
  PROVE  BooksInv'
<1> USE DEF BooksInv
<1>1. /\ UNCHANGED <<enq, deq, discardedLoss, harvestLog, delivered, lossReported, termTaken,
                     epoch, leaked, rpc, rpos, rword, obsEpoch, obsLoss, dpos, pfail>>
      /\ ppc[p] \in {"contended", "full"} /\ ppc'[p] \in {"idle", "giveup"}
      /\ \A q \in Producers \ {p} : ppc'[q] = ppc[q]
      /\ pending'.gen = pending.gen /\ pending'.count = pending.count + 1
      /\ failed' = failed + 1 /\ lastFailAt' = enq
  BY CoreTypes DEF RecordContended, RecordFull, RecordFailedPublish, Goto, readVars
<1>2. \A t : CarriedBelow(t)' = CarriedBelow(t) /\ CarriedBy(t)' = CarriedBy(t)
  BY <1>1 DEF CarriedBelow, CarriedBy
<1>3. \A q \in Producers :
        (ppc'[q] = "count" <=> ppc[q] = "count") /\ (ppc'[q] = "advance" <=> ppc[q] = "advance")
  BY <1>1
<1>4. HeadInv'  BY <1>1, <1>3 DEF HeadInv
<1>5. (ReaderOwns' <=> ReaderOwns) /\ Settled' = Settled
  BY <1>1 DEF ReaderOwns, Settled, CarriedBelow, CarriedBy
<1>6. BalanceInv'  BY <1>1, <1>2, <1>3, <1>5 DEF BalanceInv
<1>7. PlacedInv'  BY <1>1, <1>2, <1>5 DEF PlacedInv
<1>8. FailedInv'
  <2>1. PICK e \in Nat : e = CarriedBelow(enq)  BY CarriedTypes, CoreTypes
  <2>2. PICK c \in Nat, f \in Nat, t \in Nat : c = pending.count /\ f = failed /\ t = termTaken
    BY AccountTypes
  <2>3. failed' = f + 1 /\ termTaken' = t /\ pending'.count = c + 1 /\ pfail' = pfail
    BY <1>1, <2>2
  <2>4. CarriedBelow(enq)' = e  BY <1>1, <2>1 DEF CarriedBelow
  <2>5. (\A q \in Producers : ppc'[q] # "advance") =>
          (failed = CarriedBelow(enq) + pending.count + termTaken)'
    <3>1. (\A q \in Producers : ppc'[q] # "advance") => f = e + c + t
      BY <1>3, <2>1, <2>2 DEF FailedInv
    <3> QED  BY <2>3, <2>4, <3>1
  <2>6. ASSUME NEW q \in Producers, ppc'[q] = "advance"
        PROVE  (failed = CarriedBelow(enq) + pfail[q] + pending.count + termTaken)'
    <3>1. PICK k \in Nat : k = pfail[q]  BY AccountTypes
    <3>2. f = e + k + c + t  BY <1>3, <2>1, <2>2, <2>6, <3>1 DEF FailedInv
    <3>3. pfail'[q] = k  BY <2>3, <3>1
    <3> QED  BY <2>3, <2>4, <3>2, <3>3
  <2> QED  BY <2>5, <2>6 DEF FailedInv
<1>9. TerminalInv'
  <2>1. PICK g \in Nat, c \in Nat, r \in Nat, k \in Nat :
          g = pending.gen /\ c = pending.count /\ r = rword.gen /\ k = rword.count
    BY AccountTypes
  <2>2. rpc \in {"recheck", "termCas"} => r < g \/ (r = g /\ k <= c)
    BY <2>1 DEF TerminalInv, Passed
  <2>3. pending'.gen = g /\ pending'.count = c + 1 /\ rword'.gen = r /\ rword'.count = k
    BY <1>1, <2>1
  <2>4. rpc' \in {"recheck", "termCas"} => Passed(rword)'
    BY <1>1, <2>1, <2>2, <2>3 DEF Passed
  <2>5. rpc' = "termCas" => pending' # rword'  BY <1>1, <2>1, <2>2, <2>3
  <2>6. (lastFailAt <= enq)'  BY <1>1, CoreTypes
  <2> QED  BY <1>1, <2>4, <2>5, <2>6 DEF TerminalInv
<1> QED  BY <1>4, <1>6, <1>7, <1>8, <1>9

LEMMA BooksDiscardHead ==
  ASSUME TypeOK, OwnershipInv, MarkerInv, BooksInv, NEW p \in Producers, DiscardHead(p)
  PROVE  BooksInv'
<1> USE DEF BooksInv
<1>1. PICK h \in Nat, e \in Nat : h = dpos[p] /\ e = enq  BY CoreTypes
<1>2. /\ UNCHANGED <<enq, discardedLoss, harvestLog, pending, failed, lastFailAt, delivered,
                     lossReported, termTaken, epoch, leaked, rpc, rpos, rword, obsEpoch, obsLoss,
                     dpos, pfail>>
      /\ deq = h /\ deq' = h + 1 /\ Ready(h)
      /\ ppc[p] = "discard" /\ ppc'[p] = "count"
      /\ \A q \in Producers \ {p} : ppc'[q] = ppc[q]
  BY <1>1, CoreTypes DEF DiscardHead, Goto, readVars, histVars, OwnershipInv, ReadyInv
<1>3. \A q \in Producers : ppc[q] # "count" /\ ppc[q] # "advance"
  BY <1>2 DEF OwnershipInv, LockInv, HoldsLock
<1>4. \A q \in Producers : ppc'[q] # "advance" /\ (ppc'[q] = "count" => q = p)  BY <1>2, <1>3
<1>5. \A t : CarriedBelow(t)' = CarriedBelow(t) /\ CarriedBy(t)' = CarriedBy(t)
  BY <1>2 DEF CarriedBelow, CarriedBy
<1>6. HeadInv'
  <2>1. rpc \in {"head", "take"} => rpos <= h
    BY <1>2, CoreTypes DEF OwnershipInv, ReadyInv, Ready
  <2>2. ~(rpc' \in {"head", "take"} /\ deq' = rpos')  BY <1>2, <2>1, CoreTypes
  <2> QED  BY <1>2, <2>2 DEF HeadInv
<1>7. (ReaderOwns' <=> ReaderOwns) /\ Settled' = Settled
  BY <1>2 DEF ReaderOwns, Settled, CarriedBelow, CarriedBy
<1>8. BalanceInv'
  <2>1. CarriedBelow(h) \in Nat /\ CarriedBelow(h + 1) \in Nat
    <3>1. h \in 0 .. e /\ h + 1 \in 0 .. e  BY <1>1, <1>2 DEF Ready
    <3> QED  BY <1>1, <3>1, CarriedTypes
  <2>2. leaked' = 0 => Settled = h + CarriedBelow(h)  BY <1>2, <1>3 DEF BalanceInv
  <2>3. leaked' = 0 => Settled + 1 + CarriedBy(h) = h + 1 + CarriedBelow(h + 1)
    BY <2>1, <2>2 DEF CarriedBy
  <2>4. CarriedBy(dpos[p])' = CarriedBy(h) /\ CarriedBelow(deq)' = CarriedBelow(h + 1)
    BY <1>1, <1>2 DEF CarriedBy, CarriedBelow
  <2>5. leaked' = 0 => (Settled + 1 + CarriedBy(dpos[p]) = deq + CarriedBelow(deq))'
    BY <1>2, <1>7, <2>3, <2>4
  <2> QED  BY <1>2, <1>4, <2>5 DEF BalanceInv
<1>9. PlacedInv'  BY <1>2, <1>5, <1>7 DEF PlacedInv
<1>10. FailedInv'  BY <1>2, <1>3, <1>4, <1>5 DEF FailedInv
<1>11. TerminalInv'  BY <1>2 DEF TerminalInv, Passed
<1> QED  BY <1>6, <1>8, <1>9, <1>10, <1>11

LEMMA BooksCountDiscard ==
  ASSUME TypeOK, OwnershipInv, MarkerInv, BooksInv, NEW p \in Producers, CountDiscard(p)
  PROVE  BooksInv'
<1> USE DEF BooksInv
<1>1. PICK x \in Nat : x = dpos[p]  BY CoreTypes
<1>2. /\ UNCHANGED <<enq, deq, harvestLog, pending, failed, lastFailAt, delivered, lossReported,
                     termTaken, epoch, leaked, rpc, rpos, rword, obsEpoch, obsLoss, dpos, pfail>>
      /\ discardedLoss' = discardedLoss + 1 + fdb[SlotOf(x)]
      /\ ppc[p] = "count" /\ ppc'[p] = "free"
      /\ \A q \in Producers \ {p} : ppc'[q] = ppc[q]
  BY <1>1, CoreTypes DEF CountDiscard, Goto, readVars, histVars
<1>3. \A q \in Producers : ppc[q] # "advance" /\ (ppc[q] = "count" => q = p)
  BY <1>2 DEF OwnershipInv, LockInv, HoldsLock
<1>4. \A q \in Producers : ppc'[q] # "advance" /\ ppc'[q] # "count"  BY <1>2, <1>3
<1>5. \A t : CarriedBelow(t)' = CarriedBelow(t) /\ CarriedBy(t)' = CarriedBy(t)
  BY <1>2 DEF CarriedBelow, CarriedBy
<1>6. HeadInv'  BY <1>2 DEF HeadInv
<1>7. ReaderOwns' <=> ReaderOwns  BY <1>2 DEF ReaderOwns
<1>8. BalanceInv'
  <2>1. fdb[SlotOf(x)] = CarriedBy(x) /\ fdb[SlotOf(x)] \in Nat
    BY <1>1, <1>2, SlotInRange, AccountTypes DEF MarkerInv, Marked
  <2>2. leaked' = 0 => Settled + 1 + CarriedBy(x) = deq + CarriedBelow(deq)
    BY <1>1, <1>2 DEF BalanceInv
  <2>3. Settled' = Settled + 1 + CarriedBy(x)
    <3>1. ReaderOwns => CarriedBy(rpos) \in Int
      <4>1. ReaderOwns => rpos \in 0 .. enq /\ rpos + 1 \in 0 .. enq
        BY CoreTypes DEF OwnershipInv, OwnerInv, Taken, WindowInv
      <4>2. ReaderOwns => CarriedBelow(rpos) \in Nat /\ CarriedBelow(rpos + 1) \in Nat
        BY <4>1, CarriedTypes
      <4> QED  BY <4>2 DEF CarriedBy
    <3>2. PICK z \in Nat, w \in Int : /\ z = IF obsEpoch = epoch THEN obsLoss ELSE 0
                                      /\ w = IF ReaderOwns THEN 1 + CarriedBy(rpos) ELSE 0
      BY <3>1, AccountTypes
    <3>3. PICK k \in Nat : k = fdb[SlotOf(x)]  BY <2>1
    <3>4. PICK a \in Nat, b \in Int, c \in Nat, d \in Nat :
            a = delivered /\ b = lossReported /\ c = termTaken /\ d = discardedLoss
      BY AccountTypes
    <3>5. Settled = a + b - c + (d - z) + w  BY <3>2, <3>4 DEF Settled
    <3>6. /\ delivered' = a /\ lossReported' = b /\ termTaken' = c /\ discardedLoss' = d + 1 + k
          /\ z = (IF obsEpoch = epoch THEN obsLoss ELSE 0)'
      BY <1>2, <3>2, <3>3, <3>4
    <3>7. w = (IF ReaderOwns THEN 1 + CarriedBy(rpos) ELSE 0)'
      BY <1>2, <1>7, <3>2 DEF CarriedBy, CarriedBelow
    <3>8. Settled' = a + b - c + (d + 1 + k - z) + w  BY <3>6, <3>7 DEF Settled
    <3> QED  BY <2>1, <3>3, <3>5, <3>8
  <2>4. CarriedBelow(deq)' = CarriedBelow(deq)  BY <1>2 DEF CarriedBelow
  <2>5. leaked' = 0 => (Settled = deq + CarriedBelow(deq))'
    BY <1>2, <2>2, <2>3, <2>4
  <2> QED  BY <1>2, <1>4, <2>5 DEF BalanceInv
<1>9. PlacedInv'  BY <1>2, <1>5, <1>7 DEF PlacedInv
<1>10. FailedInv'  BY <1>2, <1>3, <1>4, <1>5 DEF FailedInv
<1>11. TerminalInv'  BY <1>2 DEF TerminalInv, Passed
<1> QED  BY <1>6, <1>8, <1>9, <1>10, <1>11

LEMMA BooksProducer ==
  ASSUME TypeOK, OwnershipInv, MarkerInv, BooksInv, NEW p \in Producers,
         StartPublish(p) \/ PublishStep(p)
  PROVE  BooksInv'
<1>1. CASE \/ StartPublish(p) \/ ReleaseAfterFull(p)
           \/ TailFree(p) \/ TailFull(p) \/ ReleaseAndCopy(p) \/ PublishSlot(p)
           \/ LoadOldest(p) \/ OldestInFlight(p) \/ OldestGone(p) \/ OldestReady(p)
           \/ OpenDiscard(p) \/ DiscardLost(p) \/ FreeDiscarded(p) \/ CloseDiscard(p)
  <2> USE <1>1
      DEF StartPublish, AcquireClaimLock, ClaimContended, ReleaseAfterFull, TailFree, TailFull,
          ReleaseAndCopy, PublishSlot, LoadOldest, OldestInFlight, OldestGone, OldestReady,
          OpenDiscard, DiscardLost, FreeDiscarded, CloseDiscard
  <2>1. UNCHANGED <<enq, deq, discardedLoss, harvestLog, pending, failed, lastFailAt>>
    BY DEF ringVars, histVars
  <2>2. ppc[p] \notin {"count", "advance"} /\ ppc'[p] \notin {"count", "advance"}
    BY CoreTypes DEF Goto
  <2>3. /\ \A q \in Producers \ {p} :
             ppc'[q] = ppc[q] /\ tick'[q] = tick[q] /\ pfail'[q] = pfail[q] /\ dpos'[q] = dpos[q]
        /\ UNCHANGED <<delivered, lossReported, termTaken, epoch, leaked, rpc, rpos, rword,
                       obsEpoch, obsLoss>>
    BY ONLY TypeOK, p \in Producers, StartPublish(p) \/ PublishStep(p), OthersStay
  <2> QED  BY ONLY BooksInv, <2>1, <2>2, <2>3, BooksFramed
<1> QED
  BY <1>1, BooksAdvance, BooksHarvest, BooksRecord, BooksDiscardHead, BooksCountDiscard
     DEF PublishStep, ClaimStep, DiscardStep, FailStep

\* The reader takes the head: its snapshot has everything before it reported.
LEMMA BooksTakeHead ==
  ASSUME TypeOK, OwnershipInv, MarkerInv, BooksInv, TakeHead
  PROVE  BooksInv'
<1> USE DEF BooksInv
<1>1. PICK h \in Nat, e \in Nat : h = rpos /\ e = enq  BY CoreTypes
<1>2. /\ UNCHANGED <<enq, discardedLoss, harvestLog, pending, failed, lastFailAt, delivered,
                     lossReported, termTaken, epoch, leaked, rpos, rword, obsEpoch, obsLoss,
                     ppc, dpos, pfail>>
      /\ deq = h /\ deq' = h + 1 /\ Ready(h) /\ rpc = "take" /\ rpc' = "copy"
  BY <1>1 DEF TakeHead, RGoto, prodVars, histVars, OwnershipInv, ReadyInv
<1>3. /\ obsLoss = discardedLoss /\ obsEpoch = epoch
      /\ \A q \in Producers : ppc[q] # "count"
  BY <1>1, <1>2 DEF HeadInv, Snapping
<1>4. \A t : CarriedBelow(t)' = CarriedBelow(t) /\ CarriedBy(t)' = CarriedBy(t)
  BY <1>2 DEF CarriedBelow, CarriedBy
<1>5. CarriedBelow(h) \in Nat /\ CarriedBelow(h + 1) \in Nat
  <2>1. h \in 0 .. e /\ h + 1 \in 0 .. e  BY <1>1, <1>2 DEF Ready
  <2> QED  BY <1>1, <2>1, CarriedTypes
<1>6. PICK a \in Nat, b \in Int, c \in Nat, d \in Nat :
        a = delivered /\ b = lossReported /\ c = termTaken /\ d = discardedLoss
  BY AccountTypes
<1>7. leaked = 0 => a + b - c = h + CarriedBelow(h)
  <2>1. Settled = a + b - c + (d - d) + 0  BY <1>2, <1>3, <1>6 DEF Settled, ReaderOwns
  <2>2. leaked = 0 => Settled = h + CarriedBelow(h)  BY <1>2, <1>3 DEF BalanceInv
  <2> QED  BY <1>5, <2>1, <2>2
<1>8. HeadInv'  BY <1>2, <1>3 DEF HeadInv
<1>9. BalanceInv'
  <2>1. ReaderOwns' /\ CarriedBy(rpos)' = CarriedBy(h) /\ CarriedBelow(deq)' = CarriedBelow(h + 1)
    BY <1>1, <1>2 DEF ReaderOwns, CarriedBy, CarriedBelow
  <2>2. Settled' = a + b - c + (d - d) + (1 + CarriedBy(h))
    BY <1>2, <1>3, <1>6, <2>1 DEF Settled
  <2>3. leaked = 0 => Settled' = h + 1 + CarriedBelow(h + 1)
    BY <1>5, <1>7, <2>2 DEF CarriedBy
  <2>4. leaked' = 0 => (Settled = deq + CarriedBelow(deq))'  BY <1>2, <2>1, <2>3
  <2> QED  BY <1>2, <1>3, <2>4 DEF BalanceInv
<1>10. PlacedInv'
  <2>1. CarriedBelow(rpos)' = CarriedBelow(h)  BY <1>1, <1>2 DEF CarriedBelow
  <2> QED  BY <1>1, <1>2, <1>6, <1>7, <2>1 DEF PlacedInv
<1>11. FailedInv'  BY <1>2, <1>4 DEF FailedInv
<1>12. TerminalInv'  BY <1>2 DEF TerminalInv, Passed
<1> QED  BY <1>8, <1>9, <1>10, <1>11, <1>12

\* The reader hands over what it took: the sample and its mark.
LEMMA BooksDeliver ==
  ASSUME TypeOK, OwnershipInv, MarkerInv, BooksInv, Deliver
  PROVE  BooksInv'
<1> USE DEF BooksInv
<1>1. /\ UNCHANGED <<enq, deq, discardedLoss, harvestLog, pending, failed, lastFailAt,
                     termTaken, epoch, leaked, rpos, rword, obsEpoch, obsLoss, ppc, dpos, pfail>>
      /\ rpc = "release" /\ rpc' = "snap"
      /\ delivered' = delivered + 1 /\ lossReported' = lossReported + rfail
  BY DEF Deliver, RGoto, prodVars
<1>2. ReaderOwns /\ ~ReaderOwns' /\ rfail = CarriedBy(rpos) /\ obsEpoch = epoch
  BY <1>1 DEF ReaderOwns, MarkerInv, HeadInv, Snapping
<1>3. \A t : CarriedBelow(t)' = CarriedBelow(t) /\ CarriedBy(t)' = CarriedBy(t)
  BY <1>1 DEF CarriedBelow, CarriedBy
<1>4. PICK a \in Nat, b \in Int, c \in Nat, d \in Nat, o \in Nat, f \in Nat :
        /\ a = delivered /\ b = lossReported /\ c = termTaken /\ d = discardedLoss
        /\ o = obsLoss /\ f = rfail
  BY AccountTypes
<1>5. Settled = a + b - c + (d - o) + (1 + f)  BY <1>2, <1>4 DEF Settled
<1>6. Settled' = (a + 1) + (b + f) - c + (d - o) + 0  BY <1>1, <1>2, <1>4 DEF Settled
<1>7. Settled' = Settled  BY <1>5, <1>6
<1>8. HeadInv'  BY <1>1, <1>2 DEF HeadInv
<1>9. CarriedBelow(deq)' = CarriedBelow(deq)
      /\ \A q \in Producers : CarriedBy(dpos[q])' = CarriedBy(dpos[q])
  BY <1>1 DEF CarriedBelow, CarriedBy
<1>10. BalanceInv'  BY <1>1, <1>7, <1>9 DEF BalanceInv
<1>11. PlacedInv'  BY <1>2 DEF PlacedInv
<1>12. FailedInv'  BY <1>1, <1>3 DEF FailedInv
<1>13. TerminalInv'  BY <1>1 DEF TerminalInv, Passed
<1> QED  BY <1>8, <1>10, <1>11, <1>12, <1>13

\* A reader's step that takes, reports and delivers nothing.
LEMMA BooksReaderFramed ==
  ASSUME BooksInv,
         UNCHANGED <<enq, deq, discardedLoss, harvestLog, pending, failed, lastFailAt, delivered,
                     lossReported, termTaken, epoch, leaked, obsEpoch, obsLoss, ppc, dpos, pfail>>,
         ReaderOwns' <=> ReaderOwns,
         ReaderOwns => rpos' = rpos,
         rpc' \in {"head", "take"} => rpc \in {"head", "take"} /\ rpos' = rpos,
         rpc' \notin Snapping \cup {"idle"} => rpc \notin Snapping \cup {"idle"},
         rpc' \in {"recheck", "termCas"} => Passed(rword'),
         rpc' = "termCas" => lastFailAt <= rpos'
  PROVE  BooksInv'
<1> USE DEF BooksInv
<1>1. \A t : CarriedBelow(t)' = CarriedBelow(t) /\ CarriedBy(t)' = CarriedBy(t)
  BY DEF CarriedBelow, CarriedBy
<1>2. HeadInv'  BY DEF HeadInv
<1>3. Settled' = Settled  BY DEF Settled, CarriedBelow, CarriedBy
<1>4. BalanceInv'  BY <1>1, <1>3 DEF BalanceInv
<1>5. PlacedInv'  BY <1>1 DEF PlacedInv
<1>6. FailedInv'  BY <1>1 DEF FailedInv
<1>7. TerminalInv'  BY DEF TerminalInv, Passed
<1> QED  BY <1>2, <1>4, <1>5, <1>6, <1>7

\* A coherent snapshot: the reader reports what was discarded since its last.
LEMMA BooksSnapshot ==
  ASSUME TypeOK, BooksInv, ParityInv, SnapInv, SnapBaseline \/ SnapAccept
  PROVE  BooksInv'
<1> USE DEF BooksInv
<1>1. /\ UNCHANGED <<enq, deq, discardedLoss, harvestLog, pending, failed, lastFailAt, delivered,
                     termTaken, epoch, leaked, rpos, rword, ppc, dpos, pfail>>
      /\ rpc = "snapAfter" /\ discardSeq = rseq /\ obsLoss' = rlost /\ obsEpoch' = epoch
      /\ \/ obsEpoch # epoch /\ lossReported' = lossReported + rlost /\ rpc' = "snap"
         \/ obsEpoch = epoch /\ lossReported' = lossReported + (rlost - obsLoss) /\ rpc' = "head"
  BY DEF SnapBaseline, SnapAccept, RGoto, ReportLoss, ringVars, prodVars
<1>2. rpos = deq /\ rlost = discardedLoss  BY <1>1 DEF SnapInv
<1>3. \A q \in Producers : ppc[q] # "count"
  <2>1. discardSeq % 2 = 0  BY <1>1 DEF SnapInv
  <2> QED  BY <2>1 DEF ParityInv, DiscardOpen
<1>4. \A t : CarriedBelow(t)' = CarriedBelow(t) /\ CarriedBy(t)' = CarriedBy(t)
  BY <1>1 DEF CarriedBelow, CarriedBy
<1>5. ~ReaderOwns /\ ~ReaderOwns'  BY <1>1 DEF ReaderOwns
<1>6. HeadInv'
  <2>1. (obsEpoch <= epoch)'  BY <1>1 DEF TypeOK, RingTypeOK
  <2> QED  BY <1>1, <1>2, <1>3, <2>1 DEF HeadInv, Snapping
<1>7. BalanceInv'
  <2>1. PICK a \in Nat, b \in Int, c \in Nat, d \in Nat, o \in Nat :
          /\ a = delivered /\ b = lossReported /\ c = termTaken /\ d = discardedLoss
          /\ o = obsLoss
    BY AccountTypes
  <2>2. rlost = d /\ delivered' = a /\ termTaken' = c /\ discardedLoss' = d /\ obsLoss' = d
        /\ obsEpoch' = epoch'
    BY <1>1, <1>2, <2>1
  <2>3. CASE obsEpoch # epoch
    <3>1. lossReported' = b + d  BY <1>1, <2>1, <2>2, <2>3
    <3>2. Settled = a + b - c + (d - 0) + 0  BY <1>5, <2>1, <2>3 DEF Settled
    <3>3. Settled' = a + (b + d) - c + (d - d) + 0  BY <1>5, <2>2, <3>1 DEF Settled
    <3>4. Settled' = Settled  BY <3>2, <3>3
    <3> QED  BY <1>1, <1>3, <1>4, <3>4 DEF BalanceInv
  <2>4. CASE obsEpoch = epoch
    <3>1. lossReported' = b + (d - o)  BY <1>1, <2>1, <2>2, <2>4
    <3>2. Settled = a + b - c + (d - o) + 0  BY <1>5, <2>1, <2>4 DEF Settled
    <3>3. Settled' = a + (b + (d - o)) - c + (d - d) + 0  BY <1>5, <2>2, <3>1 DEF Settled
    <3>4. Settled' = Settled  BY <3>2, <3>3
    <3> QED  BY <1>1, <1>3, <1>4, <3>4 DEF BalanceInv
  <2> QED  BY <2>3, <2>4
<1>8. PlacedInv'  BY <1>5 DEF PlacedInv
<1>9. FailedInv'  BY <1>1, <1>4 DEF FailedInv
<1>10. TerminalInv'  BY <1>1 DEF TerminalInv, Passed
<1> QED  BY <1>6, <1>7, <1>8, <1>9, <1>10

\* The reader takes the failures pending behind an empty queue.
LEMMA BooksTerminalGap ==
  ASSUME TypeOK, MarkerInv, BooksInv, TakeTerminalGap
  PROVE  BooksInv'
<1> USE DEF BooksInv
<1>1. /\ UNCHANGED <<enq, deq, discardedLoss, harvestLog, failed, lastFailAt, delivered,
                     epoch, leaked, rpos, rword, obsEpoch, obsLoss, ppc, dpos, pfail>>
      /\ rpc = "termCas" /\ rpc' = "idle" /\ rword = pending
      /\ lossReported' = lossReported + rword.count /\ termTaken' = termTaken + rword.count
      /\ pending'.count = 0
  BY DEF TakeTerminalGap, RGoto, prodVars, AfterHarvest
<1>2. obsEpoch = epoch /\ ~ReaderOwns /\ ~ReaderOwns'
  BY <1>1 DEF HeadInv, Snapping, ReaderOwns
<1>3. \A t : CarriedBelow(t)' = CarriedBelow(t) /\ CarriedBy(t)' = CarriedBy(t)
  BY <1>1 DEF CarriedBelow, CarriedBy
<1>4. PICK a \in Nat, b \in Int, c \in Nat, d \in Nat, o \in Nat, k \in Nat, f \in Nat, e \in Nat :
        /\ a = delivered /\ b = lossReported /\ c = termTaken /\ d = discardedLoss
        /\ o = obsLoss /\ k = pending.count /\ f = failed /\ e = CarriedBelow(enq)
  <2>1. CarriedBelow(enq) \in Nat  BY CarriedTypes, CoreTypes
  <2> QED  BY <2>1, AccountTypes
<1>5. /\ lossReported' = b + k /\ termTaken' = c + k /\ delivered' = a /\ discardedLoss' = d
      /\ obsLoss' = o /\ failed' = f /\ CarriedBelow(enq)' = e
  BY <1>1, <1>4 DEF CarriedBelow
<1>6. HeadInv'  BY <1>1, <1>2 DEF HeadInv
<1>7. BalanceInv'
  <2>1. Settled = a + b - c + (d - o) + 0  BY <1>2, <1>4 DEF Settled
  <2>2. Settled' = a + (b + k) - (c + k) + (d - o) + 0  BY <1>1, <1>2, <1>5 DEF Settled
  <2>3. Settled' = Settled  BY <2>1, <2>2
  <2> QED  BY <1>1, <1>3, <2>3 DEF BalanceInv
<1>8. PlacedInv'  BY <1>2 DEF PlacedInv
<1>9. FailedInv'
  <2>1. (\A q \in Producers : ppc[q] # "advance") =>
          (failed = CarriedBelow(enq) + pending.count + termTaken)'
    <3>1. (\A q \in Producers : ppc[q] # "advance") => f = e + k + c
      BY <1>4 DEF FailedInv
    <3> QED  BY <1>1, <1>5, <3>1
  <2>2. ASSUME NEW q \in Producers, ppc[q] = "advance"
        PROVE  (failed = CarriedBelow(enq) + pfail[q] + pending.count + termTaken)'
    <3>1. PICK j \in Nat : j = pfail[q]  BY AccountTypes
    <3>2. f = e + j + k + c  BY <1>4, <2>2, <3>1 DEF FailedInv
    <3>3. pfail'[q] = j  BY <1>1, <3>1
    <3> QED  BY <1>1, <1>5, <3>2, <3>3
  <2> QED  BY <1>1, <2>1, <2>2 DEF FailedInv
<1>10. TerminalInv'  BY <1>1 DEF TerminalInv
<1> QED  BY <1>6, <1>7, <1>8, <1>9, <1>10

LEMMA BooksReader ==
  ASSUME TypeOK, OwnershipInv, MarkerInv, BooksInv, ParityInv, SnapInv, ReadStep
  PROVE  BooksInv'
<1>1. UNCHANGED <<enq, discardedLoss, harvestLog, failed, lastFailAt, epoch, leaked, ppc, dpos,
                  pfail>>
  BY ProducersStay
<1>2. CASE \/ BeginDrain \/ SnapBegin \/ SnapDequeue \/ SnapLoss \/ SnapMiss
           \/ InspectHead \/ TakeLost \/ CopyHead \/ LoadEmptyAt \/ CheckEmpty \/ TerminalGapLost
  <2> USE <1>2
      DEF BeginDrain, SnapBegin, SnapDequeue, SnapLoss, SnapMiss, InspectHead, TakeLost, CopyHead,
          LoadEmptyAt, CheckEmpty, TerminalGapLost, RGoto
  <2>1. UNCHANGED <<deq, pending, delivered, lossReported, termTaken, obsEpoch, obsLoss>>
    BY DEF ringVars, histVars
  <2>2. (ReaderOwns' <=> ReaderOwns) /\ (ReaderOwns => rpos' = rpos)  BY DEF ReaderOwns
  <2>3. rpc' \in {"head", "take"} => rpc \in {"head", "take"} /\ rpos' = rpos  OBVIOUS
  <2>4. rpc' \notin Snapping \cup {"idle"} => rpc \notin Snapping \cup {"idle"}  BY DEF Snapping
  <2>5. rpc' \notin {"recheck", "termCas"}  OBVIOUS
  <2> QED  BY ONLY BooksInv, <1>1, <2>1, <2>2, <2>3, <2>4, <2>5, BooksReaderFramed
<1>3. CASE LoadPending
  <2> USE <1>3 DEF LoadPending, RGoto
  <2>1. UNCHANGED <<deq, pending, delivered, lossReported, termTaken, obsEpoch, obsLoss>>
    BY DEF ringVars, histVars
  <2>2. ~ReaderOwns' /\ ~ReaderOwns  BY DEF ReaderOwns
  <2>3. rpc' \notin {"head", "take", "termCas"} /\ rpc \notin Snapping \cup {"idle"}
    BY DEF Snapping
  <2>4. Passed(rword')
    <3>1. pending.gen \in Nat /\ pending.count \in Nat  BY AccountTypes
    <3>2. rword' = pending  OBVIOUS
    <3> QED  BY ONLY <3>1, <3>2 DEF Passed
  <2> QED  BY ONLY BooksInv, <1>1, <2>1, <2>2, <2>3, <2>4, BooksReaderFramed
<1>4. CASE RecheckEmpty
  <2> USE <1>4 DEF RecheckEmpty, RGoto
  <2>1. UNCHANGED <<deq, pending, delivered, lossReported, termTaken, obsEpoch, obsLoss, rpos,
                    rword>>
    BY DEF ringVars, histVars
  <2>2. ~ReaderOwns' /\ ~ReaderOwns  BY DEF ReaderOwns
  <2>3. rpc' \notin {"head", "take", "recheck"} /\ rpc \notin Snapping \cup {"idle"}
    BY DEF Snapping
  <2>4. Passed(rword')  BY <2>1 DEF BooksInv, TerminalInv, Passed
  <2>5. rpc' = "termCas" => lastFailAt <= rpos'  BY <2>1 DEF BooksInv, TerminalInv
  <2> QED  BY ONLY BooksInv, <1>1, <2>1, <2>2, <2>3, <2>4, <2>5, BooksReaderFramed
<1> QED
  BY <1>2, <1>3, <1>4, BooksTakeHead, BooksDeliver, BooksSnapshot, BooksTerminalGap
     DEF ReadStep, SnapshotStep, TakeStep, TerminalStep

\* A writer's successor starts the books afresh; a reader's inherits them at
\* a point where nothing is being discarded.
LEMMA AccountRestart ==
  ASSUME TypeOK, OwnershipInv, AccountInv, NewSession \/ ReaderCrash
  PROVE  AccountInv'
<1> USE DEF AccountInv
<1>1. ASSUME NewSession PROVE AccountInv'
  <2> USE <1>1 DEF NewSession, readVars
  <2>1. ~ReaderOwns' /\ rpc' = "idle" /\ \A q \in Producers : ppc'[q] = "idle"
    BY DEF ReaderOwns
  <2>2. MarkerInv'  BY <2>1 DEF MarkerInv
  <2>3. ParityInv'  BY <2>1 DEF ParityInv, DiscardOpen
  <2>4. SnapInv'  BY <2>1 DEF SnapInv
  <2>5. obsEpoch' # epoch' /\ obsEpoch' <= epoch'
    BY DEF HeadInv, TypeOK, RingTypeOK, ReaderTypeOK
  <2>6. HeadInv'  BY <2>1, <2>5 DEF HeadInv
  <2>7. BalanceInv'  BY <2>1, <2>5 DEF BalanceInv, Settled, CarriedBelow
  <2>8. PlacedInv'  BY <2>1 DEF PlacedInv
  <2>9. FailedInv'  BY <2>1 DEF FailedInv, CarriedBelow, NoDrops
  <2>10. TerminalInv'  BY <2>1 DEF TerminalInv
  <2> QED  BY <2>2, <2>3, <2>4, <2>6, <2>7, <2>8, <2>9, <2>10
<1>2. ASSUME ReaderCrash PROVE AccountInv'
  <2> USE <1>2 DEF ReaderCrash, prodVars, histVars
  <2>1. ~ReaderOwns' /\ rpc' = "idle" /\ leaked' # 0
    BY AccountTypes DEF ReaderOwns
  <2>2. MarkerInv'  BY ONLY MarkerInv, <1>2, <2>1, MarkerFramed DEF ReaderCrash, prodVars, histVars
  <2>3. ParityInv'  BY DEF ParityInv, DiscardOpen
  <2>4. SnapInv'  BY <2>1 DEF SnapInv
  <2>5. HeadInv'  BY <2>1 DEF HeadInv, TypeOK, RingTypeOK
  <2>6. BalanceInv' /\ PlacedInv'  BY <2>1 DEF BalanceInv, PlacedInv
  <2>7. FailedInv'  BY DEF FailedInv, CarriedBelow
  <2>8. TerminalInv'  BY <2>1 DEF TerminalInv
  <2> QED  BY <2>2, <2>3, <2>4, <2>5, <2>6, <2>7, <2>8
<1> QED  BY <1>1, <1>2

LEMMA AccountStep == TypeOK /\ OwnershipInv /\ AccountInv /\ [Next]_vars => AccountInv'
<1> SUFFICES ASSUME TypeOK, OwnershipInv, AccountInv, [Next]_vars PROVE AccountInv'  OBVIOUS
<1>1. ASSUME UNCHANGED vars PROVE AccountInv'
  <2>1. UNCHANGED <<ringVars, prodVars, readVars, histVars>>  BY <1>1 DEF vars
  <2>2. BooksInv'
    BY <2>1, BooksFramed DEF AccountInv, BooksInv, ringVars, prodVars, readVars, histVars
  <2>3. MarkerInv'
    BY <2>1 DEF AccountInv, MarkerInv, ReaderOwns, Marked, CarriedBy, CarriedBelow,
                ringVars, prodVars, readVars, histVars
  <2>4. ParityInv' /\ SnapInv'
    BY <2>1 DEF AccountInv, ParityInv, DiscardOpen, SnapInv, ringVars, prodVars, readVars
  <2> QED  BY <2>2, <2>3, <2>4 DEF AccountInv, BooksInv
<1>2. ASSUME NEW p \in Producers, StartPublish(p) \/ PublishStep(p) PROVE AccountInv'
  <2>1. LockInv  BY DEF OwnershipInv
  <2> QED
    BY <1>2, <2>1, MarkerProducer, ParityProducer, SnapProducer, BooksProducer
       DEF AccountInv, BooksInv
<1>3. ASSUME ReadStep PROVE AccountInv'
  BY <1>3, MarkerReader, SnapReader, BooksReader DEF AccountInv, BooksInv
<1> QED  BY <1>1, <1>2, <1>3, AccountRestart DEF Next

\* Every claimed sample and every failed publish has its place in the books,
\* at every step of every interleaving, crashes included.
THEOREM Accounted == Spec => []AccountInv
<1>1. Init => TypeOK /\ OwnershipInv /\ AccountInv  BY TypeInit, OwnershipInit, AccountInit
<1>2. TypeOK /\ OwnershipInv /\ AccountInv /\ [Next]_vars => (TypeOK /\ OwnershipInv /\ AccountInv)'
  BY TypeStep, OwnershipStep, AccountStep
<1> QED  BY <1>1, <1>2, PTL DEF Spec

\* Loss reports stand where the losses happened, relative to the samples.
THEOREM GapsInPlace == Spec => GapBeforeSample
<1> DEFINE A == leaked = 0 /\ delivered' = delivered + 1 =>
                  lossReported' - termTaken' = rpos - delivered + harvestLog[rpos + 1]
<1>1. TypeOK /\ OwnershipInv /\ AccountInv /\ [Next]_vars => A
  <2> SUFFICES ASSUME TypeOK, OwnershipInv, AccountInv, [Next]_vars,
                      leaked = 0, delivered' = delivered + 1
               PROVE  lossReported' - termTaken' = rpos - delivered + harvestLog[rpos + 1]
    OBVIOUS
  <2>1. delivered' # delivered /\ delivered' # 0  BY AccountTypes
  <2>2. Deliver
    <3>1. ~ UNCHANGED vars  BY <2>1 DEF vars, histVars
    <3>2. \A p \in Producers : ~(StartPublish(p) \/ PublishStep(p))  BY <2>1, OthersStay
    <3>3. ~NewSession /\ ~ReaderCrash  BY <2>1 DEF NewSession, ReaderCrash, histVars
    <3>4. ReadStep  BY <3>1, <3>2, <3>3 DEF Next
    <3> QED
      BY <2>1, <3>4
         DEF ReadStep, BeginDrain, SnapshotStep, SnapBegin, SnapDequeue, SnapLoss, SnapMiss,
             SnapBaseline, SnapAccept, ReportLoss, TakeStep, InspectHead, TakeHead, TakeLost,
             CopyHead, TerminalStep, LoadEmptyAt, CheckEmpty, LoadPending, RecheckEmpty,
             TakeTerminalGap, TerminalGapLost, histVars
  <2>3. rpc = "release" /\ lossReported' = lossReported + rfail /\ termTaken' = termTaken
    BY <2>2 DEF Deliver, RGoto
  <2>4. PICK a \in Nat, b \in Int, c \in Nat, r \in Nat, e \in Nat :
          a = delivered /\ b = lossReported /\ c = termTaken /\ r = rpos /\ e = enq
    BY AccountTypes, CoreTypes
  <2>5. a + b - c = r + CarriedBelow(r) /\ rfail = CarriedBelow(r + 1) - CarriedBelow(r)
    BY <2>3, <2>4 DEF AccountInv, PlacedInv, MarkerInv, ReaderOwns, CarriedBy
  <2>6. CarriedBelow(r) \in Nat /\ CarriedBelow(r + 1) \in Nat
    <3>1. r \in 0 .. e /\ r + 1 \in 0 .. e
      BY <2>3, <2>4, CoreTypes DEF OwnershipInv, OwnerInv, Taken, WindowInv, ReaderOwns
    <3> QED  BY <2>4, <3>1, CarriedTypes DEF AccountInv
  <2>7. harvestLog[rpos + 1] = CarriedBelow(r + 1)  BY <2>4 DEF CarriedBelow
  <2>8. lossReported' - termTaken' = b + (CarriedBelow(r + 1) - CarriedBelow(r)) - c
    BY <2>3, <2>4, <2>5
  <2>9. rpos - delivered = r - a  BY <2>4
  <2> QED  BY <2>4, <2>5, <2>6, <2>7, <2>8, <2>9
<1> QED  BY <1>1, TypeCorrect, Ownership, Accounted, PTL DEF Spec, GapBeforeSample

\* A gap taken from an empty queue is older than any sample behind it.
THEOREM TerminalInPlace == Spec => TerminalGapInPlace
<1>1. TypeOK /\ AccountInv /\ [Next]_vars => (termTaken' > termTaken => lastFailAt <= rpos)
  <2> SUFFICES ASSUME TypeOK, AccountInv, [Next]_vars, termTaken' > termTaken
               PROVE  lastFailAt <= rpos
    OBVIOUS
  <2>1. termTaken' # termTaken /\ termTaken' # 0  BY AccountTypes
  <2>2. TakeTerminalGap
    <3>1. ~ UNCHANGED vars  BY <2>1 DEF vars, histVars
    <3>2. \A p \in Producers : ~(StartPublish(p) \/ PublishStep(p))  BY <2>1, OthersStay
    <3>3. ~NewSession /\ ~ReaderCrash  BY <2>1 DEF NewSession, ReaderCrash, histVars
    <3>4. ReadStep  BY <3>1, <3>2, <3>3 DEF Next
    <3> QED
      BY <2>1, <3>4
         DEF ReadStep, BeginDrain, SnapshotStep, SnapBegin, SnapDequeue, SnapLoss, SnapMiss,
             SnapBaseline, SnapAccept, ReportLoss, TakeStep, InspectHead, TakeHead, TakeLost,
             CopyHead, Deliver, TerminalStep, LoadEmptyAt, CheckEmpty, LoadPending, RecheckEmpty,
             TerminalGapLost, histVars
  <2> QED  BY <2>2 DEF TakeTerminalGap, RGoto, AccountInv, TerminalInv
<1> QED  BY <1>1, TypeCorrect, Accounted, PTL DEF Spec, TerminalGapInPlace

-----------------------------------------------------------------------------
(* What the queue holds.                                                   *)

LEMMA LeastOf ==
  ASSUME NEW T \in SUBSET Nat, T # {}
  PROVE  \E x \in T : \A y \in T : x <= y
<1> DEFINE R == OpToRel(<, Nat)
<1>1. IsWellFoundedOn(R, Nat)  BY NatLessThanWellFounded
<1>2. \A a \in Nat, b \in Nat : a < b => <<a, b>> \in R  BY DEF OpToRel
<1> HIDE DEF R
<1>3. PICK x \in T : \A y \in T : ~(<<y, x>> \in R)  BY <1>1, WFMin
<1>4. T \subseteq Nat  OBVIOUS
<1>5. ASSUME NEW y \in T PROVE x <= y
  <2>1. y \in Nat /\ x \in Nat  BY <1>4
  <2>2. ~(y < x)  BY <1>2, <1>3, <2>1
  <2> QED  BY <2>1, <2>2
<1> QED  BY <1>5

\* A quantity that starts at zero and grows by the losses of each queued
\* position is what the markers say of the whole queue.
LEMMA QueuedFixpoint ==
  ASSUME TypeOK, OwnershipInv, MarkerInv,
         \A p \in Producers : ppc[p] # "release",
         NEW f,
         f = [t \in deq .. enq |-> IF t = deq THEN 0 ELSE f[t - 1] + 1 + fdb[SlotOf(t - 1)]]
  PROVE  f[enq] = enq - deq + CarriedBelow(enq) - CarriedBelow(deq)
<1>1. PICK d \in Nat, e \in Nat : d = deq /\ e = enq /\ d <= e
  BY CoreTypes DEF OwnershipInv, WindowInv
<1>2. \A t \in d .. e : CarriedBelow(t) \in Nat
  <2>1. \A t \in d .. e : t \in 0 .. enq  BY <1>1
  <2> QED  BY <2>1, CarriedTypes
<1>3. f[d] = 0 /\ \A t \in d + 1 .. e : f[t] = f[t - 1] + 1 + fdb[SlotOf(t - 1)]
  BY <1>1
<1>4. \A t \in d .. e - 1 : fdb[SlotOf(t)] = CarriedBelow(t + 1) - CarriedBelow(t)
  BY <1>1 DEF MarkerInv, Marked, CarriedBy
<1> DEFINE Wrong == {t \in d .. e : f[t] # t - d + CarriedBelow(t) - CarriedBelow(d)}
<1>5. ASSUME Wrong # {} PROVE FALSE
  <2>1. Wrong \in SUBSET Nat  BY <1>1
  <2>2. PICK x \in Wrong : \A y \in Wrong : x <= y  BY <1>5, <2>1, LeastOf
  <2>3. x \in d .. e /\ f[x] # x - d + CarriedBelow(x) - CarriedBelow(d)  BY <2>2
  <2>4. x # d
    <3>1. CarriedBelow(d) \in Nat  BY <1>1, <1>2
    <3> QED  BY <1>1, <1>3, <2>3, <3>1
  <2>5. PICK w \in d .. e - 1 : x = w + 1
    <3>1. x - 1 \in d .. e - 1 /\ x = (x - 1) + 1  BY <1>1, <2>3, <2>4
    <3> QED  BY <3>1
  <2>6. w \notin Wrong  BY <1>1, <2>2, <2>5
  <2>7. f[w] = w - d + CarriedBelow(w) - CarriedBelow(d)  BY <1>1, <2>5, <2>6
  <2>8. f[x] = f[w] + 1 + fdb[SlotOf(w)]
    <3>1. x \in d + 1 .. e /\ x - 1 = w  BY <1>1, <2>5
    <3> QED  BY <1>3, <3>1
  <2>9. CarriedBelow(w) \in Nat /\ CarriedBelow(x) \in Nat /\ CarriedBelow(d) \in Nat
        /\ fdb[SlotOf(w)] = CarriedBelow(x) - CarriedBelow(w)
    BY <1>1, <1>2, <1>4, <2>3, <2>5
  <2> QED  BY <1>1, <2>3, <2>5, <2>7, <2>8, <2>9
<1>6. e \notin Wrong  BY <1>5
<1>7. f[e] = e - d + CarriedBelow(e) - CarriedBelow(d)  BY <1>1, <1>6
<1> QED  BY <1>1, <1>7

LEMMA QueuedLossesSum ==
  ASSUME TypeOK, OwnershipInv, MarkerInv, \A p \in Producers : ppc[p] # "release"
  PROVE  QueuedLosses = enq - deq + CarriedBelow(enq) - CarriedBelow(deq)
<1>1. PICK d \in Nat, e \in Nat : d = deq /\ e = enq /\ d <= e
  BY CoreTypes DEF OwnershipInv, WindowInv
<1>2. \A t \in d .. e : CarriedBelow(t) \in Nat
  <2>1. \A t \in d .. e : t \in 0 .. enq  BY <1>1
  <2> QED  BY <2>1, CarriedTypes
<1>3. \A t \in d .. e - 1 : fdb[SlotOf(t)] = CarriedBelow(t + 1) - CarriedBelow(t)
  BY <1>1 DEF MarkerInv, Marked, CarriedBy
<1> DEFINE g == [t \in d .. e |-> t - d + CarriedBelow(t) - CarriedBelow(d)]
<1>4. \A t \in d .. e :
        g[t] = IF t = d THEN 0 ELSE g[t - 1] + 1 + fdb[SlotOf(t - 1)]
  <2> SUFFICES ASSUME NEW t \in d .. e
               PROVE  g[t] = IF t = d THEN 0 ELSE g[t - 1] + 1 + fdb[SlotOf(t - 1)]
    OBVIOUS
  <2>1. CarriedBelow(d) \in Nat /\ g[t] = t - d + CarriedBelow(t) - CarriedBelow(d)
    BY <1>1, <1>2
  <2>2. CASE t = d  BY <1>1, <2>1, <2>2
  <2>3. CASE t # d
    <3>1. PICK w \in d .. e - 1 : t = w + 1
      <4>1. t - 1 \in d .. e - 1 /\ t = (t - 1) + 1  BY <1>1, <2>3
      <4> QED  BY <4>1
    <3>2. t - 1 = w /\ w \in d .. e  BY <1>1, <3>1
    <3>3. g[w] = w - d + CarriedBelow(w) - CarriedBelow(d)  BY <3>2
    <3>4. fdb[SlotOf(w)] = CarriedBelow(t) - CarriedBelow(w)  BY <1>3, <3>1
    <3>5. CarriedBelow(w) \in Nat /\ CarriedBelow(t) \in Nat  BY <1>2, <3>2
    <3> HIDE DEF g
    <3>6. g[t] = g[w] + 1 + fdb[SlotOf(w)]
      BY <1>1, <2>1, <3>1, <3>3, <3>4, <3>5
    <3> QED  BY <2>3, <3>2, <3>6
  <2> QED  BY <2>2, <2>3
<1>5. \E f : f = [t \in deq .. enq |->
                    IF t = deq THEN 0 ELSE f[t - 1] + 1 + fdb[SlotOf(t - 1)]]
  <2>1. g = [t \in d .. e |-> IF t = d THEN 0 ELSE g[t - 1] + 1 + fdb[SlotOf(t - 1)]]
    BY <1>4
  <2> HIDE DEF g
  <2> QED  BY <1>1, <2>1
<1> DEFINE u == CHOOSE f : f = [t \in deq .. enq |->
                    IF t = deq THEN 0 ELSE f[t - 1] + 1 + fdb[SlotOf(t - 1)]]
<1>6. QueuedLosses = u[enq]  BY DEF QueuedLosses
<1>7. u = [t \in deq .. enq |-> IF t = deq THEN 0 ELSE u[t - 1] + 1 + fdb[SlotOf(t - 1)]]
  BY ONLY <1>5
<1> HIDE DEF u
<1> QED  BY <1>6, <1>7, QueuedFixpoint

\* An idle ring has an entry for every publish attempt.
THEOREM Uncounted == Spec => []NothingUncounted
<1>1. TypeOK /\ OwnershipInv /\ AccountInv => NothingUncounted
  <2> SUFFICES ASSUME TypeOK, OwnershipInv, AccountInv,
                      leaked = 0, rpc = "idle", obsEpoch = epoch,
                      \A p \in Producers : ppc[p] = "idle"
               PROVE  enq + failed =
                        delivered + lossReported + (discardedLoss - obsLoss) + pending.count
                        + QueuedLosses
    BY DEF NothingUncounted
  <2>1. PICK a \in Nat, b \in Int, c \in Nat, d \in Nat, o \in Nat, k \in Nat, f \in Nat :
          /\ a = delivered /\ b = lossReported /\ c = termTaken /\ d = discardedLoss
          /\ o = obsLoss /\ k = pending.count /\ f = failed
    BY AccountTypes
  <2>2. PICK x \in Nat, y \in Nat : x = deq /\ y = enq  BY CoreTypes
  <2>3. CarriedBelow(x) \in Nat /\ CarriedBelow(y) \in Nat
    <3>1. x \in 0 .. y /\ y \in 0 .. y  BY <2>2 DEF OwnershipInv, WindowInv
    <3> QED  BY <2>2, <3>1, CarriedTypes DEF AccountInv
  <2>4. a + b - c + (d - o) + 0 = x + CarriedBelow(x)
    BY <2>1, <2>2 DEF AccountInv, BalanceInv, Settled, ReaderOwns
  <2>5. f = CarriedBelow(y) + k + c  BY <2>1, <2>2 DEF AccountInv, FailedInv
  <2>6. QueuedLosses = y - x + CarriedBelow(y) - CarriedBelow(x)
    BY <2>2, QueuedLossesSum DEF AccountInv
  <2> QED  BY <2>1, <2>2, <2>3, <2>4, <2>5, <2>6
<1> QED  BY <1>1, TypeCorrect, Ownership, Accounted, PTL
=============================================================================
