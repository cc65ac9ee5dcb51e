-------------------------- MODULE RuntimeSnapshot --------------------------
(***************************************************************************)
(* How the driver's state reaches the pose callbacks: the IPC thread       *)
(* publishes transactions under runtimeSequence (TrySetRuntimeState,       *)
(* TrySetDeviceTransform), a callback reads its device's slot and the      *)
(* alignment field without a lock (runtimesnapshot::Read), and hands one   *)
(* frame record back for the log (FlushFrameLog).                          *)
(*                                                                         *)
(* A slot is two words here, its envelope and its payload, and so is the   *)
(* field; the payload is only looked at when the envelope says enabled.  A *)
(* word's value is the transaction that wrote it and its enabled flag: a   *)
(* mix of transactions is then visible whatever the numbers are.  Stores   *)
(* come in any order (the code's is one of them).  Callbacks of one device *)
(* exclude each other (poseMutexes), so a device is its reader.            *)
(***************************************************************************)
EXTENDS Integers

CONSTANTS
  Devices,           \* the slots
  Posing,            \* those a tracking driver delivers poses for
  Attempts,          \* tries of one Read (8 in the code)
  MaxTransactions    \* bound: requests it applies; it refuses any number

ASSUME AttemptsAssumption == Attempts \in Nat \ {0}
ASSUME TransactionsAssumption == MaxTransactions \in Nat

Parts == {"envelope", "payload"}
SlotWords == Devices \X Parts
FieldWords == {"field"} \X Parts
Words == SlotWords \cup FieldWords

ASSUME DevicesAssumption == "field" \notin Devices /\ Posing \subseteq Devices

Values == [tx : Nat, on : BOOLEAN]
Neutral == [tx |-> -1, on |-> FALSE]   \* the defaults of what is not loaded
Initial == [tx |-> 0, on |-> FALSE]

VARIABLES
  sequence,      \* runtimeSequence
  mem,           \* the words of transforms and alignmentField
  target,        \* what the transaction in flight stores
  pending,       \* and the words it has left
  applied,       \* transactions applied
  images,        \* history: every state a completed transaction left
  ipc,           \* where the IPC thread is
  flushing,      \* devices whose frame record it has yet to look at
  copying,       \* the device whose record it is reading
  at,            \* where each device's callback is
  before, tries, got,     \* the locals of Read
  lastGood,      \* the last consistent pair of each device
  used,          \* what the device's last callback composed onto its pose
  logged,        \* lastLoggedFrame
  logReady       \* frameLogReady

writerVars == <<sequence, mem, target, pending, applied, images, ipc, flushing, copying>>
readerVars == <<at, before, tries, got, lastGood, used, logged>>
vars == <<writerVars, readerVars, logReady>>

Snapshots == [slot : Values, payload : Values \cup {Neutral},
              field : Values, anchors : Values \cup {Neutral}]

\* What a read of one untouched state returns.
Projection(image, d) ==
  [slot |-> image[<<d, "envelope">>],
   payload |-> IF image[<<d, "envelope">>].on THEN image[<<d, "payload">>] ELSE Neutral,
   field |-> image[<<"field", "envelope">>],
   anchors |-> IF image[<<"field", "envelope">>].on THEN image[<<"field", "payload">>] ELSE Neutral]

Empty == [w \in Words |-> Initial]

Init ==
  /\ sequence = 0 /\ mem = Empty /\ target = Empty /\ pending = {}
  /\ applied = 0 /\ images = {Empty}
  /\ ipc = "idle" /\ flushing = {} /\ copying = {}
  /\ at = [d \in Devices |-> "idle"]
  /\ before = [d \in Devices |-> 0] /\ tries = [d \in Devices |-> 0]
  /\ got = [d \in Devices |-> Projection(Empty, d)]
  /\ lastGood = [d \in Devices |-> Projection(Empty, d)]
  /\ used = [d \in Devices |-> Projection(Empty, d)]
  /\ logged = [d \in Devices |-> Neutral]
  /\ logReady = [d \in Devices |-> FALSE]

-----------------------------------------------------------------------------
(* The IPC thread.                                                         *)

\* A request: FlushFrameLog first, whatever becomes of it.
BeginRequest ==
  /\ ipc = "idle"
  /\ ipc' = "flush" /\ flushing' = Devices
  /\ UNCHANGED <<sequence, mem, target, pending, applied, images, copying, readerVars, logReady>>

SkipRecord(d) ==
  /\ ipc = "flush" /\ d \in flushing /\ ~logReady[d]
  /\ flushing' = flushing \ {d}
  /\ UNCHANGED <<sequence, mem, target, pending, applied, images, ipc, copying, readerVars, logReady>>

CopyRecordUnchecked(d) ==
  /\ ipc = "flush" /\ d \in flushing /\ copying = {}
  /\ copying' = {d} /\ flushing' = flushing \ {d}
  /\ UNCHANGED <<sequence, mem, target, pending, applied, images, ipc, readerVars, logReady>>

CopyRecord(d) ==
  /\ ipc = "flush" /\ d \in flushing /\ copying = {}
  /\ logReady[d]
  /\ copying' = {d} /\ flushing' = flushing \ {d}
  /\ UNCHANGED <<sequence, mem, target, pending, applied, images, ipc, readerVars, logReady>>

ReleaseRecord(d) ==
  /\ d \in copying
  /\ copying' = {}
  /\ logReady' = [logReady EXCEPT ![d] = FALSE]
  /\ UNCHANGED <<sequence, mem, target, pending, applied, images, ipc, flushing, readerVars>>

Flushed == ipc = "flush" /\ flushing = {} /\ copying = {}

\* A stale session or values that fail validation: nothing is applied.
RefuseRequest ==
  /\ Flushed
  /\ ipc' = "idle"
  /\ UNCHANGED <<sequence, mem, target, pending, applied, images, flushing, copying, readerVars, logReady>>

\* The complete state: every slot from the masks, then the field, which is
\* only valid with an enabled device.
RuntimeStateImage(mask, fieldOn) ==
  [w \in Words |-> [tx |-> applied + 1,
                    on |-> IF w \in FieldWords THEN fieldOn ELSE w[1] \in mask]]

\* One device's transform, with a neutral frame.
DeviceTransformImage(d, on) ==
  [w \in Words |-> IF w \in {d} \X Parts THEN [tx |-> applied + 1, on |-> on] ELSE mem[w]]

BeginTransaction(image, words) ==
  /\ Flushed /\ applied < MaxTransactions
  /\ ipc' = "store"
  /\ sequence' = sequence + 1
  /\ target' = image /\ pending' = words
  /\ UNCHANGED <<mem, applied, images, flushing, copying, readerVars, logReady>>

SetRuntimeState ==
  \E mask \in SUBSET Devices, fieldOn \in BOOLEAN :
    /\ fieldOn => mask # {}
    /\ BeginTransaction(RuntimeStateImage(mask, fieldOn), Words)

SetDeviceTransform ==
  \E d \in Devices, on \in BOOLEAN :
    BeginTransaction(DeviceTransformImage(d, on), {d} \X Parts)

Store(w) ==
  /\ ipc = "store" /\ w \in pending
  /\ mem' = [mem EXCEPT ![w] = target[w]]
  /\ pending' = pending \ {w}
  /\ UNCHANGED <<sequence, target, applied, images, ipc, flushing, copying, readerVars, logReady>>

CommitSequenceLeftOdd ==
  /\ ipc = "store" /\ pending = {}
  /\ ipc' = "idle" /\ sequence' = sequence + 2
  /\ applied' = applied + 1 /\ images' = images \cup {target}
  /\ UNCHANGED <<mem, target, pending, flushing, copying, readerVars, logReady>>

Commit ==
  /\ ipc = "store" /\ pending = {}
  /\ ipc' = "idle" /\ sequence' = sequence + 1
  /\ applied' = applied + 1 /\ images' = images \cup {target}
  /\ UNCHANGED <<mem, target, pending, flushing, copying, readerVars, logReady>>

IpcStep ==
  \/ \E d \in Devices : SkipRecord(d) \/ CopyRecord(d) \/ ReleaseRecord(d)
  \/ RefuseRequest \/ SetRuntimeState \/ SetDeviceTransform
  \/ \E w \in Words : Store(w)
  \/ Commit

-----------------------------------------------------------------------------
(* A pose callback (HandleDevicePoseUpdated).                              *)

Goto(d, from, to) == at[d] = from /\ at' = [at EXCEPT ![d] = to]

BeginCallback(d) ==
  /\ Goto(d, "idle", "begin")
  /\ tries' = [tries EXCEPT ![d] = 0]
  /\ UNCHANGED <<writerVars, before, got, lastGood, used, logged, logReady>>

\* An attempt: the sequence, and again while it is odd.
LoadBefore(d) ==
  /\ tries[d] < Attempts
  /\ Goto(d, "begin", IF sequence % 2 = 0 THEN "slot" ELSE "begin")
  /\ before' = [before EXCEPT ![d] = sequence]
  /\ tries' = [tries EXCEPT ![d] = @ + 1]
  /\ UNCHANGED <<writerVars, got, lastGood, used, logged, logReady>>

LoadEnvelope(d) ==
  /\ Goto(d, "slot", IF mem[<<d, "envelope">>].on THEN "payload" ELSE "field")
  /\ got' = [got EXCEPT ![d] = [@ EXCEPT !.slot = mem[<<d, "envelope">>], !.payload = Neutral]]
  /\ UNCHANGED <<writerVars, before, tries, lastGood, used, logged, logReady>>

LoadPayload(d) ==
  /\ Goto(d, "payload", "field")
  /\ got' = [got EXCEPT ![d] = [@ EXCEPT !.payload = mem[<<d, "payload">>]]]
  /\ UNCHANGED <<writerVars, before, tries, lastGood, used, logged, logReady>>

LoadField(d) ==
  /\ Goto(d, "field", IF mem[<<"field", "envelope">>].on THEN "anchors" ELSE "after")
  /\ got' = [got EXCEPT ![d] = [@ EXCEPT !.field = mem[<<"field", "envelope">>],
                                       !.anchors = Neutral]]
  /\ UNCHANGED <<writerVars, before, tries, lastGood, used, logged, logReady>>

LoadAnchors(d) ==
  /\ Goto(d, "anchors", "after")
  /\ got' = [got EXCEPT ![d] = [@ EXCEPT !.anchors = mem[<<"field", "payload">>]]]
  /\ UNCHANGED <<writerVars, before, tries, lastGood, used, logged, logReady>>

AcceptUnchecked(d) ==
  /\ Goto(d, "after", "apply")
  /\ lastGood' = [lastGood EXCEPT ![d] = got[d]]
  /\ used' = [used EXCEPT ![d] = got[d]]
  /\ UNCHANGED <<writerVars, before, tries, got, logged, logReady>>

Accept(d) ==
  /\ sequence = before[d]
  /\ Goto(d, "after", "apply")
  /\ lastGood' = [lastGood EXCEPT ![d] = got[d]]
  /\ used' = [used EXCEPT ![d] = got[d]]
  /\ UNCHANGED <<writerVars, before, tries, got, logged, logReady>>

Retry(d) ==
  /\ sequence # before[d]
  /\ Goto(d, "after", "begin")
  /\ UNCHANGED <<writerVars, before, tries, got, lastGood, used, logged, logReady>>

\* Every attempt raced a write.
FallBack(d) ==
  /\ tries[d] = Attempts
  /\ Goto(d, "begin", "apply")
  /\ used' = [used EXCEPT ![d] = lastGood[d]]
  /\ UNCHANGED <<writerVars, before, tries, got, lastGood, logged, logReady>>

WantsLog(d) == used[d].slot.on /\ logged[d] # used[d].payload

\* A frame the log has not seen: write the record if it is free ...
BeginRecord(d) ==
  /\ WantsLog(d) /\ ~logReady[d]
  /\ Goto(d, "apply", "record")
  /\ UNCHANGED <<writerVars, before, tries, got, lastGood, used, logged, logReady>>

EndRecord(d) ==
  /\ Goto(d, "record", "idle")
  /\ logReady' = [logReady EXCEPT ![d] = TRUE]
  /\ logged' = [logged EXCEPT ![d] = used[d].payload]
  /\ UNCHANGED <<writerVars, before, tries, got, lastGood, used>>

\* ... or leave it to a later pose; an invalid pose is not logged at all.
SkipLog(d) ==
  /\ Goto(d, "apply", "idle")
  /\ UNCHANGED <<writerVars, before, tries, got, lastGood, used, logged, logReady>>

CallbackStep(d) ==
  \/ LoadBefore(d) \/ LoadEnvelope(d) \/ LoadPayload(d) \/ LoadField(d) \/ LoadAnchors(d)
  \/ Accept(d) \/ Retry(d) \/ FallBack(d) \/ BeginRecord(d) \/ EndRecord(d) \/ SkipLog(d)

-----------------------------------------------------------------------------

Next ==
  \/ BeginRequest \/ IpcStep
  \/ \E d \in Posing : BeginCallback(d) \/ CallbackStep(d)

Spec == Init /\ [][Next]_vars

\* A request being handled is finished; poses keep coming.
FairSpec ==
  /\ Spec
  /\ WF_vars(IpcStep)
  /\ \A d \in Posing : WF_vars(BeginCallback(d) \/ CallbackStep(d))

-----------------------------------------------------------------------------
(* Properties.                                                             *)

\* Every variable has its type, and the sequence is odd exactly while a
\* transaction is being stored.
TypeOK ==
  /\ sequence \in Nat /\ (sequence % 2 = 1 <=> ipc = "store")
  /\ mem \in [Words -> Values] /\ target \in [Words -> Values]
  /\ pending \subseteq Words
  /\ applied \in Nat /\ images \subseteq [Words -> Values]
  /\ ipc \in {"idle", "flush", "store"}
  /\ flushing \subseteq Devices /\ copying \subseteq Devices
  /\ at \in [Devices -> {"idle", "begin", "slot", "payload", "field", "anchors", "after",
                         "apply", "record"}]
  /\ before \in [Devices -> Nat] /\ tries \in [Devices -> Nat]
  /\ got \in [Devices -> Snapshots] /\ lastGood \in [Devices -> Snapshots]
  /\ used \in [Devices -> Snapshots]
  /\ logged \in [Devices -> Values \cup {Neutral}] /\ logReady \in [Devices -> BOOLEAN]

\* What a callback composes is one transaction's state: never a base from one
\* and a field from another, nor half a slot, however often it raced writes.
CoherentSnapshot ==
  \A d \in Devices : \E image \in images : used[d] = Projection(image, d)

NotOlder ==
  \A d \in Devices : /\ used'[d].slot.tx >= used[d].slot.tx
                    /\ used'[d].field.tx >= used[d].field.tx

\* A device never goes back to an older transaction, also when it falls back.
NeverOlder == [][NotOlder]_vars

\* The frame record is never written while the IPC thread copies it.
FrameRecordExclusive ==
  \A d \in Devices : ~(at[d] = "record" /\ d \in copying)

\* Once requests stop, every device that has poses composes the last state.
EventuallyCurrent ==
  (<>[](ipc = "idle")) => <>[](\A d \in Posing : used[d] = Projection(mem, d))

=============================================================================
