------------------------- MODULE DriverProof -------------------------
(***************************************************************************)
(* Proofs about the driver's provider, ServerTrackedDeviceProvider: the    *)
(* state its callbacks read (RuntimeSnapshot), and its life and hooks      *)
(* (HookLifecycle).                                                        *)
(***************************************************************************)
EXTENDS HookLifecycle, RuntimeSnapshot, TLAPS

-----------------------------------------------------------------------------
(* The snapshot protocol, for any slots, any number of attempts and any    *)
(* number of transactions.                                                 *)

\* The sequence counts transactions twice; between transactions memory is a
\* state some transaction left, inside one every word not pending is the
\* target's.
WriterInv ==
  /\ sequence = 2 * applied + (IF ipc = "store" THEN 1 ELSE 0)
  /\ ipc # "store" => mem \in images
  /\ ipc = "store" => \A w \in Words : w \notin pending => mem[w] = target[w]

\* Where a callback holds a part of a snapshot, that part is memory's unless
\* the sequence has moved on since.
Matches(d) ==
  CASE at[d] = "payload" -> /\ got[d].slot = Projection(mem, d).slot
                            /\ mem[<<d, "envelope">>].on
    [] at[d] = "field" -> /\ got[d].slot = Projection(mem, d).slot
                          /\ got[d].payload = Projection(mem, d).payload
    [] at[d] = "anchors" -> /\ got[d].slot = Projection(mem, d).slot
                            /\ got[d].payload = Projection(mem, d).payload
                            /\ got[d].field = Projection(mem, d).field
                            /\ mem[<<"field", "envelope">>].on
    [] at[d] = "after" -> got[d] = Projection(mem, d)
    [] OTHER -> TRUE

Loading == {"slot", "payload", "field", "anchors", "after"}

ReaderInv ==
  \A d \in Devices : at[d] \in Loading =>
    /\ before[d] % 2 = 0 /\ before[d] <= sequence
    /\ before[d] = sequence => Matches(d)

\* A record is copied only while it is ready, and written only while it is not.
RecordInv ==
  \A d \in Devices : /\ d \in copying => logReady[d]
                     /\ at[d] = "record" => ~logReady[d]

\* What is composed is what the device last accepted.
KeptInv == lastGood = used

Inv == TypeOK /\ WriterInv /\ ReaderInv /\ RecordInv /\ KeptInv /\ CoherentSnapshot

-----------------------------------------------------------------------------
(* The words of a device, and what an untouched state projects to.         *)

LEMMA WordsOf ==
  ASSUME NEW d \in Devices
  PROVE  /\ <<d, "envelope">> \in Words /\ <<d, "payload">> \in Words
         /\ <<"field", "envelope">> \in Words /\ <<"field", "payload">> \in Words
         /\ {d} \X Parts \subseteq Words
  BY DEF Words, SlotWords, FieldWords, Parts

LEMMA ProjectionType ==
  ASSUME NEW d \in Devices, NEW image \in [Words -> Values]
  PROVE  Projection(image, d) \in Snapshots
  <1>1. /\ image[<<d, "envelope">>] \in Values /\ image[<<d, "payload">>] \in Values
        /\ image[<<"field", "envelope">>] \in Values /\ image[<<"field", "payload">>] \in Values
    BY WordsOf
  <1> QED
    BY <1>1 DEF Projection, Snapshots

LEMMA SnapshotUpdates ==
  ASSUME NEW r \in Snapshots, NEW v \in Values
  PROVE  /\ [r EXCEPT !.slot = v, !.payload = Neutral] \in Snapshots
         /\ [r EXCEPT !.payload = v] \in Snapshots
         /\ [r EXCEPT !.field = v, !.anchors = Neutral] \in Snapshots
         /\ [r EXCEPT !.anchors = v] \in Snapshots
  BY DEF Snapshots

LEMMA ImageTypes ==
  ASSUME TypeOK
  PROVE  /\ \A mask \in SUBSET Devices, on \in BOOLEAN : RuntimeStateImage(mask, on) \in [Words -> Values]
         /\ \A d \in Devices, on \in BOOLEAN : DeviceTransformImage(d, on) \in [Words -> Values]
  <1> USE DEF TypeOK
  <1>0. \A n \in Nat, b \in BOOLEAN : [tx |-> n, on |-> b] \in Values
    BY DEF Values
  <1>1. ASSUME NEW mask \in SUBSET Devices, NEW on \in BOOLEAN
        PROVE  RuntimeStateImage(mask, on) \in [Words -> Values]
    <2>1. \A w \in Words : (IF w \in FieldWords THEN on ELSE w[1] \in mask) \in BOOLEAN
      <3>1. \A x, set : (x \in set) \in BOOLEAN
        OBVIOUS
      <3>2. \A w \in Words : w \in FieldWords => (IF w \in FieldWords THEN on ELSE w[1] \in mask) = on
        BY Zenon
      <3>3. \A w \in Words : w \notin FieldWords =>
                (IF w \in FieldWords THEN on ELSE w[1] \in mask) = (w[1] \in mask)
        BY Zenon
      <3> QED
        BY <3>1, <3>2, <3>3, Zenon
    <2>2. \A w \in Words : [tx |-> applied + 1, on |-> IF w \in FieldWords THEN on ELSE w[1] \in mask]
                            \in Values
      <3>1. applied + 1 \in Nat
        OBVIOUS
      <3> QED
        BY <2>1, <3>1, <1>0, Zenon
    <2> QED
      BY <2>2, Zenon DEF RuntimeStateImage
  <1>2. ASSUME NEW d \in Devices, NEW on \in BOOLEAN
        PROVE  DeviceTransformImage(d, on) \in [Words -> Values]
    BY <1>2 DEF DeviceTransformImage, Values
  <1> QED
    BY <1>1, <1>2

-----------------------------------------------------------------------------
(* Types.                                                                  *)

LEMMA TypeInit == Init => TypeOK
  <1> SUFFICES ASSUME Init PROVE TypeOK
    OBVIOUS
  <1>1. Empty \in [Words -> Values]
    BY DEF Empty, Initial, Values
  <1>2. \A d \in Devices : Projection(Empty, d) \in Snapshots
    BY <1>1, ProjectionType
  <1>3. logReady \in [Devices -> BOOLEAN]
    BY ZenonT(20) DEF Init
  <1>4. sequence % 2 = 0 /\ ipc # "store"
    BY DEF Init
  <1> QED
    BY <1>1, <1>2, <1>3, <1>4 DEF Init, TypeOK

LEMMA TypeStep == TypeOK /\ [Next]_vars => TypeOK'
  <1> SUFFICES ASSUME TypeOK, [Next]_vars PROVE TypeOK'
    OBVIOUS
  <1> USE DEF TypeOK, writerVars, readerVars
  <1>1. CASE UNCHANGED vars
    BY <1>1 DEF vars
  <1>2. CASE BeginRequest
    BY <1>2 DEF BeginRequest
  <1>3. ASSUME NEW d \in Devices, SkipRecord(d) \/ CopyRecord(d) PROVE TypeOK'
    BY <1>3 DEF SkipRecord, CopyRecord
  <1>4. ASSUME NEW d \in Devices, ReleaseRecord(d) PROVE TypeOK'
    BY <1>4 DEF ReleaseRecord
  <1>5. CASE RefuseRequest
    BY <1>5 DEF RefuseRequest, Flushed
  <1>6. ASSUME NEW image \in [Words -> Values], NEW words \in SUBSET Words,
               BeginTransaction(image, words)
        PROVE  TypeOK'
    BY <1>6 DEF BeginTransaction, Flushed
  <1>7. CASE SetRuntimeState
    BY <1>6, <1>7, ImageTypes DEF SetRuntimeState
  <1>8. CASE SetDeviceTransform
    BY <1>6, <1>8, ImageTypes, WordsOf DEF SetDeviceTransform
  <1>9. ASSUME NEW w \in Words, Store(w) PROVE TypeOK'
    BY <1>9 DEF Store
  <1>10. CASE Commit
    BY <1>10 DEF Commit
  <1>11. ASSUME NEW d \in Devices, BeginCallback(d) PROVE TypeOK'
    BY <1>11 DEF BeginCallback, Goto
  <1>12. ASSUME NEW d \in Devices, LoadBefore(d) PROVE TypeOK'
    BY <1>12 DEF LoadBefore, Goto
  <1>13. ASSUME NEW d \in Devices, LoadEnvelope(d) PROVE TypeOK'
    BY <1>13, WordsOf, SnapshotUpdates DEF LoadEnvelope, Goto
  <1>14. ASSUME NEW d \in Devices, LoadPayload(d) PROVE TypeOK'
    BY <1>14, WordsOf, SnapshotUpdates DEF LoadPayload, Goto
  <1>15. ASSUME NEW d \in Devices, LoadField(d) PROVE TypeOK'
    BY <1>15, WordsOf, SnapshotUpdates DEF LoadField, Goto
  <1>16. ASSUME NEW d \in Devices, LoadAnchors(d) PROVE TypeOK'
    BY <1>16, WordsOf, SnapshotUpdates DEF LoadAnchors, Goto
  <1>17. ASSUME NEW d \in Devices, Accept(d) \/ Retry(d) \/ FallBack(d) PROVE TypeOK'
    BY <1>17 DEF Accept, Retry, FallBack, Goto
  <1>18. ASSUME NEW d \in Devices, BeginRecord(d) \/ SkipLog(d) PROVE TypeOK'
    BY <1>18 DEF BeginRecord, SkipLog, Goto
  <1>19. ASSUME NEW d \in Devices, EndRecord(d) PROVE TypeOK'
    BY <1>19 DEF EndRecord, Goto, Snapshots
  <1> QED
    BY <1>1, <1>2, <1>3, <1>4, <1>5, <1>7, <1>8, <1>9, <1>10, <1>11, <1>12, <1>13, <1>14,
       <1>15, <1>16, <1>17, <1>18, <1>19, DevicesAssumption DEF Next, IpcStep, CallbackStep

\* Every variable keeps its type, and the sequence is odd exactly while the
\* IPC thread is storing a transaction (the two fetch_adds around the stores).
THEOREM SnapshotTypes == Spec => []TypeOK
  <1> QED
    BY TypeInit, TypeStep, PTL DEF Spec

-----------------------------------------------------------------------------
(* The invariant, first the steps that leave memory alone.                 *)

LEMMA InvInit == Init => Inv
  <1> SUFFICES ASSUME Init PROVE Inv
    OBVIOUS
  <1>1. TypeOK
    BY TypeInit
  <1>2. WriterInv
    BY DEF Init, WriterInv
  <1>3. ReaderInv
    BY DEF Init, ReaderInv, Loading
  <1>4. RecordInv
    BY DEF Init, RecordInv
  <1>5. KeptInv
    BY DEF Init, KeptInv
  <1>6. CoherentSnapshot
    BY DEF Init, CoherentSnapshot
  <1> QED
    BY <1>1, <1>2, <1>3, <1>4, <1>5, <1>6 DEF Inv

LEMMA WriterStep == Inv /\ [Next]_vars => WriterInv'
  <1> SUFFICES ASSUME Inv, [Next]_vars PROVE WriterInv'
    OBVIOUS
  <1> USE DEF Inv, WriterInv, writerVars
  <1>1. CASE UNCHANGED writerVars
    BY <1>1
  <1>2. CASE BeginRequest
    BY <1>2 DEF BeginRequest
  <1>3. ASSUME NEW d \in Devices, SkipRecord(d) \/ CopyRecord(d) \/ ReleaseRecord(d)
        PROVE  WriterInv'
    BY <1>3 DEF SkipRecord, CopyRecord, ReleaseRecord
  <1>4. CASE RefuseRequest
    BY <1>4 DEF RefuseRequest, Flushed
  <1>5. CASE SetRuntimeState
    BY <1>5 DEF SetRuntimeState, BeginTransaction, Flushed, TypeOK
  <1>6. CASE SetDeviceTransform
    <2> PICK d \in Devices, on \in BOOLEAN :
               BeginTransaction(DeviceTransformImage(d, on), {d} \X Parts)
      BY <1>6 DEF SetDeviceTransform
    <2>1. \A w \in Words : w \notin {d} \X Parts => mem[w] = DeviceTransformImage(d, on)[w]
      BY DEF DeviceTransformImage
    <2> QED
      BY <2>1 DEF BeginTransaction, Flushed, TypeOK
  <1>7. ASSUME NEW w \in Words, Store(w) PROVE WriterInv'
    BY <1>7 DEF Store, TypeOK
  <1>8. CASE Commit
    <2>1. mem = target
      BY <1>8 DEF Commit, TypeOK
    <2> QED
      BY <1>8, <2>1 DEF Commit, TypeOK
  <1>9. ASSUME NEW d \in Devices, BeginCallback(d) \/ CallbackStep(d) PROVE UNCHANGED writerVars
    BY <1>9 DEF BeginCallback, CallbackStep, LoadBefore, LoadEnvelope, LoadPayload, LoadField,
       LoadAnchors, Accept, Retry, FallBack, BeginRecord, EndRecord, SkipLog
  <1> QED
    BY <1>1, <1>2, <1>3, <1>4, <1>5, <1>6, <1>7, <1>8, <1>9, DevicesAssumption
    DEF Next, IpcStep, vars

\* A writer's step moves the sequence on, or leaves memory as it is, or is a
\* store, while the sequence is odd.
LEMMA WriterSteps ==
  ASSUME Inv, BeginRequest \/ IpcStep
  PROVE  /\ UNCHANGED readerVars
         /\ images \subseteq images'
         /\ \/ sequence' = sequence + 1
            \/ sequence' = sequence /\ UNCHANGED mem
            \/ sequence' = sequence /\ sequence % 2 = 1
  <1> USE DEF Inv, TypeOK
  <1>1. CASE BeginRequest
    BY <1>1 DEF BeginRequest
  <1>2. ASSUME NEW d \in Devices, SkipRecord(d) \/ CopyRecord(d) \/ ReleaseRecord(d)
        PROVE  UNCHANGED <<readerVars, sequence, mem, images>>
    BY <1>2 DEF SkipRecord, CopyRecord, ReleaseRecord
  <1>3. CASE RefuseRequest
    BY <1>3 DEF RefuseRequest
  <1>4. CASE SetRuntimeState \/ SetDeviceTransform
    BY <1>4 DEF SetRuntimeState, SetDeviceTransform, BeginTransaction
  <1>5. ASSUME NEW w \in Words, Store(w)
        PROVE  UNCHANGED <<readerVars, sequence, images>> /\ sequence % 2 = 1
    BY <1>5 DEF Store
  <1>6. CASE Commit
    BY <1>6 DEF Commit
  <1> QED
    BY <1>1, <1>2, <1>3, <1>4, <1>5, <1>6 DEF IpcStep

LEMMA ReaderStep == Inv /\ [Next]_vars => ReaderInv'
  <1> SUFFICES ASSUME Inv, [Next]_vars PROVE ReaderInv'
    OBVIOUS
  <1>0. TypeOK'
    BY TypeStep DEF Inv
  <1>1. CASE UNCHANGED vars
    BY <1>1 DEF vars, readerVars, writerVars, Inv, ReaderInv, Matches, Projection
  <1>2. CASE BeginRequest \/ IpcStep
    <2>1. UNCHANGED <<at, before, got>>
      BY <1>2, WriterSteps DEF readerVars
    <2>2. SUFFICES ASSUME NEW d \in Devices, at[d] \in Loading
                   PROVE  /\ before[d] % 2 = 0 /\ before[d] <= sequence'
                          /\ before[d] = sequence' => Matches(d)'
      BY <2>1 DEF ReaderInv
    <2>3. /\ before[d] % 2 = 0 /\ before[d] <= sequence /\ before[d] \in Nat /\ sequence \in Nat
          /\ before[d] = sequence => Matches(d)
      BY <2>2 DEF Inv, ReaderInv, TypeOK
    <2>4. CASE sequence' = sequence + 1
      BY <2>3, <2>4
    <2>5. CASE sequence' = sequence /\ UNCHANGED mem
      BY <2>1, <2>3, <2>5 DEF Matches, Projection
    <2>6. CASE sequence' = sequence /\ sequence % 2 = 1
      BY <2>3, <2>6
    <2> QED
      BY <1>2, <2>4, <2>5, <2>6, WriterSteps
  <1>3. ASSUME NEW d \in Devices, BeginCallback(d) \/ CallbackStep(d) PROVE ReaderInv'
    <2>1. UNCHANGED <<sequence, mem>>
      BY <1>3 DEF BeginCallback, CallbackStep, LoadBefore, LoadEnvelope, LoadPayload, LoadField,
         LoadAnchors, Accept, Retry, FallBack, BeginRecord, EndRecord, SkipLog, writerVars
    <2>2. \A e \in Devices \ {d} : at'[e] = at[e] /\ before'[e] = before[e] /\ got'[e] = got[e]
      BY <1>3 DEF BeginCallback, CallbackStep, LoadBefore, LoadEnvelope, LoadPayload, LoadField,
         LoadAnchors, Accept, Retry, FallBack, BeginRecord, EndRecord, SkipLog, Goto, Inv, TypeOK
    <2>3. \A e \in Devices \ {d} : Matches(e) => Matches(e)'
      BY <2>1, <2>2 DEF Matches, Projection
    <2>4. ASSUME at'[d] \in Loading
          PROVE  /\ before'[d] % 2 = 0 /\ before'[d] <= sequence
                 /\ before'[d] = sequence => Matches(d)'
      <3> USE DEF Goto, Loading
      <3>1. CASE BeginCallback(d) \/ Accept(d) \/ Retry(d) \/ FallBack(d) \/ BeginRecord(d)
                 \/ EndRecord(d) \/ SkipLog(d)
        BY <2>4, <3>1 DEF BeginCallback, Accept, Retry, FallBack, BeginRecord, EndRecord, SkipLog,
           Inv, TypeOK
      <3>2. CASE LoadBefore(d)
        BY <2>4, <3>2 DEF LoadBefore, Matches, Inv, TypeOK
      <3>3. CASE LoadEnvelope(d)
        BY <2>4, <3>3, <2>1, WordsOf DEF LoadEnvelope, Matches, Projection, Inv, TypeOK, ReaderInv,
           Snapshots
      <3>4. CASE LoadPayload(d)
        BY <2>4, <3>4, <2>1, WordsOf DEF LoadPayload, Matches, Projection, Inv, TypeOK, ReaderInv,
           Snapshots
      <3>5. CASE LoadField(d)
        <4>1. /\ before'[d] = before[d] /\ before[d] % 2 = 0 /\ before[d] <= sequence
              /\ before[d] = sequence => /\ got[d].slot = Projection(mem, d).slot
                                         /\ got[d].payload = Projection(mem, d).payload
          BY <3>5 DEF LoadField, Matches, Inv, TypeOK, ReaderInv
        <4>2. /\ got'[d] = [got[d] EXCEPT !.field = mem[<<"field", "envelope">>], !.anchors = Neutral]
              /\ got[d] \in Snapshots
              /\ at'[d] = IF mem[<<"field", "envelope">>].on THEN "anchors" ELSE "after"
          BY <3>5 DEF LoadField, Inv, TypeOK
        <4>3. /\ got'[d].slot = got[d].slot /\ got'[d].payload = got[d].payload
              /\ got'[d].field = mem[<<"field", "envelope">>] /\ got'[d].anchors = Neutral
              /\ got'[d] = [slot |-> got[d].slot, payload |-> got[d].payload,
                            field |-> mem[<<"field", "envelope">>], anchors |-> Neutral]
          BY <4>2 DEF Snapshots
        <4>4. CASE mem[<<"field", "envelope">>].on
          BY <2>1, <4>1, <4>2, <4>3, <4>4 DEF Matches, Projection
        <4>5. CASE ~mem[<<"field", "envelope">>].on
          BY <2>1, <4>1, <4>2, <4>3, <4>5 DEF Matches, Projection
        <4> QED
          BY <4>4, <4>5
      <3>6. CASE LoadAnchors(d)
        BY <2>4, <3>6, <2>1, WordsOf DEF LoadAnchors, Matches, Projection, Inv, TypeOK, ReaderInv,
           Snapshots
      <3> QED
        BY <1>3, <3>1, <3>2, <3>3, <3>4, <3>5, <3>6 DEF CallbackStep
    <2> QED
      BY <2>1, <2>2, <2>3, <2>4 DEF ReaderInv, Inv
  <1> QED
    BY <1>1, <1>2, <1>3, DevicesAssumption DEF Next

-----------------------------------------------------------------------------
(* The frame records, and what callbacks compose.                          *)

LEMMA RecordStep == Inv /\ [Next]_vars => RecordInv'
  <1> SUFFICES ASSUME Inv, [Next]_vars PROVE RecordInv'
    OBVIOUS
  <1> USE DEF RecordInv
  <1>0. TypeOK /\ RecordInv
    BY DEF Inv
  <1>1. CASE UNCHANGED <<at, copying, logReady>>
    BY <1>0, <1>1
  <1>2. ASSUME NEW d \in Devices, CopyRecord(d) PROVE RecordInv'
    BY <1>0, <1>2 DEF CopyRecord, readerVars
  <1>3. ASSUME NEW d \in Devices, ReleaseRecord(d) PROVE RecordInv'
    <2>1. copying' = {} /\ at' = at /\ logReady' = [logReady EXCEPT ![d] = FALSE]
      BY <1>3 DEF ReleaseRecord, readerVars
    <2>2. \A e \in Devices : ~logReady[e] => ~logReady'[e]
      BY ONLY <1>0, <2>1, Zenon DEF TypeOK
    <2> QED
      BY <1>0, <2>1, <2>2, Zenon
  <1>4. ASSUME NEW d \in Devices, BeginRecord(d) PROVE RecordInv'
    BY <1>0, <1>4 DEF BeginRecord, Goto, TypeOK, writerVars
  <1>5. ASSUME NEW d \in Devices, EndRecord(d) PROVE RecordInv'
    <2>1. /\ copying' = copying /\ logReady' = [logReady EXCEPT ![d] = TRUE]
          /\ at' = [at EXCEPT ![d] = "idle"]
      BY <1>5 DEF EndRecord, Goto, writerVars
    <2>2. \A e \in Devices : logReady'[e] = IF e = d THEN TRUE ELSE logReady[e]
      BY ONLY <1>0, <2>1, Zenon DEF TypeOK
    <2>3. \A e \in Devices : at'[e] = IF e = d THEN "idle" ELSE at[e]
      BY ONLY <1>0, <2>1, Zenon DEF TypeOK
    <2>4. "idle" # "record"
      OBVIOUS
    <2> QED
      BY <1>0, <2>1, <2>2, <2>3, <2>4, Zenon
  <1>6. ASSUME NEW d \in Devices,
               \/ BeginCallback(d) \/ LoadBefore(d) \/ LoadEnvelope(d) \/ LoadPayload(d)
               \/ LoadField(d) \/ LoadAnchors(d) \/ Accept(d) \/ Retry(d) \/ FallBack(d)
               \/ SkipLog(d)
        PROVE  RecordInv'
    <2>1. copying' = copying /\ logReady' = logReady
      BY <1>6 DEF BeginCallback, LoadBefore, LoadEnvelope, LoadPayload, LoadField, LoadAnchors,
         Accept, Retry, FallBack, SkipLog, writerVars
    <2>2. \A e \in Devices : at'[e] = "record" => at[e] = "record"
      BY <1>0, <1>6 DEF BeginCallback, LoadBefore, LoadEnvelope, LoadPayload, LoadField,
      LoadAnchors,
         Accept, Retry, FallBack, SkipLog, Goto, TypeOK
    <2> QED
      BY <1>0, <2>1, <2>2
  <1>7. CASE BeginRequest \/ RefuseRequest \/ SetRuntimeState \/ SetDeviceTransform \/ Commit
    BY <1>1, <1>7 DEF BeginRequest, RefuseRequest, SetRuntimeState, SetDeviceTransform,
       BeginTransaction, Commit, readerVars
  <1>8. ASSUME \/ \E d \in Devices : SkipRecord(d)
               \/ \E w \in Words : Store(w)
        PROVE  RecordInv'
    BY <1>0, <1>8 DEF SkipRecord, Store, readerVars
  <1>9. CASE UNCHANGED vars
    BY <1>1, <1>9 DEF vars, readerVars, writerVars
  <1> QED
    BY <1>2, <1>3, <1>4, <1>5, <1>6, <1>7, <1>8, <1>9, DevicesAssumption
    DEF Next, IpcStep, CallbackStep

\* A callback's step leaves the kept pair alone, or takes the pair it loaded,
\* which no write has touched since, to be both kept and composed.
LEMMA UseSteps ==
  ASSUME Inv, [Next]_vars
  PROVE  /\ images \subseteq images'
         /\ \/ UNCHANGED <<used, lastGood>>
            \/ \E d \in Devices : /\ mem \in images /\ UNCHANGED mem
                                 /\ used' = [used EXCEPT ![d] = Projection(mem, d)]
                                 /\ lastGood' = [lastGood EXCEPT ![d] = Projection(mem, d)]
  <1>1. CASE UNCHANGED vars
    BY <1>1 DEF vars, readerVars, writerVars
  <1>2. CASE BeginRequest \/ IpcStep
    BY <1>2, WriterSteps DEF readerVars
  <1>3. ASSUME NEW d \in Devices,
               \/ BeginCallback(d) \/ LoadBefore(d) \/ LoadEnvelope(d) \/ LoadPayload(d)
               \/ LoadField(d) \/ LoadAnchors(d) \/ Retry(d) \/ BeginRecord(d) \/ EndRecord(d)
               \/ SkipLog(d)
        PROVE  UNCHANGED <<images, used, lastGood>>
    BY <1>3 DEF BeginCallback, LoadBefore, LoadEnvelope, LoadPayload, LoadField, LoadAnchors,
       Retry, BeginRecord, EndRecord, SkipLog, writerVars
  <1>4. ASSUME NEW d \in Devices, FallBack(d)
        PROVE  UNCHANGED <<images, used, lastGood>>
    <2>1. used' = [used EXCEPT ![d] = lastGood[d]] /\ UNCHANGED <<images, lastGood>>
      BY <1>4 DEF FallBack, writerVars
    <2>2. used \in [Devices -> Snapshots] /\ lastGood = used
      BY DEF Inv, TypeOK, KeptInv
    <2> QED
      BY <2>1, <2>2
  <1>5. ASSUME NEW d \in Devices, Accept(d)
        PROVE  /\ mem \in images /\ UNCHANGED <<images, mem>>
               /\ used' = [used EXCEPT ![d] = Projection(mem, d)]
               /\ lastGood' = [lastGood EXCEPT ![d] = Projection(mem, d)]
    <2>1. at[d] = "after" /\ sequence = before[d]
      BY <1>5 DEF Accept, Goto
    <2>2. got[d] = Projection(mem, d) /\ sequence % 2 = 0
      BY <2>1 DEF Inv, ReaderInv, Matches, Loading
    <2>3. mem \in images
      BY <2>2 DEF Inv, TypeOK, WriterInv
    <2> QED
      BY <1>5, <2>2, <2>3 DEF Accept, writerVars
  <1> QED
    BY <1>1, <1>2, <1>3, <1>4, <1>5, DevicesAssumption DEF Next, CallbackStep

LEMMA UsedStep == Inv /\ [Next]_vars => KeptInv' /\ CoherentSnapshot'
  <1> SUFFICES ASSUME Inv, [Next]_vars PROVE KeptInv' /\ CoherentSnapshot'
    OBVIOUS
  <1>1. /\ lastGood = used /\ used \in [Devices -> Snapshots]
        /\ \A e \in Devices : \E image \in images : used[e] = Projection(image, e)
    BY DEF Inv, TypeOK, KeptInv, CoherentSnapshot
  <1>3. images \subseteq images'
    BY UseSteps
  <1>4. CASE UNCHANGED <<used, lastGood>>
    BY <1>1, <1>3, <1>4 DEF KeptInv, CoherentSnapshot, Projection
  <1>5. ASSUME NEW d \in Devices, mem \in images, UNCHANGED mem,
               used' = [used EXCEPT ![d] = Projection(mem, d)],
               lastGood' = [lastGood EXCEPT ![d] = Projection(mem, d)]
        PROVE  KeptInv' /\ CoherentSnapshot'
    <2>1. KeptInv'
      BY <1>1, <1>5 DEF KeptInv
    <2>2. \A e \in Devices : \E image \in images' : used'[e] = Projection(image, e)
      BY <1>1, <1>3, <1>5
    <2> QED
      BY <2>1, <2>2 DEF CoherentSnapshot, Projection
  <1> QED
    BY <1>4, <1>5, UseSteps

LEMMA InvStep == Inv /\ [Next]_vars => Inv'
  BY TypeStep, WriterStep, ReaderStep, RecordStep, UsedStep DEF Inv

LEMMA Invariance == Spec => []Inv
  <1> QED
    BY InvInit, InvStep, PTL DEF Spec

\* Whatever a callback composes is one transaction's base, frame and field,
\* for any number of slots and however often its reads raced writes (Read).
THEOREM Coherence == Spec => []CoherentSnapshot
  <1>1. Inv => CoherentSnapshot
    BY DEF Inv
  <1> QED
    BY <1>1, Invariance, PTL

\* The pose thread and FlushFrameLog never have the same frame record.
THEOREM RecordExclusion == Spec => []FrameRecordExclusive
  <1>1. Inv => FrameRecordExclusive
    BY Zenon DEF Inv, RecordInv, FrameRecordExclusive
  <1> QED
    BY <1>1, Invariance, PTL

-----------------------------------------------------------------------------
(* No device goes back to an older transaction.                            *)

MemoryAge ==
  /\ ipc # "store" => \A w \in Words : mem[w].tx <= applied
  /\ ipc = "store" => \A w \in Words : mem[w].tx <= target[w].tx /\ target[w].tx <= applied + 1

UsedAge ==
  \A d \in Devices : /\ used[d].slot.tx <= mem[<<d, "envelope">>].tx
                    /\ used[d].field.tx <= mem[<<"field", "envelope">>].tx

AgeInv == MemoryAge /\ UsedAge

LEMMA AgeInit == Init => AgeInv
  <1> SUFFICES ASSUME Init PROVE AgeInv
    OBVIOUS
  <1>1. mem = Empty /\ applied = 0 /\ ipc = "idle" /\ used = [d \in Devices |-> Projection(Empty, d)]
    BY DEF Init
  <1>2. \A w \in Words : Empty[w].tx = 0
    BY DEF Empty, Initial
  <1> QED
    BY <1>1, <1>2, WordsOf DEF AgeInv, MemoryAge, UsedAge, Projection

\* Words only move on to later transactions.
LEMMA MemoryStep ==
  ASSUME Inv, AgeInv, [Next]_vars
  PROVE  /\ \A w \in Words : mem[w].tx <= mem'[w].tx
         /\ MemoryAge'
  <1> DEFINE Goal == /\ \A w \in Words : mem[w].tx <= mem'[w].tx
                     /\ MemoryAge'
  <1>0. /\ \A w \in Words : mem[w].tx \in Nat /\ target[w].tx \in Nat
        /\ applied \in Nat /\ mem \in [Words -> Values]
    BY DEF Inv, TypeOK, Values
  <1>1. CASE UNCHANGED <<mem, target, applied, ipc>>
    BY <1>0, <1>1 DEF AgeInv, MemoryAge
  <1>2. CASE BeginRequest \/ RefuseRequest
    BY <1>0, <1>2 DEF AgeInv, MemoryAge, BeginRequest, RefuseRequest, Flushed
  <1>3. ASSUME NEW d \in Devices, SkipRecord(d) \/ CopyRecord(d) \/ ReleaseRecord(d)
        PROVE  Goal
    BY <1>1, <1>3 DEF SkipRecord, CopyRecord, ReleaseRecord
  <1>4. CASE SetRuntimeState
    <2>1. PICK mask \in SUBSET Devices, on \in BOOLEAN :
                 BeginTransaction(RuntimeStateImage(mask, on), Words)
      BY <1>4 DEF SetRuntimeState
    <2>2. \A w \in Words : RuntimeStateImage(mask, on)[w].tx = applied + 1
      BY DEF RuntimeStateImage
    <2> QED
      BY <1>0, <2>1, <2>2 DEF BeginTransaction, Flushed, AgeInv, MemoryAge
  <1>5. CASE SetDeviceTransform
    <2>1. PICK d \in Devices, on \in BOOLEAN :
                 BeginTransaction(DeviceTransformImage(d, on), {d} \X Parts)
      BY <1>5 DEF SetDeviceTransform
    <2>2. \A w \in Words : \/ DeviceTransformImage(d, on)[w].tx = applied + 1
                         \/ DeviceTransformImage(d, on)[w] = mem[w]
      BY DEF DeviceTransformImage
    <2> QED
      BY <1>0, <2>1, <2>2 DEF BeginTransaction, Flushed, AgeInv, MemoryAge
  <1>6. ASSUME NEW w \in Words, Store(w) PROVE Goal
    BY <1>0, <1>6 DEF Store, AgeInv, MemoryAge
  <1>7. CASE Commit
    <2>1. mem = target /\ mem' = mem /\ applied' = applied + 1 /\ ipc' = "idle" /\ ipc = "store"
      BY <1>7 DEF Commit, Inv, TypeOK, WriterInv
    <2> QED
      BY <1>0, <2>1 DEF AgeInv, MemoryAge
  <1>8. ASSUME NEW d \in Devices, BeginCallback(d) \/ CallbackStep(d)
        PROVE  UNCHANGED <<mem, target, applied, ipc>>
    BY <1>8 DEF BeginCallback, CallbackStep, LoadBefore, LoadEnvelope, LoadPayload, LoadField,
       LoadAnchors, Accept, Retry, FallBack, BeginRecord, EndRecord, SkipLog, writerVars
  <1>9. CASE UNCHANGED vars
    BY <1>1, <1>9 DEF vars, writerVars
  <1> QED
    BY <1>1, <1>2, <1>3, <1>4, <1>5, <1>6, <1>7, <1>8, <1>9, DevicesAssumption DEF Next, IpcStep

LEMMA AgeStep ==
  ASSUME Inv, AgeInv, [Next]_vars
  PROVE  AgeInv' /\ NotOlder
  <1>0. /\ \A w \in Words : mem[w].tx \in Nat /\ mem'[w].tx \in Nat
        /\ \A d \in Devices : used[d].slot.tx \in Nat /\ used[d].field.tx \in Nat
        /\ used \in [Devices -> Snapshots]
    <2>1. TypeOK /\ TypeOK'
      BY TypeStep DEF Inv
    <2>2. mem \in [Words -> Values] /\ mem' \in [Words -> Values] /\ used \in [Devices -> Snapshots]
      BY ONLY <2>1 DEF TypeOK
    <2> QED
      BY <2>2 DEF Values, Snapshots
  <1>1. (\A w \in Words : mem[w].tx <= mem'[w].tx) /\ MemoryAge'
    BY MemoryStep
  <1>2. \A d \in Devices : /\ used[d].slot.tx <= mem[<<d, "envelope">>].tx
                         /\ used[d].field.tx <= mem[<<"field", "envelope">>].tx
    BY DEF AgeInv, UsedAge
  <1>3. CASE UNCHANGED <<used, lastGood>>
    <2>1. UsedAge'
      <3>1. SUFFICES ASSUME NEW e \in Devices
                     PROVE  /\ used'[e].slot.tx <= mem'[<<e, "envelope">>].tx
                            /\ used'[e].field.tx <= mem'[<<"field", "envelope">>].tx
        BY DEF UsedAge
      <3>2. <<e, "envelope">> \in Words /\ <<"field", "envelope">> \in Words
        BY WordsOf
      <3>3. /\ used'[e].slot.tx <= mem[<<e, "envelope">>].tx
            /\ used'[e].field.tx <= mem[<<"field", "envelope">>].tx
        BY ONLY <1>2, <1>3
      <3> QED
        BY ONLY <1>0, <1>1, <1>3, <3>2, <3>3
    <2>2. NotOlder
      BY ONLY <1>0, <1>3 DEF NotOlder
    <2> QED
      BY <1>1, <2>1, <2>2 DEF AgeInv
  <1>4. ASSUME NEW d \in Devices, UNCHANGED mem,
               used' = [used EXCEPT ![d] = Projection(mem, d)]
        PROVE  AgeInv' /\ NotOlder
    <2>1. used'[d].slot = mem[<<d, "envelope">>] /\ used'[d].field = mem[<<"field", "envelope">>]
      BY <1>0, <1>4 DEF Projection
    <2>2. \A e \in Devices \ {d} : used'[e] = used[e]
      BY <1>0, <1>4
    <2>3. UsedAge'
      <3>1. SUFFICES ASSUME NEW e \in Devices
                     PROVE  /\ used'[e].slot.tx <= mem'[<<e, "envelope">>].tx
                            /\ used'[e].field.tx <= mem'[<<"field", "envelope">>].tx
        BY DEF UsedAge
      <3>2. <<e, "envelope">> \in Words /\ <<"field", "envelope">> \in Words
        BY WordsOf
      <3>3. mem' = mem
        BY <1>4
      <3> QED
        BY ONLY <1>0, <1>2, <2>1, <2>2, <3>2, <3>3
    <2>4. NotOlder
      BY ONLY <1>0, <1>2, <2>1, <2>2, WordsOf DEF NotOlder
    <2> QED
      BY <1>1, <2>3, <2>4 DEF AgeInv
  <1> QED
    BY <1>3, <1>4, UseSteps

\* Whichever path Read takes, its retries and the fallback included, a device
\* never composes an older transaction than it composed before.
THEOREM Monotonic == Spec => NeverOlder
  <1>1. Init => Inv /\ AgeInv
    BY InvInit, AgeInit
  <1>2. Inv /\ AgeInv /\ [Next]_vars => Inv' /\ AgeInv'
    BY InvStep, AgeStep
  <1>3. Inv /\ AgeInv /\ [Next]_vars => [NotOlder]_vars
    BY AgeStep
  <1> QED
    BY <1>1, <1>2, <1>3, PTL DEF Spec, NeverOlder

-----------------------------------------------------------------------------
(* The driver's life and its pose hooks, for any number of pose threads,   *)
(* requesters, hooked versions and Inits.  LifecycleInv is inductive       *)
(* together with the types; what a callback relies on is in the count: a   *)
(* callback past its load of Driver is counted, and the ring goes only     *)
(* after the count was seen at zero with no driver published.              *)

LEMMA LifecycleCases ==
  ASSUME LifecycleNext
  PROVE  \/ CreateRing \/ PublishDriver \/ HookContext \/ RequestContext \/ FinishInit \/ RunFrame
         \/ Cleanup \/ StopAccepting \/ DropDriver \/ DisableHooks \/ WaitUntilIdle \/ CloseRing
         \/ \E t \in PoseThreads : ForwardPoseUpdate(t)
         \/ \E t \in PoseThreads, v \in Versions : EnterDetour(t, v) \/ ForwardToVersion(t, v)
         \/ \E r \in Requesters : TryInstallPoseHook(r)
         \/ \E r \in Requesters, v \in Versions : AskInterface(r, v)
  BY DEF LifecycleNext, InitStep, Teardown, PoseStep

-----------------------------------------------------------------------------
(* The main thread.                                                        *)

LEMMA HookMainStep ==
  ASSUME LifecycleTypeOK, LifecycleInv,
         \/ CreateRing \/ PublishDriver \/ HookContext \/ RequestContext \/ FinishInit \/ RunFrame
         \/ Cleanup \/ StopAccepting \/ DropDriver \/ DisableHooks \/ WaitUntilIdle \/ CloseRing
  PROVE  LifecycleTypeOK' /\ LifecycleInv'
<1> USE NobodyAssumption, VersionAssumption DEF LifecycleTypeOK, LifecycleInv, ReleasedIsEmpty,
      ReadyMeansMapped, RingMappedUnderPublish,
      ReadyMeansHooked, SetupHeld, OutStaysUnhooked, ForwardingSpan, Inside,
      poseVars, hookVars, MainGoto
<1>1. CASE CreateRing
  <2> DEFINE Kept == UNCHANGED <<Driver, accepting, contextHook, released, stuckHooks, counted,
                       stage, via, forwarding, transforms, ready, enabled, setupMutex,
                       asking, wanted>>
  <2>1. main = "out" /\ main' = "inject" /\ inits' = inits + 1 /\ Kept
    BY <1>1 DEF CreateRing
  <2>2. /\ ringMapped' \in BOOLEAN /\ poseRingReady' \in BOOLEAN
        /\ poseRingReady' => ringMapped'
        /\ ringMapped => ringMapped'
    BY <1>1, Zenon DEF CreateRing
  <2> HIDE DEF Kept
  <2>3. LifecycleTypeOK'  BY ONLY <2>1, <2>2, LifecycleTypeOK DEF Kept, LifecycleTypeOK
  <2>4. ReadyMeansMapped' /\ RingMappedUnderPublish'
    BY ONLY <2>1, <2>2, LifecycleInv
    DEF Kept, LifecycleInv, ReadyMeansMapped, RingMappedUnderPublish
  <2>5. /\ ReleasedIsEmpty' /\ ReadyMeansHooked' /\ SetupHeld'
        /\ OutStaysUnhooked' /\ ForwardingSpan'
    BY <2>1 DEF Kept
  <2> QED  BY ONLY <2>3, <2>4, <2>5 DEF LifecycleInv
<1>2. CASE PublishDriver  BY <1>2 DEF PublishDriver
<1>3. CASE HookContext  BY <1>3 DEF HookContext
<1>4. CASE RequestContext  BY <1>4 DEF RequestContext, InstallHook
<1>5. CASE FinishInit  BY <1>5 DEF FinishInit
<1>6. CASE RunFrame  BY <1>6 DEF RunFrame
<1>7. CASE Cleanup  BY <1>7 DEF Cleanup
<1>8. CASE StopAccepting  BY <1>8 DEF StopAccepting
<1>9. CASE DropDriver  BY <1>9 DEF DropDriver
<1>10. CASE DisableHooks  BY <1>10 DEF DisableHooks
<1>11. CASE WaitUntilIdle  BY <1>11 DEF WaitUntilIdle
<1>12. CASE CloseRing  BY <1>12 DEF CloseRing
<1> QED  BY <1>1, <1>2, <1>3, <1>4, <1>5, <1>6, <1>7, <1>8, <1>9, <1>10, <1>11, <1>12

-----------------------------------------------------------------------------
(* A pose thread.                                                          *)

LEMMA HookPoseThreadStep ==
  ASSUME LifecycleTypeOK, LifecycleInv, NEW t \in PoseThreads, ForwardPoseUpdate(t)
  PROVE  LifecycleTypeOK' /\ LifecycleInv'
<1> USE DEF LifecycleTypeOK, LifecycleInv, ReleasedIsEmpty, ReadyMeansMapped,
      RingMappedUnderPublish,
      ReadyMeansHooked, SetupHeld, OutStaysUnhooked, ForwardingSpan, Inside,
      mainVars, hookVars, ThreadGoto
<1>1. CASE Reenter(t)  BY <1>1 DEF Reenter
<1>2. CASE ForwardMismatched(t)  BY <1>2 DEF ForwardMismatched
<1>3. CASE CountCallback(t)  BY <1>3 DEF CountCallback
<1>4. CASE LoadDriver(t)  BY <1>4 DEF LoadDriver
<1>5. CASE LoadRingReady(t)  BY <1>5 DEF LoadRingReady
<1>6. CASE Publish(t)  BY <1>6 DEF Publish
<1>7. CASE ApplyRuntimePose(t)  BY <1>7 DEF ApplyRuntimePose
<1>8. CASE LeaveDriver(t)  BY <1>8 DEF LeaveDriver
<1>9. CASE Return(t)  BY <1>9 DEF Return
<1> QED  BY <1>1, <1>2, <1>3, <1>4, <1>5, <1>6, <1>7, <1>8, <1>9 DEF ForwardPoseUpdate

LEMMA HookPoseVersionStep ==
  ASSUME LifecycleTypeOK, LifecycleInv, NEW t \in PoseThreads, NEW v \in Versions,
         EnterDetour(t, v) \/ ForwardToVersion(t, v)
  PROVE  LifecycleTypeOK' /\ LifecycleInv'
<1> USE DEF LifecycleTypeOK, LifecycleInv, ReleasedIsEmpty, ReadyMeansMapped,
      RingMappedUnderPublish,
      ReadyMeansHooked, SetupHeld, OutStaysUnhooked, ForwardingSpan, Inside,
      mainVars, hookVars, ThreadGoto
<1>1. CASE EnterDetour(t, v)  BY <1>1 DEF EnterDetour
<1>2. CASE ForwardToVersion(t, v)  BY <1>2 DEF ForwardToVersion
<1> QED  BY <1>1, <1>2

-----------------------------------------------------------------------------
(* A requester.                                                            *)

LEMMA HookRequesterStep ==
  ASSUME LifecycleTypeOK, LifecycleInv, NEW r \in Requesters, TryInstallPoseHook(r)
  PROVE  LifecycleTypeOK' /\ LifecycleInv'
<1> USE NobodyAssumption DEF LifecycleTypeOK, LifecycleInv, ReleasedIsEmpty, ReadyMeansMapped,
      RingMappedUnderPublish,
      ReadyMeansHooked, SetupHeld, OutStaysUnhooked, ForwardingSpan, Inside,
      mainVars, poseVars, RequesterGoto
<1>1. CASE LockSetup(r)  BY <1>1 DEF LockSetup
<1>2. CASE Recheck(r)  BY <1>2 DEF Recheck
<1>3. CASE Install(r)  BY <1>3 DEF Install, InstallHook
<1> QED  BY <1>1, <1>2, <1>3 DEF TryInstallPoseHook

LEMMA HookAskStep ==
  ASSUME LifecycleTypeOK, LifecycleInv, NEW r \in Requesters, NEW v \in Versions, AskInterface(r, v)
  PROVE  LifecycleTypeOK' /\ LifecycleInv'
  BY DEF LifecycleTypeOK, AskInterface, RequesterGoto, mainVars, poseVars, LifecycleInv,
      ReleasedIsEmpty, ReadyMeansMapped, RingMappedUnderPublish,
         ReadyMeansHooked, SetupHeld, OutStaysUnhooked, ForwardingSpan, Inside

-----------------------------------------------------------------------------

LEMMA LifecycleInvInit == LifecycleInit => LifecycleTypeOK /\ LifecycleInv
<1>1. LifecycleInit => LifecycleTypeOK
  <2> SUFFICES ASSUME LifecycleInit PROVE LifecycleTypeOK  OBVIOUS
  <2>1. forwarding \in [PoseThreads -> BOOLEAN] /\ \A t \in PoseThreads : ~forwarding[t]
    BY Zenon DEF LifecycleInit
  <2>2. /\ Driver \in BOOLEAN /\ accepting \in BOOLEAN /\ contextHook \in BOOLEAN
        /\ ringMapped \in BOOLEAN /\ poseRingReady \in BOOLEAN
        /\ released \in BOOLEAN /\ stuckHooks \in BOOLEAN
    BY Zenon DEF LifecycleInit
  <2>3. stage \in [PoseThreads -> {"idle"}] /\ counted = {}  BY DEF LifecycleInit
  <2>4. via \in [PoseThreads -> SUBSET Versions] /\ transforms \in [PoseThreads -> Nat]
    BY DEF LifecycleInit
  <2>5. asking \in [Requesters -> {"idle"}] /\ wanted \in [Requesters -> Versions]
    BY VersionAssumption DEF LifecycleInit
  <2>6. main = "out" /\ inits \in Nat /\ ready = {} /\ enabled = {} /\ setupMutex = Nobody
    BY DEF LifecycleInit
  <2> QED  BY ONLY <2>1, <2>2, <2>3, <2>4, <2>5, <2>6 DEF LifecycleTypeOK
<1>2. LifecycleInit => ForwardingSpan
  <2> SUFFICES ASSUME LifecycleInit PROVE ForwardingSpan  OBVIOUS
  <2>1. \A t \in PoseThreads : stage[t] = "idle" /\ transforms[t] = 0
    BY Zenon DEF LifecycleInit
  <2>2. \A t \in PoseThreads : ~forwarding[t]  BY Zenon DEF LifecycleInit
  <2>3. 0 <= 1  OBVIOUS
  <2> QED  BY ONLY <2>1, <2>2, <2>3, Zenon DEF ForwardingSpan
<1>3. LifecycleInit => SetupHeld /\ OutStaysUnhooked /\ ReadyMeansHooked
  BY DEF LifecycleInit, SetupHeld, OutStaysUnhooked, ReadyMeansHooked
<1>4. LifecycleInit => ReleasedIsEmpty /\ ReadyMeansMapped /\ RingMappedUnderPublish
  BY DEF LifecycleInit, ReleasedIsEmpty, ReadyMeansMapped, RingMappedUnderPublish
<1> QED  BY <1>1, <1>2, <1>3, <1>4 DEF LifecycleInv

LEMMA LifecycleInvStutter ==
  LifecycleTypeOK /\ LifecycleInv /\ UNCHANGED lifecycleVars
    => LifecycleTypeOK' /\ LifecycleInv'
  BY DEF lifecycleVars, mainVars, poseVars, hookVars, LifecycleTypeOK, LifecycleInv,
      ReleasedIsEmpty, ReadyMeansMapped, RingMappedUnderPublish,
         ReadyMeansHooked, SetupHeld, OutStaysUnhooked, ForwardingSpan, Inside

LEMMA LifecycleInductive ==
  LifecycleTypeOK /\ LifecycleInv /\ [LifecycleNext]_lifecycleVars
    => LifecycleTypeOK' /\ LifecycleInv'
  BY LifecycleInvStutter, LifecycleCases, HookMainStep, HookPoseThreadStep, HookPoseVersionStep,
      HookRequesterStep, HookAskStep

LEMMA LifecycleInvariance == LifecycleSpec => [](LifecycleTypeOK /\ LifecycleInv)
  BY LifecycleInvInit, LifecycleInductive, PTL DEF LifecycleSpec

\* Every variable keeps its type and the callback count is exactly the
\* callbacks inside a guard (CallbackActivity).
THEOREM LifecycleTypes == LifecycleSpec => []LifecycleTypeOK
  BY LifecycleInvariance, PTL

\* No pose thread ever publishes into an unmapped ring, over any number of
\* Cleanups, failed Inits and RunFrame retries (Teardown, DisableHooks).
THEOREM RingOutlivesCallbacks == LifecycleSpec => []RingMappedUnderPublish
<1>1. LifecycleInv => RingMappedUnderPublish  BY DEF LifecycleInv
<1> QED  BY <1>1, LifecycleInvariance, PTL

\* A ready flag never outlives its hook (DisableHooks, TryInstallPoseHook).
THEOREM ReadyHooks == LifecycleSpec => []ReadyMeansHooked
<1>1. LifecycleInv => ReadyMeansHooked  BY DEF LifecycleInv
<1> QED  BY <1>1, LifecycleInvariance, PTL

\* After Cleanup or a failed Init no callback finds the driver and no request
\* installs a hook (FailInit, TryInstallPoseHook's second accept check).
THEOREM CleanOut == LifecycleSpec => []OutMeansUnhooked
<1>1. LifecycleInv => OutMeansUnhooked
  BY DEF LifecycleInv, ReleasedIsEmpty, OutStaysUnhooked, OutMeansUnhooked
<1> QED  BY <1>1, LifecycleInvariance, PTL

\* However many hooked versions a host chains, a pose is transformed at most
\* once and published only before that (ForwardPoseUpdate).
THEOREM SingleTransform == LifecycleSpec => []NoDoubleTransform
<1>1. LifecycleInv => NoDoubleTransform
  BY DEF LifecycleInv, ForwardingSpan, NoDoubleTransform
<1> QED  BY <1>1, LifecycleInvariance, PTL

=============================================================================
