--------------------------- MODULE PoseStreamProof ---------------------------
(***************************************************************************)
(* Proofs about the two ends of the pose stream, the ring's sessions and   *)
(* the hub that shares the stream out; the modules share no state.         *)
(*                                                                         *)
(* PoseRingSession, for every set of process ids and every number of       *)
(* starts and crashes.  SessionInv is inductive together with              *)
(* SessionTypeOK: the reset mutex serialises every step on the gate and on *)
(* the identity, and the closed gate with a count of zero keeps readers    *)
(* out.                                                                    *)
(*                                                                         *)
(* PoseFanout implements PoseChannel, and no batch bridges a loss, for     *)
(* every number of consumers and every capacity and chunk.  The inductive  *)
(* invariant relates the counters an entry carries to its neighbours and   *)
(* to the stream, and a cursor's counters to the entries ahead of it.      *)
(***************************************************************************)
EXTENDS PoseRingSession, PoseFanout, TLAPS

LEMMA NextCases ==
  ASSUME SessionNext
  PROVE  \/ \E w \in Writers :
              \/ StartWriter(w) \/ AcquireResetMutex(w) \/ MapFresh(w) \/ FinishConstruct(w)
              \/ MapExisting(w) \/ RefuseExisting(w) \/ CloseGate(w) \/ ClearActive(w)
              \/ ClearIdentity(w) \/ ReadersGone(w) \/ ReadersBusy(w) \/ NextEpoch(w)
              \/ PublishPid(w) \/ PublishTime(w) \/ PublishActive(w) \/ OpenGate(w)
              \/ ReleaseResetMutex(w) \/ BeginRetire(w) \/ SkipRetire(w) \/ RetireActive(w)
              \/ RetireIdentity(w) \/ Unmap(w) \/ CrashWriter(w)
         \/ StartOverlay \/ OpenMapping \/ CheckLayout \/ BeginDrain \/ LoadActive
         \/ LoadPid \/ LoadTime \/ VerifyAlive \/ GiveUpMapping \/ EnterGate
         \/ CountReader \/ RecheckGate \/ UncountReader \/ RefusedAtGate \/ ReadInside
         \/ LeaveGate \/ AfterOpen \/ AfterDrain \/ CrashOverlay
  BY DEF SessionNext, CreateStep, RetireStep, DrainThreadStep

-----------------------------------------------------------------------------
(* Types.                                                                  *)

LEMMA TypeInit == SessionInit => SessionTypeOK
  BY ProcessAssumption DEF SessionInit, SessionTypeOK, WriterStates, ReaderStates, Sessions, NoBatch

\* Every action of a vrserver keeps the types.
LEMMA TypeWriterStep ==
  ASSUME SessionTypeOK, NEW w \in Writers,
         \/ StartWriter(w) \/ AcquireResetMutex(w) \/ MapFresh(w) \/ FinishConstruct(w)
         \/ MapExisting(w) \/ RefuseExisting(w) \/ CloseGate(w) \/ ClearActive(w)
         \/ ClearIdentity(w) \/ ReadersGone(w) \/ ReadersBusy(w) \/ NextEpoch(w)
         \/ PublishPid(w) \/ PublishTime(w) \/ PublishActive(w) \/ OpenGate(w)
         \/ ReleaseResetMutex(w) \/ BeginRetire(w) \/ SkipRetire(w) \/ RetireActive(w)
         \/ RetireIdentity(w) \/ Unmap(w) \/ CrashWriter(w)
  PROVE  SessionTypeOK'
<1>1. CASE StartWriter(w)
  BY <1>1 DEF SessionTypeOK, WriterStates, StartWriter, WGoto, mapVars, readerVars
<1>2. CASE AcquireResetMutex(w)
  BY <1>2 DEF SessionTypeOK, WriterStates, AcquireResetMutex, WGoto, mapVars, readerVars
<1>3. CASE MapFresh(w)
  BY <1>3 DEF SessionTypeOK, WriterStates, MapFresh, WGoto, mapVars, readerVars
<1>4. CASE FinishConstruct(w)
  BY <1>4 DEF SessionTypeOK, WriterStates, FinishConstruct, WGoto, mapVars, readerVars
<1>5. CASE MapExisting(w)
  BY <1>5 DEF SessionTypeOK, WriterStates, MapExisting, WGoto, mapVars, readerVars
<1>6. CASE RefuseExisting(w)
  BY <1>6 DEF SessionTypeOK, WriterStates, RefuseExisting, WGoto, mapVars, readerVars
<1>7. CASE CloseGate(w)
  BY <1>7 DEF SessionTypeOK, WriterStates, CloseGate, WGoto, mapVars, readerVars
<1>8. CASE ClearActive(w)
  BY <1>8 DEF SessionTypeOK, WriterStates, ClearActive, WGoto, mapVars, readerVars
<1>9. CASE ClearIdentity(w)
  BY <1>9 DEF SessionTypeOK, WriterStates, ClearIdentity, WGoto, mapVars, readerVars
<1>10. CASE ReadersGone(w)
  BY <1>10 DEF SessionTypeOK, WriterStates, ReadersGone, WGoto, mapVars, readerVars
<1>11. CASE ReadersBusy(w)
  BY <1>11 DEF SessionTypeOK, WriterStates, ReadersBusy, WGoto, mapVars, readerVars
<1>12. CASE NextEpoch(w)
  BY <1>12 DEF SessionTypeOK, WriterStates, NextEpoch, WGoto, mapVars, readerVars
<1>13. CASE PublishPid(w)
  BY <1>13 DEF SessionTypeOK, WriterStates, PublishPid, WGoto, mapVars, readerVars
<1>14. CASE PublishTime(w)
  BY <1>14 DEF SessionTypeOK, WriterStates, PublishTime, WGoto, mapVars, readerVars
<1>15. CASE PublishActive(w)
  BY <1>15 DEF SessionTypeOK, WriterStates, PublishActive, WGoto, mapVars, readerVars
<1>16. CASE OpenGate(w)
  BY <1>16 DEF SessionTypeOK, WriterStates, OpenGate, WGoto, mapVars, readerVars
<1>17. CASE ReleaseResetMutex(w)
  BY <1>17 DEF SessionTypeOK, WriterStates, ReleaseResetMutex, WGoto, mapVars, readerVars
<1>18. CASE BeginRetire(w)
  BY <1>18 DEF SessionTypeOK, WriterStates, BeginRetire, WGoto, mapVars, readerVars
<1>19. CASE SkipRetire(w)
  BY <1>19 DEF SessionTypeOK, WriterStates, SkipRetire, WGoto, mapVars, readerVars
<1>20. CASE RetireActive(w)
  BY <1>20 DEF SessionTypeOK, WriterStates, RetireActive, WGoto, mapVars, readerVars
<1>22. CASE RetireIdentity(w)
  BY <1>22 DEF SessionTypeOK, WriterStates, RetireIdentity, WGoto, mapVars, readerVars
<1>23. CASE Unmap(w)
  BY <1>23 DEF SessionTypeOK, WriterStates, Unmap, WGoto, mapVars, readerVars
<1>24. CASE CrashWriter(w)
  BY <1>24 DEF SessionTypeOK, WriterStates, CrashWriter, mapVars, readerVars
<1> QED  BY <1>1, <1>2, <1>3, <1>4, <1>5, <1>6, <1>7, <1>8, <1>9, <1>10, <1>11, <1>12, <1>13, <1>14, <1>15, <1>16, <1>17, <1>18, <1>19, <1>20, <1>22, <1>23, <1>24

\* Every action of an overlay keeps the types.
LEMMA TypeReaderStep ==
  ASSUME SessionTypeOK, SessionInv,
         \/ StartOverlay \/ OpenMapping \/ CheckLayout \/ BeginDrain
         \/ LoadActive \/ LoadPid \/ LoadTime \/ VerifyAlive
         \/ GiveUpMapping \/ EnterGate \/ CountReader \/ RecheckGate
         \/ UncountReader \/ RefusedAtGate \/ ReadInside \/ LeaveGate
         \/ AfterOpen \/ AfterDrain \/ CrashOverlay
  PROVE  SessionTypeOK'
<1>1. CASE StartOverlay
  BY <1>1 DEF SessionTypeOK, ReaderStates, StartOverlay, RGoto, Sessions, NoBatch, mapVars, writerVars
<1>2. CASE OpenMapping
  BY <1>2 DEF SessionTypeOK, ReaderStates, OpenMapping, RGoto, mapVars, writerVars
<1>3. CASE CheckLayout
  BY <1>3 DEF SessionTypeOK, ReaderStates, CheckLayout, RGoto, mapVars, writerVars
<1>4. CASE BeginDrain
  BY <1>4 DEF SessionTypeOK, ReaderStates, BeginDrain, RGoto, mapVars, writerVars
<1>5. CASE LoadActive
  BY <1>5 DEF SessionTypeOK, ReaderStates, LoadActive, RGoto, mapVars, writerVars
<1>6. CASE LoadPid
  BY <1>6 DEF SessionTypeOK, ReaderStates, LoadPid, RGoto, mapVars, writerVars
<1>7. CASE LoadTime
  BY <1>7 DEF SessionTypeOK, ReaderStates, LoadTime, RGoto, mapVars, writerVars
<1>8. CASE VerifyAlive
  BY <1>8 DEF SessionTypeOK, ReaderStates, VerifyAlive, RGoto, mapVars, writerVars
<1>9. CASE GiveUpMapping
  BY <1>9 DEF SessionTypeOK, ReaderStates, GiveUpMapping, Sessions, NoBatch, mapVars, writerVars
<1>10. CASE EnterGate
  BY <1>10 DEF SessionTypeOK, ReaderStates, EnterGate, RGoto, mapVars, writerVars
<1>11. CASE CountReader
  BY <1>11 DEF SessionTypeOK, ReaderStates, CountReader, RGoto, mapVars, writerVars
<1>12. CASE RecheckGate
  BY <1>12 DEF SessionTypeOK, ReaderStates, RecheckGate, RGoto, mapVars, writerVars
<1>13. CASE UncountReader
  BY <1>13 DEF SessionTypeOK, ReaderStates, UncountReader, RGoto, SessionInv, ReaderCounted, mapVars, writerVars
<1>14. CASE RefusedAtGate
  BY <1>14 DEF SessionTypeOK, ReaderStates, RefusedAtGate, mapVars, writerVars
<1>15. CASE ReadInside
  BY <1>15 DEF SessionTypeOK, ReaderStates, ReadInside, RGoto, Session, Sessions, NoBatch, mapVars, writerVars
<1>16. CASE LeaveGate
  BY <1>16 DEF SessionTypeOK, ReaderStates, LeaveGate, RGoto, SessionInv, ReaderCounted, mapVars, writerVars
<1>17. CASE AfterOpen
  BY <1>17 DEF SessionTypeOK, ReaderStates, AfterOpen, RGoto, mapVars, writerVars
<1>18. CASE AfterDrain
  BY <1>18 DEF SessionTypeOK, ReaderStates, AfterDrain, RGoto, Published, Boundary, Sessions, NoBatch, mapVars, writerVars
<1>19. CASE CrashOverlay
  BY <1>19 DEF SessionTypeOK, ReaderStates, CrashOverlay, mapVars, writerVars
<1> QED  BY <1>1, <1>2, <1>3, <1>4, <1>5, <1>6, <1>7, <1>8, <1>9, <1>10, <1>11, <1>12, <1>13, <1>14, <1>15, <1>16, <1>17, <1>18, <1>19

-----------------------------------------------------------------------------
(* SessionInv.                                                             *)

LEMMA InvInit == SessionInit => SessionInv
  BY DEF SessionInit, SessionInv, MutexHeld, MappingHeld, GateHeld, ReaderCounted, BornAlive,
         NoRival, IdentityBuilt, ResetExcludesReaders, Critical, Gated, Rewriting

\* Every action of a vrserver keeps the invariant.
LEMMA InvWriterStep ==
  ASSUME SessionTypeOK, SessionInv, NEW w \in Writers,
         \/ StartWriter(w) \/ AcquireResetMutex(w) \/ MapFresh(w) \/ FinishConstruct(w)
         \/ MapExisting(w) \/ RefuseExisting(w) \/ CloseGate(w) \/ ClearActive(w)
         \/ ClearIdentity(w) \/ ReadersGone(w) \/ ReadersBusy(w) \/ NextEpoch(w)
         \/ PublishPid(w) \/ PublishTime(w) \/ PublishActive(w) \/ OpenGate(w)
         \/ ReleaseResetMutex(w) \/ BeginRetire(w) \/ SkipRetire(w) \/ RetireActive(w)
         \/ RetireIdentity(w) \/ Unmap(w) \/ CrashWriter(w)
  PROVE  SessionInv'
<1> USE ProcessAssumption DEF SessionInv, MutexHeld, MappingHeld, GateHeld, ReaderCounted,
      BornAlive, NoRival, IdentityBuilt, ResetExcludesReaders, Critical, Gated, Rewriting
<1>1. CASE StartWriter(w)
  BY <1>1 DEF SessionTypeOK, WriterStates, StartWriter, WGoto, mapVars, readerVars
<1>2. CASE AcquireResetMutex(w)
  BY <1>2 DEF SessionTypeOK, WriterStates, AcquireResetMutex, WGoto, mapVars, readerVars
<1>3. CASE MapFresh(w)
  BY <1>3 DEF SessionTypeOK, WriterStates, MapFresh, WGoto, mapVars, readerVars
<1>4. CASE FinishConstruct(w)
  BY <1>4 DEF SessionTypeOK, WriterStates, FinishConstruct, WGoto, mapVars, readerVars
<1>5. CASE MapExisting(w)
  BY <1>5 DEF SessionTypeOK, WriterStates, MapExisting, WGoto, mapVars, readerVars
<1>6. CASE RefuseExisting(w)
  BY <1>6 DEF SessionTypeOK, WriterStates, RefuseExisting, WGoto, mapVars, readerVars
<1>7. CASE CloseGate(w)
  BY <1>7 DEF SessionTypeOK, WriterStates, CloseGate, WGoto, ExistingWriterAlive, IdentityPublished, IsAlive, mapVars, readerVars
<1>8. CASE ClearActive(w)
  BY <1>8 DEF SessionTypeOK, WriterStates, ClearActive, WGoto, mapVars, readerVars
<1>9. CASE ClearIdentity(w)
  BY <1>9 DEF SessionTypeOK, WriterStates, ClearIdentity, WGoto, mapVars, readerVars
<1>10. CASE ReadersGone(w)
  BY <1>10 DEF SessionTypeOK, WriterStates, ReadersGone, WGoto, mapVars, readerVars
<1>11. CASE ReadersBusy(w)
  BY <1>11 DEF SessionTypeOK, WriterStates, ReadersBusy, WGoto, mapVars, readerVars
<1>12. CASE NextEpoch(w)
  BY <1>12 DEF SessionTypeOK, WriterStates, NextEpoch, WGoto, mapVars, readerVars
<1>13. CASE PublishPid(w)
  BY <1>13 DEF SessionTypeOK, WriterStates, PublishPid, WGoto, mapVars, readerVars
<1>14. CASE PublishTime(w)
  BY <1>14 DEF SessionTypeOK, WriterStates, PublishTime, WGoto, mapVars, readerVars
<1>15. CASE PublishActive(w)
  BY <1>15 DEF SessionTypeOK, WriterStates, PublishActive, WGoto, mapVars, readerVars
<1>16. CASE OpenGate(w)
  BY <1>16 DEF SessionTypeOK, WriterStates, OpenGate, WGoto, mapVars, readerVars
<1>17. CASE ReleaseResetMutex(w)
  BY <1>17 DEF SessionTypeOK, WriterStates, ReleaseResetMutex, WGoto, mapVars, readerVars
<1>18. CASE BeginRetire(w)
  BY <1>18 DEF SessionTypeOK, WriterStates, BeginRetire, WGoto, mapVars, readerVars
<1>19. CASE SkipRetire(w)
  BY <1>19 DEF SessionTypeOK, WriterStates, SkipRetire, WGoto, mapVars, readerVars
<1>20. CASE RetireActive(w)
  BY <1>20 DEF SessionTypeOK, WriterStates, RetireActive, WGoto, mapVars, readerVars
<1>22. CASE RetireIdentity(w)
  BY <1>22 DEF SessionTypeOK, WriterStates, RetireIdentity, WGoto, mapVars, readerVars
<1>23. CASE Unmap(w)
  BY <1>23 DEF SessionTypeOK, WriterStates, Unmap, WGoto, mapVars, readerVars
<1>24. CASE CrashWriter(w)
  BY <1>24 DEF SessionTypeOK, WriterStates, CrashWriter, mapVars, readerVars
<1> QED  BY <1>1, <1>2, <1>3, <1>4, <1>5, <1>6, <1>7, <1>8, <1>9, <1>10, <1>11, <1>12, <1>13, <1>14, <1>15, <1>16, <1>17, <1>18, <1>19, <1>20, <1>22, <1>23, <1>24

\* Every action of an overlay keeps the invariant.
LEMMA InvReaderStep ==
  ASSUME SessionTypeOK, SessionInv,
         \/ StartOverlay \/ OpenMapping \/ CheckLayout \/ BeginDrain
         \/ LoadActive \/ LoadPid \/ LoadTime \/ VerifyAlive
         \/ GiveUpMapping \/ EnterGate \/ CountReader \/ RecheckGate
         \/ UncountReader \/ RefusedAtGate \/ ReadInside \/ LeaveGate
         \/ AfterOpen \/ AfterDrain \/ CrashOverlay
  PROVE  SessionInv'
<1> USE ProcessAssumption DEF SessionInv, MutexHeld, MappingHeld, GateHeld, ReaderCounted,
      BornAlive, NoRival, IdentityBuilt, ResetExcludesReaders, Critical, Gated, Rewriting
<1>1. CASE StartOverlay
  BY <1>1 DEF SessionTypeOK, ReaderStates, StartOverlay, RGoto, mapVars, writerVars
<1>2. CASE OpenMapping
  BY <1>2 DEF SessionTypeOK, ReaderStates, OpenMapping, RGoto, mapVars, writerVars
<1>3. CASE CheckLayout
  BY <1>3 DEF SessionTypeOK, ReaderStates, CheckLayout, RGoto, mapVars, writerVars
<1>4. CASE BeginDrain
  BY <1>4 DEF SessionTypeOK, ReaderStates, BeginDrain, RGoto, mapVars, writerVars
<1>5. CASE LoadActive
  BY <1>5 DEF SessionTypeOK, ReaderStates, LoadActive, RGoto, mapVars, writerVars
<1>6. CASE LoadPid
  BY <1>6 DEF SessionTypeOK, ReaderStates, LoadPid, RGoto, mapVars, writerVars
<1>7. CASE LoadTime
  BY <1>7 DEF SessionTypeOK, ReaderStates, LoadTime, RGoto, mapVars, writerVars
<1>8. CASE VerifyAlive
  BY <1>8 DEF SessionTypeOK, ReaderStates, VerifyAlive, RGoto, mapVars, writerVars
<1>9. CASE GiveUpMapping
  BY <1>9 DEF SessionTypeOK, ReaderStates, GiveUpMapping, mapVars, writerVars
<1>10. CASE EnterGate
  BY <1>10 DEF SessionTypeOK, ReaderStates, EnterGate, RGoto, mapVars, writerVars
<1>11. CASE CountReader
  BY <1>11 DEF SessionTypeOK, ReaderStates, CountReader, RGoto, mapVars, writerVars
<1>12. CASE RecheckGate
  BY <1>12 DEF SessionTypeOK, ReaderStates, RecheckGate, RGoto, mapVars, writerVars
<1>13. CASE UncountReader
  BY <1>13 DEF SessionTypeOK, ReaderStates, UncountReader, RGoto, mapVars, writerVars
<1>14. CASE RefusedAtGate
  BY <1>14 DEF SessionTypeOK, ReaderStates, RefusedAtGate, mapVars, writerVars
<1>15. CASE ReadInside
  BY <1>15 DEF SessionTypeOK, ReaderStates, ReadInside, RGoto, mapVars, writerVars
<1>16. CASE LeaveGate
  BY <1>16 DEF SessionTypeOK, ReaderStates, LeaveGate, RGoto, mapVars, writerVars
<1>17. CASE AfterOpen
  BY <1>17 DEF SessionTypeOK, ReaderStates, AfterOpen, RGoto, mapVars, writerVars
<1>18. CASE AfterDrain
  BY <1>18 DEF SessionTypeOK, ReaderStates, AfterDrain, RGoto, mapVars, writerVars
<1>19. CASE CrashOverlay
  BY <1>19 DEF SessionTypeOK, ReaderStates, CrashOverlay, mapVars, writerVars
<1> QED  BY <1>1, <1>2, <1>3, <1>4, <1>5, <1>6, <1>7, <1>8, <1>9, <1>10, <1>11, <1>12, <1>13, <1>14, <1>15, <1>16, <1>17, <1>18, <1>19

LEMMA Stutter == SessionTypeOK /\ SessionInv /\ UNCHANGED sessionVars => SessionTypeOK' /\ SessionInv'
  BY DEF sessionVars, mapVars, writerVars, readerVars, SessionTypeOK, SessionInv, MutexHeld, MappingHeld,
         GateHeld, ReaderCounted, BornAlive, NoRival, IdentityBuilt, ResetExcludesReaders

LEMMA SessionInductive == SessionTypeOK /\ SessionInv /\ [SessionNext]_sessionVars => SessionTypeOK' /\ SessionInv'
  BY Stutter, NextCases, TypeWriterStep, TypeReaderStep, InvWriterStep, InvReaderStep

-----------------------------------------------------------------------------
(* The hub's stream.  A vrserver touches it in two ways only: it takes an  *)
(* epoch further, and it replaces a mapping nobody holds any more.         *)

LEMMA StreamInit == SessionInit => StreamInv
  BY DEF SessionInit, StreamInv, HubJoined, BatchTaken, EpochsForward

\* What a vrserver does to what StreamInv speaks of.
LEMMA WriterQuiet ==
  ASSUME SessionTypeOK, SessionInv, StreamInv, NEW w \in Writers,
         \/ StartWriter(w) \/ AcquireResetMutex(w) \/ MapFresh(w) \/ FinishConstruct(w)
         \/ MapExisting(w) \/ RefuseExisting(w) \/ CloseGate(w) \/ ClearActive(w)
         \/ ClearIdentity(w) \/ ReadersGone(w) \/ ReadersBusy(w) \/ NextEpoch(w)
         \/ PublishPid(w) \/ PublishTime(w) \/ PublishActive(w) \/ OpenGate(w)
         \/ ReleaseResetMutex(w) \/ BeginRetire(w) \/ SkipRetire(w) \/ RetireActive(w)
         \/ RetireIdentity(w) \/ Unmap(w) \/ CrashWriter(w)
  PROVE  /\ UNCHANGED <<rpc, within, epochBefore, lastEpoch, batch, hubTail>>
         /\ rpc \notin {"down", "closed"} => mapGen' = mapGen /\ epoch <= epoch'
<1> USE ProcessAssumption
<1>a. epoch \in Nat /\ (rpc \notin {"down", "closed"} => holders # {})
  BY DEF SessionTypeOK, SessionInv, MappingHeld
<1>1. CASE StartWriter(w)
  BY <1>a, <1>1 DEF StartWriter, mapVars, readerVars
<1>2. CASE AcquireResetMutex(w)
  BY <1>a, <1>2 DEF AcquireResetMutex, mapVars, readerVars
<1>3. CASE MapFresh(w)
  BY <1>a, <1>3 DEF MapFresh, readerVars
<1>4. CASE FinishConstruct(w)
  BY <1>a, <1>4 DEF FinishConstruct, readerVars
<1>5. CASE MapExisting(w)
  BY <1>a, <1>5 DEF MapExisting, readerVars
<1>6. CASE RefuseExisting(w)
  BY <1>a, <1>6 DEF RefuseExisting, readerVars
<1>7. CASE CloseGate(w)
  BY <1>a, <1>7 DEF CloseGate, readerVars
<1>8. CASE ClearActive(w)
  BY <1>a, <1>8 DEF ClearActive, readerVars
<1>9. CASE ClearIdentity(w)
  BY <1>a, <1>9 DEF ClearIdentity, readerVars
<1>10. CASE ReadersGone(w)
  BY <1>a, <1>10 DEF ReadersGone, mapVars, readerVars
<1>11. CASE ReadersBusy(w)
  BY <1>a, <1>11 DEF ReadersBusy, readerVars
<1>12. CASE NextEpoch(w)
  BY <1>a, <1>12 DEF NextEpoch, readerVars
<1>13. CASE PublishPid(w)
  BY <1>a, <1>13 DEF PublishPid, readerVars
<1>14. CASE PublishTime(w)
  BY <1>a, <1>14 DEF PublishTime, readerVars
<1>15. CASE PublishActive(w)
  BY <1>a, <1>15 DEF PublishActive, readerVars
<1>16. CASE OpenGate(w)
  BY <1>a, <1>16 DEF OpenGate, readerVars
<1>17. CASE ReleaseResetMutex(w)
  BY <1>a, <1>17 DEF ReleaseResetMutex, mapVars, readerVars
<1>18. CASE BeginRetire(w)
  BY <1>a, <1>18 DEF BeginRetire, mapVars, readerVars
<1>19. CASE SkipRetire(w)
  BY <1>a, <1>19 DEF SkipRetire, mapVars, readerVars
<1>20. CASE RetireActive(w)
  BY <1>a, <1>20 DEF RetireActive, readerVars
<1>21. CASE RetireIdentity(w)
  BY <1>a, <1>21 DEF RetireIdentity, readerVars
<1>22. CASE Unmap(w)
  BY <1>a, <1>22 DEF Unmap, readerVars
<1>23. CASE CrashWriter(w)
  BY <1>a, <1>23 DEF CrashWriter, readerVars
<1> QED  BY <1>1, <1>2, <1>3, <1>4, <1>5, <1>6, <1>7, <1>8, <1>9, <1>10, <1>11, <1>12, <1>13, <1>14, <1>15, <1>16, <1>17, <1>18, <1>19, <1>20, <1>21, <1>22, <1>23

LEMMA StreamWriterStep ==
  ASSUME SessionTypeOK, SessionInv, StreamInv, NEW w \in Writers,
         \/ StartWriter(w) \/ AcquireResetMutex(w) \/ MapFresh(w) \/ FinishConstruct(w)
         \/ MapExisting(w) \/ RefuseExisting(w) \/ CloseGate(w) \/ ClearActive(w)
         \/ ClearIdentity(w) \/ ReadersGone(w) \/ ReadersBusy(w) \/ NextEpoch(w)
         \/ PublishPid(w) \/ PublishTime(w) \/ PublishActive(w) \/ OpenGate(w)
         \/ ReleaseResetMutex(w) \/ BeginRetire(w) \/ SkipRetire(w) \/ RetireActive(w)
         \/ RetireIdentity(w) \/ Unmap(w) \/ CrashWriter(w)
  PROVE  StreamInv'
<1>1. /\ UNCHANGED <<rpc, within, epochBefore, lastEpoch, batch, hubTail>>
      /\ rpc \notin {"down", "closed"} => mapGen' = mapGen /\ epoch <= epoch'
  BY WriterQuiet
<1>2. /\ epoch \in Nat /\ epoch' \in Nat /\ epochBefore \in Nat /\ batch[2] \in Nat
  BY TypeWriterStep DEF SessionTypeOK, Sessions
<1> QED  BY <1>1, <1>2 DEF StreamInv, HubJoined, BatchTaken, EpochsForward

\* Every action of an overlay keeps the stream's invariant.
LEMMA StreamReaderStep ==
  ASSUME SessionTypeOK, SessionInv, StreamInv,
         \/ StartOverlay \/ OpenMapping \/ CheckLayout \/ BeginDrain
         \/ LoadActive \/ LoadPid \/ LoadTime \/ VerifyAlive
         \/ GiveUpMapping \/ EnterGate \/ CountReader \/ RecheckGate
         \/ UncountReader \/ RefusedAtGate \/ ReadInside \/ LeaveGate
         \/ AfterOpen \/ AfterDrain \/ CrashOverlay
  PROVE  StreamInv'
<1> USE DEF StreamInv, HubJoined, BatchTaken, EpochsForward
<1>a. /\ mapGen \in Nat /\ epoch \in Nat /\ epochBefore \in Nat /\ lastEpoch \in Nat
      /\ batch \in Nat \X Nat /\ hubTail \in Nat \X Nat /\ within \in {"open", "drain"}
  BY DEF SessionTypeOK, Sessions
<1>1. CASE StartOverlay
  BY <1>a, <1>1 DEF StartOverlay, RGoto, NoBatch, mapVars
<1>2. CASE OpenMapping
  BY <1>a, <1>2 DEF OpenMapping, RGoto, NoBatch, mapVars
<1>3. CASE CheckLayout
  BY <1>a, <1>3 DEF CheckLayout, RGoto, NoBatch, mapVars
<1>4. CASE BeginDrain
  BY <1>a, <1>4 DEF BeginDrain, RGoto, NoBatch, mapVars
<1>5. CASE LoadActive
  BY <1>a, <1>5 DEF LoadActive, RGoto, NoBatch, mapVars
<1>6. CASE LoadPid
  BY <1>a, <1>6 DEF LoadPid, RGoto, NoBatch, mapVars
<1>7. CASE LoadTime
  BY <1>a, <1>7 DEF LoadTime, RGoto, NoBatch, mapVars
<1>8. CASE VerifyAlive
  BY <1>a, <1>8 DEF VerifyAlive, RGoto, NoBatch, mapVars
<1>9. CASE GiveUpMapping
  BY <1>a, <1>9 DEF GiveUpMapping, NoBatch, mapVars
<1>10. CASE EnterGate
  BY <1>a, <1>10 DEF EnterGate, RGoto, NoBatch, mapVars
<1>11. CASE CountReader
  BY <1>a, <1>11 DEF CountReader, RGoto, NoBatch, mapVars
<1>12. CASE RecheckGate
  BY <1>a, <1>12 DEF RecheckGate, RGoto, NoBatch, mapVars
<1>13. CASE UncountReader
  BY <1>a, <1>13 DEF UncountReader, RGoto, NoBatch, mapVars
<1>14. CASE RefusedAtGate
  BY <1>a, <1>14 DEF RefusedAtGate, NoBatch, mapVars
<1>15. CASE ReadInside
  BY <1>a, <1>15 DEF ReadInside, RGoto, Session, NoBatch, mapVars
<1>16. CASE LeaveGate
  BY <1>a, <1>16 DEF LeaveGate, RGoto, NoBatch, mapVars
<1>17. CASE AfterOpen
  BY <1>a, <1>17 DEF AfterOpen, RGoto, NoBatch, mapVars
<1>18. CASE AfterDrain
  BY <1>a, <1>18 DEF AfterDrain, RGoto, Published, Boundary, NoBatch, mapVars
<1>19. CASE CrashOverlay
  BY <1>a, <1>19 DEF CrashOverlay, NoBatch, mapVars
<1> QED  BY <1>1, <1>2, <1>3, <1>4, <1>5, <1>6, <1>7, <1>8, <1>9, <1>10, <1>11, <1>12, <1>13, <1>14, <1>15, <1>16, <1>17, <1>18, <1>19

LEMMA StreamInductive ==
  SessionTypeOK /\ SessionInv /\ StreamInv /\ [SessionNext]_sessionVars => StreamInv'
<1>1. SessionTypeOK /\ SessionInv /\ StreamInv /\ UNCHANGED sessionVars => StreamInv'
  BY DEF sessionVars, mapVars, readerVars, StreamInv, HubJoined, BatchTaken, EpochsForward
<1> QED  BY <1>1, NextCases, StreamWriterStep, StreamReaderStep

\* Every variable keeps its type; in particular activeReaders is never taken
\* below zero, whoever crashes (PoseRingReader::BeginRead, Drain).
THEOREM SessionTypeCorrect == SessionSpec => []SessionTypeOK
<1>1. SessionInit => SessionTypeOK /\ SessionInv  BY TypeInit, InvInit
<1> QED  BY <1>1, SessionInductive, PTL DEF SessionSpec

\* The reset mutex, the gate, the reader count and the published identity
\* keep in step, for any number of processes, starts and crashes.
THEOREM SessionInvariant == SessionSpec => []SessionInv
<1>1. SessionInit => SessionTypeOK /\ SessionInv  BY TypeInit, InvInit
<1> QED  BY <1>1, SessionInductive, PTL DEF SessionSpec

\* No reader is inside the queue while a writer rewrites it
\* (ResetForNewWriterSession against BeginRead).
THEOREM ResetExclusion == SessionSpec => []ResetExcludesReaders
<1>1. SessionInv => ResetExcludesReaders  BY DEF SessionInv
<1> QED  BY <1>1, SessionInvariant, PTL

\* Two live vrservers never both own the ring, and the owner's identity is
\* in the mapping for as long as it owns it (Create, RetireWriterIdentity).
THEOREM OwnerNamed == SessionSpec => []OwnerIsNamed
<1>1. SessionInv => OwnerIsNamed
  BY DEF SessionInv, IdentityBuilt, MappingHeld, OwnerIsNamed
<1> QED  BY <1>1, SessionInvariant, PTL

\* The hub's stream never joins samples of two writer sessions without a
\* boundary, whenever vrservers are replaced around an open, a drain or a
\* mapping (DrainRing).
THEOREM SeparatedSessions == SessionSpec => SessionsSeparated
<1>1. SessionInit => SessionTypeOK /\ SessionInv /\ StreamInv  BY TypeInit, InvInit, StreamInit
<1>2. SessionTypeOK /\ SessionInv /\ StreamInv /\ [SessionNext]_sessionVars => SessionTypeOK' /\ SessionInv' /\ StreamInv'
  BY SessionInductive, StreamInductive
<1>3. SessionTypeOK /\ SessionInv /\ StreamInv /\ [SessionNext]_sessionVars =>
        [rpc = "after" /\ hubTail' # NoBatch =>
           hubTail \in {NoBatch, hubTail'} \/ epochBefore # lastEpoch]_sessionVars
  <2> SUFFICES ASSUME SessionTypeOK, SessionInv, StreamInv, SessionNext, rpc = "after", hubTail' # NoBatch,
                      hubTail # NoBatch, epochBefore = lastEpoch
               PROVE  hubTail = hubTail'
    OBVIOUS
  <2>1. CASE \E w \in Writers :
              \/ StartWriter(w) \/ AcquireResetMutex(w) \/ MapFresh(w) \/ FinishConstruct(w)
              \/ MapExisting(w) \/ RefuseExisting(w) \/ CloseGate(w) \/ ClearActive(w)
              \/ ClearIdentity(w) \/ ReadersGone(w) \/ ReadersBusy(w) \/ NextEpoch(w)
              \/ PublishPid(w) \/ PublishTime(w) \/ PublishActive(w) \/ OpenGate(w)
              \/ ReleaseResetMutex(w) \/ BeginRetire(w) \/ SkipRetire(w) \/ RetireActive(w)
              \/ RetireIdentity(w) \/ Unmap(w) \/ CrashWriter(w)
    BY <2>1, WriterQuiet
  <2>2. CASE AfterDrain
    <3>1. hubTail = <<mapGen, lastEpoch>>  BY DEF StreamInv, HubJoined
    <3>2. batch # NoBatch /\ epoch = epochBefore => batch = <<mapGen, epoch>>
      BY DEF StreamInv, BatchTaken, SessionTypeOK, Sessions
    <3> QED  BY <2>2, <3>1, <3>2 DEF AfterDrain, Published, Boundary, NoBatch
  <2>3. CASE AfterOpen \/ CrashOverlay  BY <2>3 DEF AfterOpen, CrashOverlay
  <2> QED
    BY <2>1, <2>2, <2>3, NextCases
       DEF StartOverlay, OpenMapping, CheckLayout, BeginDrain, LoadActive, LoadPid, LoadTime,
           VerifyAlive, GiveUpMapping, EnterGate, CountReader, RecheckGate, UncountReader,
           RefusedAtGate, ReadInside, LeaveGate, RGoto
<1> QED  BY <1>1, <1>2, <1>3, PTL DEF SessionSpec, SessionsSeparated

-----------------------------------------------------------------------------
(* The hub's fan-out.                                                      *)

Retained == {p \in Nat : Oldest <= p /\ p < head}
Through(e) == IF e.hasSample THEN e.samples + 1 ELSE e.samples

Entry == [sample : Nat, drops : Nat, samples : Nat, hasSample : BOOLEAN]
HoleType == [size : Nat, boundary : BOOLEAN]
Cursor == [historyPosition : Nat, samplePosition : Nat, sourceDropPosition : Nat, hole : HoleType]
CallType == [pc : {"idle", "enter", "between", "copy"}, out : Seq(Nat), dropped : Nat,
             hole : HoleType, snapshotHead : Nat, copied : Nat]

TypeOK ==
  /\ head \in Nat /\ sampleCount \in Nat /\ sourceDropCount \in Nat
  /\ marks \in Seq(Nat) /\ Len(marks) = sampleCount
  /\ history \in [Retained -> Entry]
  /\ cursor \in [Consumers -> Cursor]
  /\ call \in [Consumers -> CallType]

\* What an entry says of the stream.
EntryOK(p) ==
  /\ Through(history[p]) <= sampleCount /\ history[p].drops <= sourceDropCount
  /\ history[p].hasSample =>
       history[p].sample = history[p].samples + 1 /\ marks[history[p].samples + 1] = history[p].drops
  /\ history[p].samples < sampleCount => history[p].drops <= marks[history[p].samples + 1]
  /\ p + 1 = head => Through(history[p]) = sampleCount /\ history[p].drops = sourceDropCount

\* And one entry of a later one.
PairOK(p, q) ==
  /\ Through(history[p]) <= history[q].samples /\ history[p].drops <= history[q].drops
  /\ q = p + 1 => /\ Through(history[p]) = history[q].samples
                  /\ history[q].hasSample \/ history[p].drops < history[q].drops

HistoryOK ==
  /\ \A p \in Retained : EntryOK(p)
  /\ \A p, q \in Retained : p < q => PairOK(p, q)

DropsBefore(p) == IF p < head THEN history[p].drops ELSE sourceDropCount

CursorOK(k) ==
  /\ k.historyPosition <= head
  /\ k.historyPosition >= Oldest => /\ k.samplePosition = SamplesBefore(k.historyPosition)
                                    /\ k.sourceDropPosition <= DropsBefore(k.historyPosition)
  /\ k.historyPosition < Oldest => /\ k.samplePosition <= SamplesBefore(Oldest)
                                   /\ k.sourceDropPosition <= DropsBefore(Oldest)
  /\ k.historyPosition = head => k.sourceDropPosition = sourceDropCount

\* Something is ahead of the cursor k that a batch begun must not pass unseen.
Guarded(k) ==
  /\ (k.historyPosition >= Oldest /\ k.historyPosition < head) =>
       \/ history[k.historyPosition].hasSample
       \/ k.sourceDropPosition < history[k.historyPosition].drops
  /\ k.historyPosition < Oldest =>
       \/ k.samplePosition < SamplesBefore(Oldest)
       \/ k.sourceDropPosition < DropsBefore(Oldest)

CallOK(c) ==
  /\ call[c].snapshotHead <= head
  /\ call[c].pc = "enter" => call[c].out = <<>>
  /\ (call[c].pc # "idle" /\ call[c].out # <<>>) => Guarded(cursor[c])

IInv ==
  /\ TypeOK /\ HistoryOK
  /\ \A c \in Consumers : CursorOK(cursor[c]) /\ CallOK(c)

-----------------------------------------------------------------------------
(* The history.                                                             *)

\* The window of positions retained moves by at most one with an append.
LEMMA Window ==
  ASSUME head \in Nat, head' = head + 1
  PROVE  /\ Oldest \in Nat /\ Oldest <= head
         /\ Oldest' \in Nat /\ Oldest <= Oldest' /\ Oldest' <= Oldest + 1 /\ Oldest' <= head
         /\ Retained' = (Oldest' .. head)
         /\ \A p \in Retained' : p # head => p \in Retained
BY GeometryAssumption DEF Oldest, OldestAt, Retained

LEMMA OldestType ==
  ASSUME head \in Nat
  PROVE  Oldest \in Nat /\ Oldest <= head /\ (head > 0 => Oldest < head)
BY GeometryAssumption DEF Oldest, OldestAt

\* Initially nothing is retained and every cursor is at the head.
THEOREM InitInv == Init => IInv
<1> SUFFICES ASSUME Init PROVE IInv
  OBVIOUS
<1> USE DEF Init
<1>1. Oldest = 0 /\ Retained = {}
  BY GeometryAssumption DEF Oldest, OldestAt, Retained
<1>2. HistoryOK
  BY <1>1 DEF HistoryOK
<1>3. NoHole \in HoleType
  BY DEF NoHole, HoleType
<1>4. Now \in Cursor
  BY <1>3 DEF Now, Cursor
<1>5. TypeOK
  <2>1. history \in [Retained -> Entry]
    BY <1>1
  <2>2. cursor \in [Consumers -> Cursor]
    BY <1>4
  <2>3. call \in [Consumers -> CallType]
    BY <1>3 DEF CallType
  <2> QED
    BY <2>1, <2>2, <2>3 DEF TypeOK
<1>6. ASSUME NEW c \in Consumers PROVE CursorOK(cursor[c]) /\ CallOK(c)
  BY <1>1 DEF CursorOK, CallOK, Now, SamplesBefore, DropsBefore
<1> QED
  BY <1>2, <1>5, <1>6 DEF IInv

\* What the three appends have in common: the entry written says what the stream
\* holds once it is there.
Appended(e) ==
  /\ Write(e) /\ e \in Entry /\ e.samples = sampleCount
  /\ sourceDropCount' \in Nat /\ e.drops = sourceDropCount' /\ sampleCount' = Through(e)
  /\ \/ /\ e.hasSample /\ e.sample = sampleCount + 1
        /\ sourceDropCount' = sourceDropCount /\ marks' = Append(marks, sourceDropCount)
     \/ ~e.hasSample /\ marks' = marks /\ sourceDropCount < sourceDropCount'

\* An append leaves the marks of the samples before it.
LEMMA MarksKept ==
  ASSUME TypeOK, NEW e, Appended(e)
  PROVE  /\ marks' \in Seq(Nat) /\ Len(marks)' = sampleCount'
         /\ sampleCount' \in Nat /\ sampleCount <= sampleCount' /\ sourceDropCount <= sourceDropCount'
         /\ \A i \in 1 .. sampleCount : marks'[i] = marks[i]
         /\ e.hasSample => marks'[sampleCount + 1] = sourceDropCount
<1>1. CASE e.hasSample
  <2>1. sampleCount' = sampleCount + 1 /\ marks' = Append(marks, sourceDropCount)
        /\ sourceDropCount' = sourceDropCount
    BY <1>1, Zenon DEF Appended, Through
  <2> QED
    BY <2>1 DEF TypeOK
<1>2. CASE ~e.hasSample
  <2>1. sampleCount' = sampleCount /\ marks' = marks /\ sourceDropCount < sourceDropCount'
    BY <1>2, Zenon DEF Appended, Through
  <2> QED
    BY <1>2, <2>1 DEF TypeOK, Appended
<1> QED
  BY <1>1, <1>2

\* The entries retained after an append: the old ones but perhaps the oldest, and
\* the new one.
LEMMA EntriesKept ==
  ASSUME TypeOK, NEW e, Appended(e)
  PROVE  /\ head' = head + 1 /\ history' \in [Retained' -> Entry] /\ history'[head] = e
         /\ head \in Retained'
         /\ \A p \in Retained' : p # head => p \in Retained /\ history'[p] = history[p]
<1>1. head \in Nat /\ head' = head + 1
  BY DEF TypeOK, Appended, Write
<1>2. Retained' = (Oldest' .. head) /\ Oldest' = OldestAt(head + 1) /\ Oldest' \in Nat
      /\ Oldest' <= head
  BY <1>1, Window DEF Oldest, OldestAt
<1>3. history' = [p \in Retained' |-> IF p = head THEN e ELSE history[p]]
  BY <1>2 DEF Appended, Write
<1>4. \A p \in Retained' : p # head => p \in Retained
  BY <1>1, Window
<1>5. e \in Entry /\ history \in [Retained -> Entry]
  BY DEF Appended, TypeOK
<1>6. head \in Retained'
  BY <1>1, <1>2
<1> QED
  BY <1>1, <1>3, <1>4, <1>5, <1>6

\* The counters of the history stay right.
LEMMA HistoryKept ==
  ASSUME TypeOK, HistoryOK, NEW e, Appended(e)
  PROVE  HistoryOK'
<1>0. /\ sampleCount \in Nat /\ sourceDropCount \in Nat /\ head \in Nat /\ sourceDropCount' \in Nat
      /\ \A p \in Retained : history[p] \in Entry
  BY DEF TypeOK, Appended
<1>1. /\ head' = head + 1 /\ history'[head] = e
      /\ \A p \in Retained' : p # head => p \in Retained /\ history'[p] = history[p]
  BY EntriesKept
<1>2. /\ sampleCount' \in Nat /\ sampleCount <= sampleCount' /\ sourceDropCount <= sourceDropCount'
      /\ \A i \in 1 .. sampleCount : marks'[i] = marks[i]
      /\ e.hasSample => marks'[sampleCount + 1] = sourceDropCount
  BY MarksKept
<1>3. /\ e \in Entry /\ e.samples = sampleCount /\ e.drops = sourceDropCount' /\ Through(e) = sampleCount'
      /\ e.hasSample => e.sample = sampleCount + 1 /\ sourceDropCount' = sourceDropCount
      /\ ~e.hasSample => sourceDropCount < sourceDropCount'
  BY DEF Appended
<1>4. /\ \A p \in Retained : EntryOK(p)
      /\ \A p, q \in Retained : p < q => PairOK(p, q)
  BY DEF HistoryOK
<1>5. ASSUME NEW p \in Retained', p = head PROVE EntryOK(p)'
  <2>1. history'[p] = e
    BY <1>1, <1>5
  <2>2. e.hasSample => Through(e) = sampleCount + 1
    BY <1>3, Zenon DEF Through
  <2>3. ~e.hasSample => Through(e) = sampleCount
    BY <1>3, Zenon DEF Through
  <2>4. e.samples < sampleCount' => e.drops <= marks'[e.samples + 1]
    BY <1>0, <1>2, <1>3, <2>2, <2>3
  <2>5. Through(history[p])' = sampleCount'
    BY <1>3, <2>1 DEF Through
  <2> QED
    BY <1>0, <1>2, <1>3, <2>1, <2>4, <2>5 DEF EntryOK
<1>6. ASSUME NEW p \in Retained', p # head PROVE EntryOK(p)'
  <2>1. p \in Retained /\ history'[p] = history[p] /\ history[p] \in Entry /\ EntryOK(p)
    BY <1>0, <1>1, <1>4, <1>6
  <2>2. p + 1 # head' /\ history[p].samples \in Nat /\ history[p].drops \in Nat
    BY <1>0, <1>1, <1>6, <2>1 DEF Retained, Entry
  <2>3. Through(history[p])' = Through(history[p])
    BY <2>1, Zenon DEF Through
  <2>4. Through(history[p]) \in Nat /\ history[p].samples <= Through(history[p])
    BY <2>2 DEF Through
  <2>5. Through(history[p]) <= sampleCount /\ history[p].drops <= sourceDropCount
    BY <2>1 DEF EntryOK
  <2>6. history[p].hasSample => /\ history[p].sample = history[p].samples + 1
                               /\ marks'[history[p].samples + 1] = history[p].drops
    <3>1. history[p].hasSample => Through(history[p]) = history[p].samples + 1
      BY Zenon DEF Through
    <3>2. history[p].hasSample => /\ history[p].sample = history[p].samples + 1
                                 /\ marks[history[p].samples + 1] = history[p].drops
      BY <2>1, Zenon DEF EntryOK
    <3> QED
      BY <1>0, <1>2, <2>2, <2>4, <2>5, <3>1, <3>2
  <2>7. history[p].samples < sampleCount' => history[p].drops <= marks'[history[p].samples + 1]
    <3>1. CASE history[p].samples < sampleCount
      <4>1. history[p].drops <= marks[history[p].samples + 1]
        BY <2>1, <3>1 DEF EntryOK
      <4> QED
        BY <1>0, <1>2, <2>2, <3>1, <4>1
    <3>2. CASE history[p].samples = sampleCount
      <4>1. e.hasSample => sourceDropCount >= history[p].drops
        BY <1>0, <2>2, <2>5
      <4>2. ~e.hasSample => sampleCount' = sampleCount
        BY <1>3, Zenon DEF Through
      <4> QED
        BY <1>0, <1>2, <2>2, <3>2, <4>1, <4>2
    <3> QED
      BY <1>0, <2>2, <2>4, <2>5, <3>1, <3>2
  <2>8. Through(history[p])' <= sampleCount' /\ history'[p].drops <= sourceDropCount'
    BY <1>0, <1>2, <2>1, <2>2, <2>3, <2>4, <2>5
  <2> QED
    BY <2>1, <2>2, <2>6, <2>7, <2>8 DEF EntryOK
<1>7. ASSUME NEW p \in Retained', NEW q \in Retained', p < q PROVE PairOK(p, q)'
  <2>1. p # head /\ p \in Retained /\ history'[p] = history[p] /\ history[p] \in Entry /\ EntryOK(p)
    <3>1. q <= head
      BY <1>0, <1>1 DEF Retained
    <3>2. p # head
      BY <1>0, <1>7, <3>1 DEF Retained
    <3> QED
      BY <1>0, <1>1, <1>4, <3>2
  <2>2. Through(history[p])' = Through(history[p])
    BY <2>1, Zenon DEF Through
  <2>3. CASE q = head
    <3>1. history'[q] = e
      BY <1>1, <2>3
    <3>2. Through(history[p]) <= sampleCount /\ history[p].drops <= sourceDropCount
          /\ (p + 1 = head => Through(history[p]) = sampleCount /\ history[p].drops = sourceDropCount)
      BY <2>1 DEF EntryOK
    <3>3. history[p].drops \in Nat
      BY <2>1 DEF Entry
    <3>4. history[p].drops <= e.drops
      BY <1>0, <1>2, <1>3, <3>2, <3>3
    <3>5. q = p + 1 => e.hasSample \/ history[p].drops < e.drops
      BY <1>3, <2>3, <3>2
    <3> QED
      BY <1>3, <2>1, <2>2, <2>3, <3>1, <3>2, <3>4, <3>5 DEF PairOK
  <2>4. CASE q # head
    <3>1. q \in Retained /\ history'[q] = history[q] /\ PairOK(p, q)
      BY <1>1, <1>4, <1>7, <2>1, <2>4
    <3> QED
      BY <2>1, <2>2, <3>1 DEF PairOK
  <2> QED
    BY <2>3, <2>4
<1> QED
  BY <1>5, <1>6, <1>7 DEF HistoryOK

\* The counters in front of a position grow with it, by what the entries hold.
LEMMA Monotone ==
  ASSUME TypeOK, HistoryOK, NEW p \in Nat, NEW q \in Nat, Oldest <= p, p <= q, q <= head
  PROVE  /\ SamplesBefore(p) \in Nat /\ SamplesBefore(p) <= SamplesBefore(q)
         /\ SamplesBefore(q) <= sampleCount
         /\ DropsBefore(p) \in Nat /\ DropsBefore(p) <= DropsBefore(q)
         /\ DropsBefore(q) <= sourceDropCount
         /\ p < q => /\ p \in Retained /\ history[p] \in Entry
                     /\ Through(history[p]) <= SamplesBefore(q)
                     /\ q = p + 1 => Through(history[p]) = SamplesBefore(q)
<1>0. sampleCount \in Nat /\ sourceDropCount \in Nat /\ head \in Nat
  BY DEF TypeOK
<1>1. ASSUME NEW r \in Nat, Oldest <= r, r < head
      PROVE  /\ r \in Retained /\ history[r] \in Entry /\ EntryOK(r)
             /\ SamplesBefore(r) = history[r].samples /\ DropsBefore(r) = history[r].drops
             /\ history[r].samples \in Nat /\ history[r].drops \in Nat
             /\ Through(history[r]) \in Nat /\ history[r].samples <= Through(history[r])
             /\ Through(history[r]) <= sampleCount /\ history[r].drops <= sourceDropCount
  <2>1. r \in Retained /\ history[r] \in Entry /\ EntryOK(r)
    BY <1>1 DEF Retained, TypeOK, HistoryOK
  <2>2. history[r].samples \in Nat /\ history[r].drops \in Nat
    BY <2>1 DEF Entry
  <2>3. Through(history[r]) \in Nat /\ history[r].samples <= Through(history[r])
    BY <2>2 DEF Through
  <2> QED
    BY <1>1, <2>1, <2>2, <2>3 DEF SamplesBefore, DropsBefore, EntryOK
<1>2. ~(head < head) /\ SamplesBefore(head) = sampleCount /\ DropsBefore(head) = sourceDropCount
  BY <1>0 DEF SamplesBefore, DropsBefore
<1>3. CASE p = q
  <2>1. CASE p = head
    BY <1>0, <1>2, <1>3, <2>1
  <2>2. CASE p < head
    BY <1>0, <1>1, <1>3, <2>2
  <2> QED
    BY <1>0, <2>1, <2>2
<1>4. CASE p < q /\ q = head
  <2>1. p + 1 = head => Through(history[p]) = sampleCount
    BY <1>1, <1>4 DEF EntryOK
  <2> QED
    BY <1>0, <1>1, <1>2, <1>4, <2>1
<1>5. CASE p < q /\ q < head
  <2>0. p < head /\ Oldest <= q
    BY <1>0, <1>5, OldestType
  <2>1. PairOK(p, q)
    BY <1>1, <1>5, <2>0 DEF HistoryOK
  <2>2. /\ Through(history[p]) <= history[q].samples /\ history[p].drops <= history[q].drops
        /\ q = p + 1 => Through(history[p]) = history[q].samples
    BY <2>1 DEF PairOK
  <2>3. /\ p \in Retained /\ history[p] \in Entry
        /\ SamplesBefore(p) = history[p].samples /\ DropsBefore(p) = history[p].drops
        /\ history[p].samples \in Nat /\ history[p].drops \in Nat
        /\ Through(history[p]) \in Nat /\ history[p].samples <= Through(history[p])
    BY <1>1, <2>0
  <2>4. /\ SamplesBefore(q) = history[q].samples /\ DropsBefore(q) = history[q].drops
        /\ history[q].samples \in Nat /\ history[q].drops \in Nat
        /\ history[q].samples <= Through(history[q]) /\ Through(history[q]) \in Nat
        /\ Through(history[q]) <= sampleCount /\ history[q].drops <= sourceDropCount
    BY <1>1, <1>5, <2>0
  <2> QED
    BY <1>0, <2>2, <2>3, <2>4
<1> QED
  BY <1>0, <1>3, <1>4, <1>5

\* An append leaves the counters in front of the positions it does not overwrite.
LEMMA CountersKept ==
  ASSUME TypeOK, HistoryOK, NEW e, Appended(e), NEW p \in Nat, Oldest' <= p, p <= head
  PROVE  /\ SamplesBefore(p)' = SamplesBefore(p)
         /\ DropsBefore(p) <= DropsBefore(p)'
         /\ p < head => /\ DropsBefore(p)' = DropsBefore(p) /\ history'[p] = history[p]
                        /\ p \in Retained
<1>1. /\ head \in Nat /\ head' = head + 1 /\ history'[head] = e
      /\ \A r \in Retained' : r # head => r \in Retained /\ history'[r] = history[r]
  BY EntriesKept DEF TypeOK
<1>2. p \in Retained'
  BY <1>1 DEF Retained
<1>3. e.samples = sampleCount /\ e.drops = sourceDropCount' /\ sourceDropCount <= sourceDropCount'
  BY MarksKept DEF Appended
<1>4. CASE p = head
  BY <1>1, <1>3, <1>4 DEF SamplesBefore, DropsBefore
<1>5. CASE p < head
  <2>1. p \in Retained /\ history'[p] = history[p] /\ history[p] \in Entry
    BY <1>1, <1>2, <1>5 DEF TypeOK
  <2>2. history[p].drops \in Nat
    BY <2>1 DEF Entry
  <2> QED
    BY <1>1, <1>5, <2>1, <2>2 DEF SamplesBefore, DropsBefore
<1> QED
  BY <1>1, <1>4, <1>5

\* A cursor that an append does not touch still reads the history right, and a
\* batch begun keeps what it must not pass.
LEMMA CursorKept ==
  ASSUME IInv, NEW e, Appended(e), NEW c \in Consumers, cursor'[c] = cursor[c], call'[c] = call[c]
  PROVE  CursorOK(cursor[c])' /\ CallOK(c)'
<1>0. TypeOK /\ HistoryOK /\ CursorOK(cursor[c]) /\ CallOK(c)
  BY DEF IInv
<1>1. /\ head \in Nat /\ head' = head + 1 /\ sourceDropCount \in Nat /\ sourceDropCount' \in Nat
      /\ sourceDropCount <= sourceDropCount'
  BY <1>0, EntriesKept, MarksKept DEF TypeOK, Appended
<1>2. /\ Oldest \in Nat /\ Oldest <= head /\ Oldest' \in Nat /\ Oldest <= Oldest'
      /\ Oldest' <= Oldest + 1 /\ Oldest' <= head
  BY <1>1, Window, OldestType
<1>3. PICK k \in Cursor : k = cursor[c]
  BY <1>0 DEF TypeOK
<1>4. PICK p \in Nat : p = k.historyPosition
  BY DEF Cursor
<1>5. k.samplePosition \in Nat /\ k.sourceDropPosition \in Nat
  BY DEF Cursor
<1>6. CursorOK(k) /\ cursor'[c] = k
  BY <1>0, <1>3
<1>7. \A q \in Nat : Oldest' <= q /\ q <= head =>
         /\ SamplesBefore(q)' = SamplesBefore(q) /\ DropsBefore(q) <= DropsBefore(q)'
         /\ q < head => DropsBefore(q)' = DropsBefore(q) /\ history'[q] = history[q] /\ q \in Retained
  BY <1>0, CountersKept
<1>8. \A q, r \in Nat : Oldest <= q /\ q <= r /\ r <= head =>
         /\ SamplesBefore(q) \in Nat /\ SamplesBefore(q) <= SamplesBefore(r)
         /\ DropsBefore(q) \in Nat /\ DropsBefore(q) <= DropsBefore(r)
         /\ DropsBefore(r) <= sourceDropCount
         /\ q < r => Through(history[q]) <= SamplesBefore(r)
  BY <1>0, Monotone
<1>9. PICK o \in Nat : o = Oldest
  BY <1>2
<1>10. PICK n \in Nat : n = Oldest' /\ o <= n /\ n <= o + 1 /\ n <= head
  BY <1>2, <1>9
<1>11. /\ p <= head
       /\ p >= o => k.samplePosition = SamplesBefore(p) /\ k.sourceDropPosition <= DropsBefore(p)
       /\ p < o => k.samplePosition <= SamplesBefore(o) /\ k.sourceDropPosition <= DropsBefore(o)
       /\ p = head => k.sourceDropPosition = sourceDropCount
  BY <1>4, <1>6, <1>9 DEF CursorOK
<1>12. /\ SamplesBefore(n)' = SamplesBefore(n) /\ DropsBefore(n) <= DropsBefore(n)'
       /\ n \in Nat /\ SamplesBefore(n) \in Nat /\ DropsBefore(n) \in Nat
       /\ SamplesBefore(o) \in Nat /\ SamplesBefore(o) <= SamplesBefore(n)
       /\ DropsBefore(o) \in Nat /\ DropsBefore(o) <= DropsBefore(n)
  BY <1>1, <1>7, <1>8, <1>9, <1>10
<1>13. n < head' /\ DropsBefore(n)' = history'[n].drops /\ history'[n].drops \in Nat
  <2>1. n \in Retained'
    BY <1>1, <1>10 DEF Retained
  <2>2. history'[n] \in Entry
    BY <1>0, <2>1, EntriesKept
  <2> QED
    BY <1>1, <1>10, <2>2 DEF DropsBefore, Entry
<1>14. CursorOK(k)'
  <2>1. p >= n => k.samplePosition = SamplesBefore(p)' /\ k.sourceDropPosition <= DropsBefore(p)'
    <3> SUFFICES ASSUME p >= n
                 PROVE k.samplePosition = SamplesBefore(p)' /\ k.sourceDropPosition <= DropsBefore(p)'
      OBVIOUS
    <3>1. /\ SamplesBefore(p)' = SamplesBefore(p) /\ DropsBefore(p) <= DropsBefore(p)'
          /\ p < head => DropsBefore(p)' = DropsBefore(p)
      BY <1>7, <1>10, <1>11
    <3>2. DropsBefore(p) \in Nat /\ k.sourceDropPosition <= DropsBefore(p)
          /\ k.samplePosition = SamplesBefore(p)
      BY <1>1, <1>8, <1>9, <1>10, <1>11
    <3>3. p = head => DropsBefore(p)' = sourceDropCount' /\ DropsBefore(p) = sourceDropCount
      <4>1. history'[head].drops = sourceDropCount'
        BY <1>0, EntriesKept DEF Appended
      <4> QED
        BY <1>1, <4>1 DEF DropsBefore
    <3> QED
      BY <1>1, <1>5, <1>11, <3>1, <3>2, <3>3
  <2>2. p < n => k.samplePosition <= SamplesBefore(n)' /\ k.sourceDropPosition <= DropsBefore(n)'
    <3>1. CASE p < o
      BY <1>5, <1>11, <1>12, <1>13, <3>1
    <3>2. CASE p >= o
      <4>1. p < n => SamplesBefore(p) <= SamplesBefore(n) /\ DropsBefore(p) <= DropsBefore(n)
                     /\ SamplesBefore(p) \in Nat /\ DropsBefore(p) \in Nat
        BY <1>8, <1>9, <1>10, <3>2
      <4> QED
        BY <1>5, <1>11, <1>12, <1>13, <3>2, <4>1
    <3> QED
      BY <3>1, <3>2, <1>9
  <2> QED
    BY <1>1, <1>4, <1>10, <1>11, <2>1, <2>2 DEF CursorOK
<1>15. Guarded(k) => Guarded(k)'
  <2> SUFFICES ASSUME Guarded(k) PROVE Guarded(k)'
    OBVIOUS
  <2>0. /\ (p >= o /\ p < head) => history[p].hasSample \/ k.sourceDropPosition < history[p].drops
        /\ p < o => k.samplePosition < SamplesBefore(o) \/ k.sourceDropPosition < DropsBefore(o)
    BY <1>4, <1>9 DEF Guarded
  <2>1. p >= n /\ p < head' => history'[p].hasSample \/ k.sourceDropPosition < history'[p].drops
    <3>1. CASE p = head
      <4>1. history'[head] = e /\ k.sourceDropPosition = sourceDropCount
        BY <1>0, <1>11, <3>1, EntriesKept
      <4>2. e.hasSample \/ (e.drops = sourceDropCount' /\ sourceDropCount < sourceDropCount')
        BY DEF Appended
      <4>3. CASE e.hasSample
        BY <3>1, <4>1, <4>3
      <4>4. CASE e.drops = sourceDropCount' /\ sourceDropCount < sourceDropCount'
        BY <3>1, <4>1, <4>4
      <4> QED
        BY <4>2, <4>3, <4>4
    <3>2. CASE p < head /\ p >= n
      <4>0. p \in Nat /\ Oldest' <= p /\ p <= head
        BY <1>10, <1>11, <3>2
      <4>1. history'[p] = history[p]
        BY <1>7, <3>2, <4>0
      <4>2. p >= o
        BY <1>10, <3>2
      <4> QED
        BY <2>0, <3>2, <4>1, <4>2
    <3> QED
      BY <1>1, <1>11, <3>1, <3>2
  <2>2. p < n => k.samplePosition < SamplesBefore(n)' \/ k.sourceDropPosition < DropsBefore(n)'
    <3>1. CASE p < o
      BY <1>5, <1>12, <1>13, <2>0, <3>1
    <3>2. CASE p >= o /\ p < n
      <4>1. p < head /\ p <= n /\ Oldest <= p
        BY <1>9, <1>10, <3>2, <1>1
      <4>2. /\ SamplesBefore(p) \in Nat /\ DropsBefore(p) \in Nat /\ DropsBefore(p) <= DropsBefore(n)
            /\ Through(history[p]) <= SamplesBefore(n)
        BY <1>8, <1>10, <3>2, <4>1
      <4>3. SamplesBefore(p) = history[p].samples /\ DropsBefore(p) = history[p].drops
        BY <4>1 DEF SamplesBefore, DropsBefore
      <4>4. CASE history[p].hasSample
        <5>1. Through(history[p]) = history[p].samples + 1
          BY <4>4, Zenon DEF Through
        <5> QED
          BY <1>5, <1>11, <1>12, <3>2, <4>2, <4>3, <5>1
      <4>5. CASE k.sourceDropPosition < history[p].drops
        BY <1>5, <1>12, <1>13, <4>2, <4>3, <4>5
      <4> QED
        BY <2>0, <3>2, <4>1, <4>4, <4>5
    <3> QED
      BY <1>9, <1>10, <3>1, <3>2
  <2> QED
    BY <1>4, <1>10, <2>1, <2>2 DEF Guarded
<1>16. CallOK(c)'
  <2>1. call[c].snapshotHead \in Nat
    BY <1>0 DEF TypeOK, CallType
  <2>2. (call[c].pc # "idle" /\ call[c].out # <<>>) => Guarded(k)'
    BY <1>0, <1>3, <1>15 DEF CallOK
  <2> QED
    BY <1>0, <1>1, <1>6, <2>1, <2>2 DEF CallOK
<1> QED
  BY <1>6, <1>14, <1>16

\* What an append leaves of the type invariant.
LEMMA HubKept ==
  ASSUME TypeOK, NEW e, Appended(e), cursor' \in [Consumers -> Cursor], call' \in [Consumers -> CallType]
  PROVE  TypeOK'
<1>1. head' \in Nat /\ history' \in [Retained' -> Entry]
  BY EntriesKept DEF TypeOK
<1>2. /\ marks' \in Seq(Nat) /\ Len(marks)' = sampleCount' /\ sampleCount' \in Nat
      /\ sourceDropCount' \in Nat
  BY MarksKept DEF Appended
<1> QED
  BY <1>1, <1>2 DEF TypeOK

\* An append that leaves the cursors.
LEMMA AppendInv ==
  ASSUME IInv, NEW e, Appended(e), UNCHANGED <<cursor, call>>
  PROVE  IInv'
<1>1. TypeOK'
  BY HubKept DEF IInv, TypeOK
<1>2. HistoryOK'
  BY HistoryKept DEF IInv
<1>3. ASSUME NEW c \in Consumers PROVE CursorOK(cursor[c])' /\ CallOK(c)'
  BY CursorKept
<1> QED
  BY <1>1, <1>2, <1>3 DEF IInv

\* Each of the drain thread's steps is such an append.
LEMMA SampleAppended ==
  ASSUME TypeOK, AppendSample
  PROVE  Appended([sample |-> sampleCount + 1, drops |-> sourceDropCount, samples |-> sampleCount,
                   hasSample |-> TRUE])
BY DEF TypeOK, AppendSample, Appended, Entry, Through

LEMMA GapAppended ==
  ASSUME TypeOK, NEW count \in Nat \ {0}, Gap(count)
  PROVE  Appended([sample |-> 0, drops |-> sourceDropCount + count, samples |-> sampleCount,
                   hasSample |-> FALSE])
BY DEF TypeOK, Gap, Appended, Entry, Through

\* A boundary skips every cursor to the loss it marks.
LEMMA BoundaryInv ==
  ASSUME IInv, AppendSessionBoundary
  PROVE  IInv'
<1> DEFINE e == [sample |-> 0, drops |-> sourceDropCount + 1, samples |-> sampleCount,
                 hasSample |-> FALSE]
<1>0. TypeOK /\ HistoryOK
  BY DEF IInv
<1>1. Appended(e)
  BY <1>0, GapAppended DEF AppendSessionBoundary
<1>2. /\ head \in Nat /\ sampleCount \in Nat /\ sourceDropCount \in Nat
      /\ cursor \in [Consumers -> Cursor] /\ call \in [Consumers -> CallType]
  BY <1>0 DEF TypeOK
<1>3. /\ head' = head + 1 /\ history'[head] = e
      /\ Oldest' \in Nat /\ Oldest' <= head
  BY <1>0, <1>1, <1>2, EntriesKept, Window
<1>4. ASSUME NEW c \in Consumers
      PROVE  /\ cursor'[c] \in Cursor
             /\ cursor'[c].historyPosition = head /\ cursor'[c].samplePosition = sampleCount
             /\ cursor'[c].sourceDropPosition = sourceDropCount
  <2>1. [cursor[c].hole EXCEPT !.boundary = TRUE] \in HoleType
    BY <1>2 DEF Cursor, HoleType
  <2>2. cursor'[c] = [Now EXCEPT !.hole = [cursor[c].hole EXCEPT !.boundary = TRUE]]
    BY DEF AppendSessionBoundary
  <2> QED
    BY <1>2, <2>1, <2>2 DEF Now, Cursor
<1>5. TypeOK'
  <2>1. cursor' \in [Consumers -> Cursor]
    BY <1>4 DEF AppendSessionBoundary
  <2>2. call' \in [Consumers -> CallType]
    BY <1>2 DEF AppendSessionBoundary
  <2> QED
    BY <1>0, <1>1, <2>1, <2>2, HubKept
<1>6. HistoryOK'
  BY <1>0, <1>1, HistoryKept
<1>7. ASSUME NEW p \in Nat, p = head
      PROVE  SamplesBefore(p)' = sampleCount /\ DropsBefore(p)' = sourceDropCount + 1
  BY <1>2, <1>3, <1>7 DEF SamplesBefore, DropsBefore
<1>8. ASSUME NEW c \in Consumers PROVE CursorOK(cursor[c])' /\ CallOK(c)'
  <2>1. PICK k \in Cursor : k = cursor'[c]
    BY <1>4
  <2>2. PICK p \in Nat : p = head
    BY <1>2
  <2>3. k.historyPosition = p /\ k.samplePosition = sampleCount /\ k.sourceDropPosition = sourceDropCount
    BY <1>4, <2>1, <2>2
  <2>4. SamplesBefore(p)' = sampleCount /\ DropsBefore(p)' = sourceDropCount + 1
        /\ history'[p].drops = sourceDropCount + 1
    BY <1>3, <1>7, <2>2
  <2>5. CursorOK(k)'
    BY <1>2, <1>3, <2>2, <2>3, <2>4 DEF CursorOK
  <2>6. Guarded(k)'
    BY <1>2, <1>3, <2>2, <2>3, <2>4 DEF Guarded
  <2>7. call'[c] = call[c] /\ call[c].snapshotHead \in Nat /\ CallOK(c)
    BY <1>2 DEF AppendSessionBoundary, CallType, IInv
  <2>8. CallOK(c)'
    BY <1>2, <1>3, <2>1, <2>6, <2>7 DEF CallOK
  <2> QED
    BY <2>1, <2>5, <2>8
<1> QED
  BY <1>5, <1>6, <1>8 DEF IInv

-----------------------------------------------------------------------------
(* The consumers.                                                           *)

\* A step of c changes its cursor and its call only.
LEMMA ConsumerStep ==
  ASSUME IInv, NEW c \in Consumers, UNCHANGED hubVars, NEW k \in Cursor, NEW d \in CallType,
         cursor' = [cursor EXCEPT ![c] = k], call' = [call EXCEPT ![c] = d], CursorOK(k),
         d.snapshotHead <= head, d.pc = "enter" => d.out = <<>>,
         (d.pc # "idle" /\ d.out # <<>>) => Guarded(k)
  PROVE  IInv'
<1>1. TypeOK'
  <2>1. Retained' = Retained
    BY DEF Retained, Oldest, OldestAt, hubVars
  <2> QED
    BY <2>1 DEF IInv, TypeOK, hubVars
<1>2. HistoryOK'
  BY DEF IInv, HistoryOK, EntryOK, PairOK, Through, Retained, Oldest, OldestAt, hubVars
<1>3. \A j \in Cursor : /\ CursorOK(j) => CursorOK(j)'
                        /\ Guarded(j) => Guarded(j)'
  BY DEF CursorOK, Guarded, SamplesBefore, DropsBefore, Oldest, OldestAt, hubVars
<1>4. ASSUME NEW b \in Consumers PROVE CursorOK(cursor[b])' /\ CallOK(b)'
  <2>1. CASE b = c
    <3>1. cursor'[b] = k /\ call'[b] = d
      BY <2>1 DEF IInv, TypeOK
    <3>2. CursorOK(k)' /\ (Guarded(k) => Guarded(k)')
      BY <1>3
    <3>3. head' = head
      BY DEF hubVars
    <3> QED
      BY <3>1, <3>2, <3>3 DEF CallOK
  <2>2. CASE b # c
    <3>1. cursor'[b] = cursor[b] /\ call'[b] = call[b]
      BY <2>2
    <3>2. CursorOK(cursor[b]) /\ CallOK(b) /\ cursor[b] \in Cursor
      BY DEF IInv, TypeOK
    <3>3. PICK j \in Cursor : j = cursor[b]
      BY <3>2
    <3>4. CursorOK(j)' /\ (Guarded(j) => Guarded(j)')
      BY <1>3, <3>2, <3>3
    <3>5. head' = head
      BY DEF hubVars
    <3> QED
      BY <3>1, <3>2, <3>3, <3>4, <3>5 DEF CallOK
  <2> QED
    BY <2>1, <2>2
<1> QED
  BY <1>1, <1>2, <1>4 DEF IInv

\* What a consumer inside a step knows of its cursor.
LEMMA Known ==
  ASSUME IInv, NEW c \in Consumers
  PROVE  /\ TypeOK /\ HistoryOK /\ CursorOK(cursor[c]) /\ CallOK(c)
         /\ head \in Nat /\ sampleCount \in Nat /\ sourceDropCount \in Nat
         /\ cursor[c] \in Cursor /\ call[c] \in CallType /\ call[c].snapshotHead <= head
         /\ Oldest \in Nat /\ Oldest <= head
BY OldestType DEF IInv, TypeOK, CallOK

\* The entry a cursor is at, when it is retained.
LEMMA EntryAt ==
  ASSUME IInv, NEW c \in Consumers, ~Overflow(c), cursor[c].historyPosition < head
  PROVE  LET p == cursor[c].historyPosition IN
         /\ p \in Nat /\ p \in Retained /\ history[p] \in Entry /\ EntryOK(p)
         /\ SamplesBefore(p) = history[p].samples /\ DropsBefore(p) = history[p].drops
         /\ cursor[c].samplePosition = history[p].samples
         /\ cursor[c].sourceDropPosition <= history[p].drops
<1> DEFINE p == cursor[c].historyPosition
<1>1. p \in Nat /\ Oldest <= p /\ head \in Nat
  BY Known DEF Overflow, Cursor
<1>2. p \in Retained
  BY <1>1 DEF Retained
<1>3. history[p] \in Entry /\ EntryOK(p)
  BY <1>2, Known DEF TypeOK, HistoryOK
<1>4. SamplesBefore(p) = history[p].samples /\ DropsBefore(p) = history[p].drops
  BY DEF SamplesBefore, DropsBefore
<1>5. CursorOK(cursor[c])
  BY Known
<1>6. cursor[c].samplePosition = SamplesBefore(p) /\ cursor[c].sourceDropPosition <= DropsBefore(p)
  BY <1>1, <1>5 DEF CursorOK
<1> QED
  BY <1>1, <1>2, <1>3, <1>4, <1>6

\* Records of the cursor type, updated in the fields that the steps update.
LEMMA HoleGrown ==
  ASSUME NEW h \in HoleType, NEW n \in Nat
  PROVE  [h EXCEPT !.size = n] \in HoleType
BY DEF HoleType

LEMMA CursorMoved ==
  ASSUME NEW j \in Cursor, NEW p \in Nat, NEW s \in Nat, NEW n \in Nat, NEW h \in HoleType
  PROVE  /\ [j EXCEPT !.historyPosition = p, !.samplePosition = s, !.hole = h] \in Cursor
         /\ [j EXCEPT !.sourceDropPosition = s, !.hole = h] \in Cursor
BY DEF Cursor

LEMMA CallCopied ==
  ASSUME NEW j \in CallType, NEW n \in Nat, NEW out \in Seq(Nat), NEW h \in HoleType
  PROVE  [j EXCEPT !.copied = n, !.out = out, !.hole = h] \in CallType
BY DEF CallType

\* Counting what the history overwrote brings the cursor to the oldest entry.
LEMMA AccountInv ==
  ASSUME IInv, NEW c \in Consumers, Overflow(c), Account(c), call[c].out = <<>>,
         UNCHANGED hubVars
  PROVE  /\ IInv' /\ Oldest < head
         /\ history[Oldest] \in Entry /\ cursor[c].samplePosition <= history[Oldest].samples
         /\ cursor[c].sourceDropPosition <= history[Oldest].drops
<1> DEFINE lost == history[Oldest].samples - cursor[c].samplePosition
<1>1. /\ TypeOK /\ CursorOK(cursor[c]) /\ CallOK(c) /\ HistoryOK
      /\ head \in Nat /\ cursor[c] \in Cursor /\ call[c] \in CallType /\ call[c].snapshotHead <= head
      /\ Oldest \in Nat /\ Oldest <= head
  BY Known
<1>2. Oldest < head
  BY <1>1, OldestType DEF Overflow, Cursor
<1>3. Oldest \in Retained /\ history[Oldest] \in Entry
  BY <1>1, <1>2 DEF Retained, TypeOK
<1>4. /\ SamplesBefore(Oldest) = history[Oldest].samples
      /\ DropsBefore(Oldest) = history[Oldest].drops
  BY <1>2 DEF SamplesBefore, DropsBefore
<1>5. /\ cursor[c].samplePosition <= history[Oldest].samples
      /\ cursor[c].sourceDropPosition <= history[Oldest].drops
  BY <1>1, <1>4 DEF CursorOK, Overflow
<1>6. lost \in Nat
  BY <1>1, <1>3, <1>5 DEF Cursor, Entry
<1> DEFINE k == [cursor[c] EXCEPT !.historyPosition = Oldest, !.samplePosition = @ + lost,
                                  !.hole.size = @ + lost]
           d == [call[c] EXCEPT !.dropped = @ + lost]
<1>7. k \in Cursor /\ k.historyPosition = Oldest /\ k.samplePosition = history[Oldest].samples
      /\ k.sourceDropPosition = cursor[c].sourceDropPosition
  <2>1. /\ cursor[c].samplePosition \in Nat /\ history[Oldest].samples \in Nat
        /\ cursor[c].hole \in HoleType /\ cursor[c].hole.size \in Nat
    BY <1>1, <1>3 DEF Cursor, Entry, HoleType
  <2>2. cursor[c].samplePosition + lost = history[Oldest].samples /\ cursor[c].hole.size + lost \in Nat
    BY <1>6, <2>1
  <2> DEFINE h == [cursor[c].hole EXCEPT !.size = cursor[c].hole.size + lost]
  <2>3. h \in HoleType
    BY <2>1, <2>2, HoleGrown
  <2>4. k = [cursor[c] EXCEPT !.historyPosition = Oldest, !.samplePosition = history[Oldest].samples,
                             !.hole = h]
    BY <1>1, <2>2 DEF Cursor
  <2>5. k \in Cursor
    <3> HIDE DEF h, k
    <3> QED
      BY <1>1, <2>1, <2>3, <2>4, CursorMoved
  <2> QED
    BY <1>1, <2>2, <2>5 DEF Cursor
<1>8. d \in CallType /\ d.out = <<>> /\ d.snapshotHead = call[c].snapshotHead
  BY <1>1, <1>6 DEF CallType
<1>9. CursorOK(k)
  BY <1>1, <1>2, <1>4, <1>5, <1>7 DEF CursorOK
<1>10. cursor' = [cursor EXCEPT ![c] = k] /\ call' = [call EXCEPT ![c] = d]
  BY DEF Account
<1>11. IInv'
  <2> HIDE DEF k, d
  <2> QED
    BY <1>1, <1>7, <1>8, <1>9, <1>10, ConsumerStep
<1> QED
  BY <1>2, <1>3, <1>5, <1>11

\* Steps that move the call only.
LEMMA CallStep ==
  ASSUME IInv, NEW c \in Consumers, UNCHANGED <<hubVars, cursor>>, NEW d \in CallType,
         call' = [call EXCEPT ![c] = d], d.snapshotHead <= head, d.pc = "enter" => d.out = <<>>,
         d.pc = "idle" \/ d.out = <<>> \/ (d.out = call[c].out /\ call[c].pc # "idle")
  PROVE  IInv'
<1>1. cursor[c] \in Cursor /\ CursorOK(cursor[c]) /\ CallOK(c)
  BY Known
<1>2. cursor' = [cursor EXCEPT ![c] = cursor[c]]
  BY DEF IInv, TypeOK
<1>3. (d.pc # "idle" /\ d.out # <<>>) => Guarded(cursor[c])
  BY <1>1 DEF CallOK
<1> QED
  BY <1>1, <1>2, <1>3, ConsumerStep

LEMMA EnterInv == ASSUME IInv, NEW c \in Consumers, Enter(c) PROVE IInv'
<1> DEFINE d == [pc |-> "enter", out |-> <<>>, dropped |-> 0, hole |-> NoHole,
                 snapshotHead |-> head, copied |-> 0]
<1>1. head \in Nat
  BY Known
<1>2. d \in CallType /\ d.out = <<>> /\ d.snapshotHead <= head
  BY <1>1 DEF CallType, HoleType, NoHole
<1>3. call' = [call EXCEPT ![c] = d] /\ UNCHANGED <<hubVars, cursor>>
  BY DEF Enter
<1> HIDE DEF d
<1> QED
  BY <1>1, <1>2, <1>3, CallStep

\* Reserve, Chunk, CutShort and ChunkFull.
LEMMA PhaseInv ==
  ASSUME IInv, NEW c \in Consumers, Reserve(c) \/ Chunk(c) \/ CutShort(c) \/ ChunkFull(c)
  PROVE  IInv'
<1>0. call[c] \in CallType /\ call[c].snapshotHead <= head /\ CallOK(c)
  BY Known
<1>1. PICK pc \in {"idle", "between", "copy"}, copied \in Nat :
        /\ call' = [call EXCEPT ![c] = [call[c] EXCEPT !.pc = pc, !.copied = copied]]
        /\ call[c].pc # "idle" /\ UNCHANGED <<hubVars, cursor>>
  <2>1. CASE Reserve(c)
    <3>1. call' = [call EXCEPT ![c] = [call[c] EXCEPT !.pc = "between", !.copied = call[c].copied]]
      BY <1>0, <2>1 DEF Reserve, CallType
    <3> QED
      BY <1>0, <2>1, <3>1 DEF Reserve, CallType
  <2>2. CASE Chunk(c)
    <3>1. call' = [call EXCEPT ![c] = [call[c] EXCEPT !.pc = "copy", !.copied = 0]]
      BY <1>0, <2>2 DEF Chunk, CallType, IInv, TypeOK
    <3> QED
      BY <1>0, <2>2, <3>1 DEF Chunk, CallType
  <2>3. CASE CutShort(c)
    <3>1. call' = [call EXCEPT ![c] = [call[c] EXCEPT !.pc = "idle", !.copied = call[c].copied]]
      BY <1>0, <2>3 DEF CutShort, CallType
    <3> QED
      BY <1>0, <2>3, <3>1 DEF CutShort, CallType
  <2>4. CASE ChunkFull(c)
    <3>1. call' = [call EXCEPT ![c] = [call[c] EXCEPT !.pc = "between", !.copied = call[c].copied]]
      BY <1>0, <2>4 DEF ChunkFull, CallType
    <3> QED
      BY <1>0, <2>4, <3>1 DEF ChunkFull, CallType, Copying
  <2> QED
    BY <2>1, <2>2, <2>3, <2>4
<1> DEFINE d == [call[c] EXCEPT !.pc = pc, !.copied = copied]
<1>2. /\ d \in CallType /\ d.out = call[c].out /\ d.snapshotHead = call[c].snapshotHead
      /\ d.pc # "enter"
  BY <1>0 DEF CallType
<1>3. call' = [call EXCEPT ![c] = d]
  BY <1>1
<1> HIDE DEF d
<1> QED
  BY <1>0, <1>1, <1>2, <1>3, CallStep

LEMMA CountSourceGapInv ==
  ASSUME IInv, NEW c \in Consumers, CountSourceGap(c)
  PROVE  IInv'
<1> DEFINE p == cursor[c].historyPosition
           lost == history[p].drops - cursor[c].sourceDropPosition
           k == [cursor[c] EXCEPT !.sourceDropPosition = @ + lost, !.hole.size = @ + lost]
           d == [call[c] EXCEPT !.dropped = @ + lost]
<1>1. /\ head \in Nat /\ cursor[c] \in Cursor /\ call[c] \in CallType /\ call[c].snapshotHead <= head
      /\ CursorOK(cursor[c]) /\ CallOK(c)
  BY Known
<1>2. call[c].out = <<>> /\ ~Overflow(c) /\ p < head /\ cursor[c].sourceDropPosition < history[p].drops
  BY <1>1 DEF CountSourceGap, SourceGap, CallType, Cursor
<1>3. p \in Nat /\ history[p] \in Entry /\ DropsBefore(p) = history[p].drops
  BY <1>2, EntryAt
<1>4. lost \in Nat
  BY <1>1, <1>2, <1>3 DEF Cursor, Entry
<1>5. k \in Cursor /\ k.historyPosition = p /\ k.samplePosition = cursor[c].samplePosition
      /\ k.sourceDropPosition = history[p].drops
  <2>1. /\ cursor[c].sourceDropPosition \in Nat /\ history[p].drops \in Nat
        /\ cursor[c].hole \in HoleType /\ cursor[c].hole.size \in Nat
    BY <1>1, <1>3 DEF Cursor, Entry, HoleType
  <2>2. cursor[c].sourceDropPosition + lost = history[p].drops /\ cursor[c].hole.size + lost \in Nat
    BY <1>4, <2>1
  <2> DEFINE h == [cursor[c].hole EXCEPT !.size = cursor[c].hole.size + lost]
  <2>3. h \in HoleType
    BY <2>1, <2>2, HoleGrown
  <2>4. k = [cursor[c] EXCEPT !.sourceDropPosition = history[p].drops, !.hole = h]
    BY <1>1, <2>2 DEF Cursor
  <2>5. k \in Cursor
    <3> HIDE DEF h, k
    <3> QED
      BY <1>1, <2>1, <2>3, <2>4, CursorMoved
  <2> QED
    BY <1>1, <2>2, <2>5 DEF Cursor
<1>6. d \in CallType /\ d.out = <<>> /\ d.snapshotHead = call[c].snapshotHead
  BY <1>1, <1>2, <1>4 DEF CallType
<1>7. CursorOK(k)
  <2>1. ~(p < Oldest) /\ p # head
    BY <1>1, <1>2, <1>3 DEF Overflow
  <2>2. p <= head /\ (p >= Oldest => k.samplePosition = SamplesBefore(p))
    BY <1>1, <1>5 DEF CursorOK
  <2>3. DropsBefore(p) <= DropsBefore(p)
    BY <1>3 DEF Entry
  <2> QED
    BY <1>3, <1>5, <2>1, <2>2, <2>3 DEF CursorOK
<1>8. /\ cursor' = [cursor EXCEPT ![c] = k] /\ call' = [call EXCEPT ![c] = d] /\ UNCHANGED hubVars
  BY DEF CountSourceGap
<1> HIDE DEF k, d
<1> QED
  BY <1>1, <1>5, <1>6, <1>7, <1>8, ConsumerStep

\* What CopyEntry makes of the cursor: past the entry, with its counters.
LEMMA CopyFacts ==
  ASSUME IInv, NEW c \in Consumers, CopyEntry(c)
  PROVE  LET p == cursor[c].historyPosition IN
         /\ p \in Nat /\ p < head /\ p < call[c].snapshotHead /\ Oldest <= p
         /\ p \in Retained /\ history[p] \in Entry
         /\ cursor[c].samplePosition = history[p].samples
         /\ cursor[c].sourceDropPosition = history[p].drops
         /\ cursor'[c].historyPosition = p + 1
         /\ cursor'[c].samplePosition = SamplesBefore(p + 1)
         /\ SamplesBefore(p + 1) = Through(history[p])
         /\ DropsBefore(p) = history[p].drops /\ SamplesBefore(p) = history[p].samples
         /\ cursor'[c].sourceDropPosition = history[p].drops
         /\ history[p].drops <= DropsBefore(p + 1)
         /\ cursor' = [cursor EXCEPT ![c] = cursor'[c]] /\ cursor'[c] \in Cursor
<1> DEFINE p == cursor[c].historyPosition
<1>1. /\ head \in Nat /\ cursor[c] \in Cursor /\ call[c] \in CallType /\ call[c].snapshotHead <= head
      /\ TypeOK /\ HistoryOK /\ Oldest \in Nat
  BY Known
<1>2. p \in Nat /\ ~Overflow(c) /\ p < call[c].snapshotHead /\ p < head /\ Oldest <= p
  BY <1>1 DEF CopyEntry, Copying, Copied, Cursor, CallType, Overflow
<1>3. /\ p \in Retained /\ history[p] \in Entry /\ EntryOK(p)
      /\ SamplesBefore(p) = history[p].samples /\ DropsBefore(p) = history[p].drops
      /\ cursor[c].samplePosition = history[p].samples
      /\ cursor[c].sourceDropPosition <= history[p].drops
  BY <1>2, EntryAt
<1>4. ~(history[p].drops > cursor[c].sourceDropPosition)
  BY <1>2 DEF CopyEntry, Copying, SourceGap
<1>5. cursor[c].sourceDropPosition = history[p].drops
  BY <1>1, <1>3, <1>4 DEF Cursor, Entry
<1>6. SamplesBefore(p + 1) = Through(history[p]) /\ DropsBefore(p) <= DropsBefore(p + 1)
  BY <1>1, <1>2, Monotone
<1>7. cursor' = [cursor EXCEPT ![c] =
        [cursor[c] EXCEPT !.historyPosition = p + 1,
                          !.samplePosition = IF history[p].hasSample THEN history[p].samples + 1
                                                                     ELSE history[p].samples,
                          !.hole = IF history[p].hasSample THEN NoHole ELSE cursor[c].hole]]
  BY DEF CopyEntry
<1>8. cursor'[c] = [cursor[c] EXCEPT !.historyPosition = p + 1,
                          !.samplePosition = Through(history[p]),
                          !.hole = IF history[p].hasSample THEN NoHole ELSE cursor[c].hole]
  BY <1>1, <1>7 DEF Through, TypeOK
<1>9. (IF history[p].hasSample THEN NoHole ELSE cursor[c].hole) \in HoleType
  BY <1>1 DEF NoHole, HoleType, Cursor
<1>10. Through(history[p]) \in Nat
  BY <1>3 DEF Through, Entry
<1>11. cursor'[c] \in Cursor
  <2>1. PICK q \in Nat : q = p + 1
    BY <1>2
  <2>2. PICK s \in Nat : s = Through(history[p])
    BY <1>10
  <2>3. PICK h \in HoleType : h = IF history[p].hasSample THEN NoHole ELSE cursor[c].hole
    BY <1>9
  <2>4. PICK j \in Cursor : j = cursor[c]
    BY <1>1
  <2>5. cursor'[c] = [j EXCEPT !.historyPosition = q, !.samplePosition = s, !.hole = h]
    BY <1>8, <2>1, <2>2, <2>3, <2>4
  <2>6. [j EXCEPT !.historyPosition = q, !.samplePosition = s, !.hole = h] \in Cursor
    BY CursorMoved
  <2> QED
    BY <2>5, <2>6
<1>12. cursor' = [cursor EXCEPT ![c] = cursor'[c]]
  BY <1>1, <1>7 DEF TypeOK
<1>13. /\ cursor'[c].historyPosition = p + 1 /\ cursor'[c].samplePosition = Through(history[p])
       /\ cursor'[c].sourceDropPosition = cursor[c].sourceDropPosition
  BY <1>1, <1>8 DEF Cursor
<1> QED
  BY <1>2, <1>3, <1>5, <1>6, <1>11, <1>12, <1>13

LEMMA CopyEntryInv ==
  ASSUME IInv, NEW c \in Consumers, CopyEntry(c)
  PROVE  IInv'
<1>1. PICK p \in Nat : p = cursor[c].historyPosition
  BY CopyFacts
<1>2. PICK k \in Cursor : k = cursor'[c]
  BY CopyFacts
<1>3. /\ p < head /\ Oldest <= p /\ p \in Retained /\ history[p] \in Entry
      /\ k.historyPosition = p + 1 /\ k.samplePosition = SamplesBefore(p + 1)
      /\ k.sourceDropPosition = history[p].drops /\ history[p].drops <= DropsBefore(p + 1)
      /\ cursor' = [cursor EXCEPT ![c] = k]
  BY <1>1, <1>2, CopyFacts
<1>4. /\ head \in Nat /\ call[c] \in CallType /\ call[c].snapshotHead <= head
      /\ TypeOK /\ HistoryOK /\ Oldest \in Nat
  BY Known
<1>5. CursorOK(k)
  <2>1. p + 1 = head => history[p].drops = sourceDropCount
    BY <1>3, <1>4 DEF HistoryOK, EntryOK
  <2> QED
    BY <1>3, <1>4, <2>1 DEF CursorOK
<1>6. Guarded(k)
  <2>1. ASSUME p + 1 < head
        PROVE  history[p + 1].hasSample \/ history[p].drops < history[p + 1].drops
    <3>1. p + 1 \in Retained
      BY <1>3, <1>4, <2>1 DEF Retained
    <3>2. PairOK(p, p + 1)
      BY <1>3, <1>4, <3>1 DEF HistoryOK
    <3> QED
      BY <3>2 DEF PairOK
  <2> QED
    BY <1>3, <1>4, <2>1 DEF Guarded
<1> DEFINE d == [call[c] EXCEPT !.copied = call[c].copied + 1,
                   !.out = IF history[p].hasSample THEN Append(call[c].out, history[p].sample)
                                                   ELSE call[c].out,
                   !.hole = IF history[p].hasSample /\ call[c].out = <<>> THEN cursor[c].hole
                                                                          ELSE call[c].hole]
<1>7. call' = [call EXCEPT ![c] = d] /\ UNCHANGED hubVars /\ call[c].pc = "copy"
  BY <1>1 DEF CopyEntry, Copying
<1>8. d \in CallType /\ d.pc = "copy" /\ d.snapshotHead = call[c].snapshotHead
  <2>1. (IF history[p].hasSample THEN Append(call[c].out, history[p].sample) ELSE call[c].out) \in Seq(Nat)
    BY <1>3, <1>4 DEF CallType, Entry
  <2>2. cursor[c].hole \in HoleType /\ call[c].hole \in HoleType
    BY <1>4, Known DEF Cursor, CallType
  <2>3. (IF history[p].hasSample /\ call[c].out = <<>> THEN cursor[c].hole ELSE call[c].hole) \in HoleType
    BY <2>2
  <2> QED
    <3>1. PICK out \in Seq(Nat) :
            out = IF history[p].hasSample THEN Append(call[c].out, history[p].sample) ELSE call[c].out
      BY <2>1
    <3>2. PICK h \in HoleType :
            h = IF history[p].hasSample /\ call[c].out = <<>> THEN cursor[c].hole ELSE call[c].hole
      BY <2>3
    <3>3. PICK j \in CallType : j = call[c]
      BY <1>4
    <3>4. PICK n \in Nat : n = j.copied + 1
      BY DEF CallType
    <3>5. d = [j EXCEPT !.copied = n, !.out = out, !.hole = h]
      BY <3>1, <3>2, <3>3, <3>4
    <3>6. /\ d \in CallType /\ d.pc = j.pc /\ d.snapshotHead = j.snapshotHead
      <4> HIDE DEF d
      <4>1. [j EXCEPT !.copied = n, !.out = out, !.hole = h] \in CallType
        BY CallCopied
      <4>2. [j EXCEPT !.copied = n, !.out = out, !.hole = h].pc = j.pc
        BY DEF CallType
      <4>3. [j EXCEPT !.copied = n, !.out = out, !.hole = h].snapshotHead = j.snapshotHead
        BY DEF CallType
      <4> QED
        BY <3>5, <4>1, <4>2, <4>3
    <3> HIDE DEF d
    <3> QED
      BY <1>7, <3>3, <3>6
<1> HIDE DEF d
<1> QED
  BY <1>3, <1>4, <1>5, <1>6, <1>7, <1>8, ConsumerStep

LEMMA CompleteInv == ASSUME IInv, NEW c \in Consumers, Complete(c) PROVE IInv'
<1> DEFINE d == [call[c] EXCEPT !.pc = "idle",
                   !.hole = IF call[c].out = <<>> THEN cursor[c].hole ELSE call[c].hole]
<1>1. call[c] \in CallType /\ call[c].snapshotHead <= head /\ cursor[c] \in Cursor
  BY Known
<1>2. d \in CallType /\ d.pc = "idle" /\ d.snapshotHead = call[c].snapshotHead
  BY <1>1 DEF CallType, Cursor
<1>3. call' = [call EXCEPT ![c] = d] /\ UNCHANGED <<hubVars, cursor>>
  BY DEF Complete
<1> HIDE DEF d
<1> QED
  BY <1>1, <1>2, <1>3, CallStep

LEMMA NowOK == ASSUME TypeOK PROVE Now \in Cursor /\ CursorOK(Now) /\ ~(head < Oldest)
<1>1. head \in Nat /\ sampleCount \in Nat /\ sourceDropCount \in Nat /\ Oldest \in Nat /\ Oldest <= head
  BY OldestType DEF TypeOK
<1>2. SamplesBefore(head) = sampleCount /\ DropsBefore(head) = sourceDropCount
  BY <1>1 DEF SamplesBefore, DropsBefore
<1> QED
  BY <1>1, <1>2 DEF Now, Cursor, HoleType, NoHole, CursorOK

LEMMA DiscardInv == ASSUME IInv, NEW c \in Consumers, DiscardBacklog(c) PROVE IInv'
<1>1. /\ call[c] \in CallType /\ call[c].snapshotHead <= head /\ call[c].pc = "idle"
      /\ Now \in Cursor /\ CursorOK(Now)
  BY Known, NowOK DEF DiscardBacklog
<1>2. cursor' = [cursor EXCEPT ![c] = Now] /\ call' = [call EXCEPT ![c] = call[c]] /\ UNCHANGED hubVars
  BY DEF DiscardBacklog, IInv, TypeOK
<1> QED
  BY <1>1, <1>2, ConsumerStep

-----------------------------------------------------------------------------
(* The invariant.                                                           *)

LEMMA DrainInv == ASSUME IInv, NEW c \in Consumers, Drain(c) PROVE IInv'
<1>1. CASE EnterAccount(c)
  <2>1. call[c].out = <<>>
    BY <1>1, Known DEF EnterAccount, CallOK
  <2> QED
    BY <1>1, <2>1, AccountInv DEF EnterAccount
<1>2. CASE ChunkAccount(c)
  BY <1>2, AccountInv DEF ChunkAccount
<1>3. CASE Reserve(c) \/ Chunk(c) \/ CutShort(c) \/ ChunkFull(c)
  BY <1>3, PhaseInv
<1>4. CASE CountSourceGap(c)
  BY <1>4, CountSourceGapInv
<1>5. CASE CopyEntry(c)
  BY <1>5, CopyEntryInv
<1>6. CASE Complete(c)
  BY <1>6, CompleteInv
<1> QED
  BY <1>1, <1>2, <1>3, <1>4, <1>5, <1>6 DEF Drain

THEOREM NextInv == IInv /\ [Next]_vars => IInv'
<1> SUFFICES ASSUME IInv, [Next]_vars PROVE IInv'
  OBVIOUS
<1>0. TypeOK
  BY DEF IInv
<1>1. CASE AppendSample
  <2>1. UNCHANGED <<cursor, call>>
    BY <1>1 DEF AppendSample
  <2> QED
    BY <1>0, <1>1, <2>1, SampleAppended, AppendInv
<1>2. CASE AppendGap
  <2>1. PICK count \in Nat \ {0} : Gap(count) /\ UNCHANGED <<cursor, call>>
    BY <1>2, BoundsAssumption DEF AppendGap
  <2> QED
    BY <1>0, <2>1, GapAppended, AppendInv
<1>3. CASE AppendSessionBoundary
  BY <1>3, BoundaryInv
<1>4. ASSUME NEW c \in Consumers, Enter(c) \/ DiscardBacklog(c) \/ Drain(c) PROVE IInv'
  BY <1>4, EnterInv, DiscardInv, DrainInv
<1>5. CASE UNCHANGED vars
  <2>1. UNCHANGED <<hubVars, cursor, call>>
    BY <1>5 DEF vars
  <2> QED
    BY <2>1 DEF IInv, TypeOK, HistoryOK, EntryOK, PairOK, Through, CursorOK, CallOK, Guarded,
      SamplesBefore, DropsBefore, Retained, Oldest, OldestAt, hubVars
<1> QED
  BY <1>1, <1>2, <1>3, <1>4, <1>5 DEF Next

THEOREM Inductive == Spec => []IInv
BY InitInv, NextInv, PTL DEF Spec

-----------------------------------------------------------------------------
(* The refinement.                                                          *)

\* The view of a consumer, field by field.
LEMMA View ==
  ASSUME NEW c \in Consumers
  PROVE  /\ Unread[c] = SamplesBefore(At(c)) + 1
         /\ Told[c] = [samples |-> cursor[c].samplePosition, losses |-> cursor[c].sourceDropPosition]
         /\ Holes[c] = cursor[c].hole
         /\ Calls[c].open <=> call[c].pc # "idle"
         /\ Calls[c].got = call[c].out /\ Calls[c].dropped = call[c].dropped
         /\ Calls[c].front = call[c].hole /\ Calls[c].due = Due(c)
         /\ Calls[c].news <=> (call[c].pc # "idle" /\ head # call[c].snapshotHead)
BY DEF Unread, Told, Holes, Calls

\* A place in the history and a place in the stream.
LEMMA Places ==
  ASSUME IInv, NEW c \in Consumers
  PROVE  /\ At(c) \in Nat /\ Oldest <= At(c) /\ At(c) <= head
         /\ SamplesBefore(At(c)) \in Nat /\ SamplesBefore(At(c)) <= sampleCount
         /\ cursor[c].samplePosition <= SamplesBefore(At(c))
         /\ cursor[c].sourceDropPosition <= DropsBefore(At(c))
         /\ Len(marks) = sampleCount
         /\ ~Overflow(c) => At(c) = cursor[c].historyPosition
<1>1. /\ TypeOK /\ HistoryOK /\ CursorOK(cursor[c]) /\ head \in Nat /\ cursor[c] \in Cursor
      /\ Oldest \in Nat /\ Oldest <= head
  BY Known
<1>2. cursor[c].historyPosition \in Nat /\ cursor[c].historyPosition <= head
  BY <1>1 DEF Cursor, CursorOK
<1>3. /\ At(c) \in Nat /\ Oldest <= At(c) /\ At(c) <= head
      /\ ~Overflow(c) => At(c) = cursor[c].historyPosition
      /\ Overflow(c) => At(c) = Oldest
  BY <1>1, <1>2 DEF At, Overflow
<1>4. SamplesBefore(At(c)) \in Nat /\ SamplesBefore(At(c)) <= sampleCount
      /\ DropsBefore(At(c)) \in Nat
  BY <1>1, <1>3, Monotone
<1>5. /\ cursor[c].samplePosition <= SamplesBefore(At(c))
      /\ cursor[c].sourceDropPosition <= DropsBefore(At(c))
  <2>1. CASE Overflow(c)
    BY <1>1, <1>3, <2>1 DEF CursorOK, Overflow
  <2>2. CASE ~Overflow(c)
    <3>1. cursor[c].historyPosition >= Oldest
      BY <1>1, <1>2, <2>2 DEF Overflow
    <3>2. cursor[c].samplePosition = SamplesBefore(At(c))
          /\ cursor[c].sourceDropPosition <= DropsBefore(At(c))
      BY <1>1, <1>3, <2>2, <3>1 DEF CursorOK
    <3> QED
      BY <1>4, <3>2
  <2> QED
    BY <2>1, <2>2
<1> QED
  BY <1>1, <1>3, <1>4, <1>5 DEF TypeOK

\* The loss in front of a consumer ends no earlier than the entry it is at says.
LEMMA ClearAhead ==
  ASSUME IInv, NEW c \in Consumers
  PROVE  /\ Channel!Clear(c).samples = SamplesBefore(At(c))
         /\ Channel!Clear(c).losses \in Nat /\ DropsBefore(At(c)) \in Nat
         /\ DropsBefore(At(c)) <= Channel!Clear(c).losses
         /\ SamplesBefore(At(c)) = sampleCount => Channel!Clear(c).losses = sourceDropCount
         /\ SamplesBefore(At(c)) < sampleCount =>
              Channel!Clear(c).losses = marks[SamplesBefore(At(c)) + 1]
<1>1. /\ TypeOK /\ HistoryOK /\ head \in Nat /\ sampleCount \in Nat /\ sourceDropCount \in Nat
      /\ marks \in Seq(Nat)
  BY Known DEF TypeOK
<1>2. PICK p \in Nat : p = At(c)
  BY Places
<1>3. PICK s \in Nat : s = SamplesBefore(p) /\ s <= sampleCount
  BY <1>2, Places
<1>4. Oldest <= p /\ p <= head /\ Len(marks) = sampleCount
  BY <1>2, Places
<1>5. /\ Channel!Clear(c).samples = (s + 1) - 1
      /\ Channel!Clear(c).losses = IF s + 1 <= sampleCount THEN marks[s + 1] ELSE sourceDropCount
  BY <1>2, <1>3, <1>4, View DEF Channel!Clear, Channel!Published
<1>6. DropsBefore(p) \in Nat /\ DropsBefore(p) <= sourceDropCount
  BY <1>1, <1>4, Monotone
<1>7. s < sampleCount => DropsBefore(p) <= marks[s + 1] /\ marks[s + 1] \in Nat
  <2>1. CASE p < head
    <3>1. EntryOK(p) /\ DropsBefore(p) = history[p].drops /\ s = history[p].samples
      BY <1>1, <1>3, <1>4, <2>1 DEF HistoryOK, Retained, DropsBefore, SamplesBefore
    <3> QED
      BY <1>1, <1>3, <1>4, <3>1 DEF EntryOK
  <2>2. CASE p = head
    BY <1>1, <1>3, <2>2 DEF SamplesBefore
  <2> QED
    BY <1>1, <1>4, <2>1, <2>2
<1> QED
  BY <1>1, <1>2, <1>3, <1>5, <1>6, <1>7

\* A step of c leaves the other consumers' views.
LEMMA OnlyOne ==
  ASSUME UNCHANGED hubVars, NEW c \in Consumers,
         \A b \in Consumers \ {c} : cursor'[b] = cursor[b] /\ call'[b] = call[b]
  PROVE  /\ Unread' = [Unread EXCEPT ![c] = Unread'[c]]
         /\ Told' = [Told EXCEPT ![c] = Told'[c]]
         /\ Holes' = [Holes EXCEPT ![c] = Holes'[c]]
         /\ Calls' = [Calls EXCEPT ![c] = Calls'[c]]
<1>1. \A b \in Consumers \ {c} : At(b)' = At(b) /\ Due(b)' = Due(b)
  BY DEF At, Due, Overflow, SamplesBefore, Oldest, OldestAt, hubVars
<1>2. ASSUME NEW b \in Consumers \ {c}
      PROVE Unread'[b] = Unread[b] /\ Told'[b] = Told[b] /\ Holes'[b] = Holes[b] /\ Calls'[b] = Calls[b]
  <2>1. At(b)' = At(b) /\ Due(b)' = Due(b) /\ cursor'[b] = cursor[b] /\ call'[b] = call[b]
    BY <1>1
  <2>2. head' = head /\ history' = history /\ sampleCount' = sampleCount
    BY DEF hubVars
  <2> QED
    BY <2>1, <2>2 DEF Unread, Told, Holes, Calls, SamplesBefore
<1>3. Unread' = [Unread EXCEPT ![c] = Unread'[c]]
  BY <1>2 DEF Unread
<1>4. Told' = [Told EXCEPT ![c] = Told'[c]]
  BY <1>2 DEF Told
<1>5. Holes' = [Holes EXCEPT ![c] = Holes'[c]]
  BY <1>2 DEF Holes
<1>6. Calls' = [Calls EXCEPT ![c] = Calls'[c]]
  <2>1. Calls = [b \in Consumers |-> Calls[b]] /\ Calls' = [b \in Consumers |-> Calls'[b]]
    BY Zenon DEF Calls
  <2> QED
    BY <1>2, <2>1
<1> QED
  BY <1>3, <1>4, <1>5, <1>6

LEMMA Functions ==
  /\ Unread = [b \in Consumers |-> Unread[b]] /\ Told = [b \in Consumers |-> Told[b]]
  /\ Holes = [b \in Consumers |-> Holes[b]] /\ Calls = [b \in Consumers |-> Calls[b]]
BY Zenon DEF Unread, Told, Holes, Calls

\* A step that moves neither the place of c nor its counters is not seen.
LEMMA Unseen ==
  ASSUME UNCHANGED hubVars, NEW c \in Consumers,
         \A b \in Consumers \ {c} : cursor'[b] = cursor[b] /\ call'[b] = call[b],
         Unread'[c] = Unread[c], Told'[c] = Told[c], Holes'[c] = Holes[c], Calls'[c] = Calls[c]
  PROVE  UNCHANGED Channel!vars
<1>1. /\ Unread' = [Unread EXCEPT ![c] = Unread[c]] /\ Told' = [Told EXCEPT ![c] = Told[c]]
      /\ Holes' = [Holes EXCEPT ![c] = Holes[c]] /\ Calls' = [Calls EXCEPT ![c] = Calls[c]]
  BY OnlyOne
<1>2. Unread' = Unread /\ Told' = Told /\ Holes' = Holes /\ Calls' = Calls
  BY <1>1, Functions
<1> QED
  BY <1>1, <1>2 DEF Channel!vars, Channel!streamVars, hubVars

\* The view of the call and the cursor, kept field by field.
LEMMA SameCall ==
  ASSUME UNCHANGED hubVars, NEW c \in Consumers,
         call'[c].pc # "idle" <=> call[c].pc # "idle", call'[c].out = call[c].out,
         call'[c].dropped = call[c].dropped, call'[c].hole = call[c].hole,
         call'[c].snapshotHead = call[c].snapshotHead, Due(c)' = Due(c)
  PROVE  Calls'[c] = Calls[c]
<1> DEFINE o == call[c].pc # "idle"
           n == call[c].pc # "idle" /\ head # call[c].snapshotHead
<1>1. Calls[c] = [open |-> o, got |-> call[c].out, dropped |-> call[c].dropped,
                  front |-> call[c].hole, due |-> Due(c), news |-> n]
  BY DEF Calls
<1>2. Calls'[c] = [open |-> o', got |-> call'[c].out, dropped |-> call'[c].dropped,
                  front |-> call'[c].hole, due |-> Due(c)', news |-> n']
  BY DEF Calls
<1>3. o' = o /\ n' = n
  BY DEF hubVars
<1> QED
  BY <1>1, <1>2, <1>3

\* Reserve, Chunk and ChunkFull.
LEMMA PhaseUnseen ==
  ASSUME IInv, NEW c \in Consumers, Reserve(c) \/ Chunk(c) \/ ChunkFull(c)
  PROVE  UNCHANGED Channel!vars
<1>0. call \in [Consumers -> CallType]
  BY DEF IInv, TypeOK
<1>1. /\ UNCHANGED hubVars /\ cursor' = cursor
      /\ \A b \in Consumers \ {c} : cursor'[b] = cursor[b] /\ call'[b] = call[b]
  <2>1. CASE Reserve(c)
    BY <1>0, <2>1 DEF Reserve
  <2>2. CASE Chunk(c)
    BY <1>0, <2>2 DEF Chunk
  <2>3. CASE ChunkFull(c)
    BY <1>0, <2>3 DEF ChunkFull
  <2> QED
    BY <2>1, <2>2, <2>3
<1>2. /\ call'[c].out = call[c].out /\ call'[c].dropped = call[c].dropped
      /\ call'[c].hole = call[c].hole /\ call'[c].snapshotHead = call[c].snapshotHead
  <2>1. call \in [Consumers -> CallType]
    BY DEF IInv, TypeOK
  <2>2. CASE Reserve(c)
    BY <2>1, <2>2 DEF Reserve, CallType
  <2>3. CASE Chunk(c)
    BY <2>1, <2>3 DEF Chunk, CallType
  <2>4. CASE ChunkFull(c)
    BY <2>1, <2>4 DEF ChunkFull, CallType
  <2> QED
    BY <2>2, <2>3, <2>4
<1>3. call[c].pc # "idle" /\ call'[c].pc # "idle"
  BY DEF IInv, TypeOK, CallType, Reserve, Chunk, ChunkFull, Copying
<1>4. At(c)' = At(c)
  BY <1>1 DEF At, Overflow, Oldest, OldestAt, hubVars
<1>5. Due(c)' = Due(c)
  BY <1>1, <1>2, <1>3, <1>4 DEF Due, SamplesBefore, hubVars
<1>6. Unread'[c] = Unread[c] /\ Told'[c] = Told[c] /\ Holes'[c] = Holes[c]
  BY <1>1, <1>4 DEF Unread, Told, Holes, SamplesBefore, hubVars
<1>7. Calls'[c] = Calls[c]
  BY <1>1, <1>2, <1>3, <1>5, SameCall
<1> QED
  BY <1>1, <1>6, <1>7, Unseen

\* A call begins.
LEMMA EnterStep ==
  ASSUME IInv, NEW c \in Consumers, Enter(c)
  PROVE  Channel!Call(c)
<1>1. /\ UNCHANGED hubVars /\ cursor' = cursor
      /\ \A b \in Consumers \ {c} : cursor'[b] = cursor[b] /\ call'[b] = call[b]
      /\ call[c].pc = "idle"
  BY DEF Enter
<1>2. call'[c] = [pc |-> "enter", out |-> <<>>, dropped |-> 0, hole |-> NoHole,
                  snapshotHead |-> head, copied |-> 0]
  BY DEF Enter, IInv, TypeOK
<1>3. At(c)' = At(c) /\ SamplesBefore(At(c))' = SamplesBefore(At(c))
  BY <1>1 DEF At, Overflow, Oldest, OldestAt, SamplesBefore, hubVars
<1>4. /\ head \in Nat /\ sampleCount \in Nat /\ At(c) \in Nat /\ At(c) <= head
      /\ SamplesBefore(At(c)) \in Nat /\ Len(marks) = sampleCount
  BY Known, Places
<1>5. SamplesBefore(head) = sampleCount
  BY <1>4 DEF SamplesBefore
<1>6. Due(c)' = sampleCount - SamplesBefore(At(c))
  <2>1. Due(c)' = IF At(c) >= head THEN 0 ELSE sampleCount - SamplesBefore(At(c))
    BY <1>1, <1>2, <1>3, <1>5 DEF Due, SamplesBefore, hubVars
  <2>2. At(c) >= head => SamplesBefore(At(c)) = sampleCount
    BY <1>4, <1>5
  <2> QED
    BY <1>4, <2>1, <2>2
<1>7. Calls'[c] = [open |-> TRUE, got |-> <<>>, dropped |-> 0, front |-> NoHole,
                   due |-> Channel!Published + 1 - Unread[c], news |-> FALSE]
  <2>0. Unread[c] = SamplesBefore(At(c)) + 1
    BY View
  <2>1. Channel!Published + 1 - Unread[c] = Due(c)'
    BY <1>4, <1>6, <2>0 DEF Channel!Published
  <2> DEFINE o == call[c].pc # "idle"
             n == call[c].pc # "idle" /\ head # call[c].snapshotHead
  <2>2. Calls'[c] = [open |-> o', got |-> call'[c].out, dropped |-> call'[c].dropped,
                    front |-> call'[c].hole, due |-> Due(c)', news |-> n']
    BY DEF Calls
  <2>3. o' /\ ~n'
    BY <1>1, <1>2 DEF hubVars
  <2>4. o' = TRUE /\ n' = FALSE
    BY <2>3, Zenon
  <2>5. call'[c].out = <<>> /\ call'[c].dropped = 0 /\ call'[c].hole = NoHole
    BY <1>2
  <2>6. Calls'[c] = [open |-> TRUE, got |-> call'[c].out, dropped |-> call'[c].dropped,
                     front |-> call'[c].hole, due |-> Due(c)', news |-> FALSE]
    BY <2>2, <2>4, Zenon
  <2> QED
    BY <2>1, <2>5, <2>6, Zenon
<1>8. ~Calls[c].open
  BY <1>1, View
<1>9. UNCHANGED <<Unread, Told, Holes>>
  <2>1. Unread'[c] = Unread[c] /\ Told'[c] = Told[c] /\ Holes'[c] = Holes[c]
    BY <1>1, <1>3 DEF Unread, Told, Holes
  <2>2. /\ Unread' = [Unread EXCEPT ![c] = Unread'[c]] /\ Told' = [Told EXCEPT ![c] = Told'[c]]
        /\ Holes' = [Holes EXCEPT ![c] = Holes'[c]]
    BY <1>1, OnlyOne
  <2> QED
    BY <2>1, <2>2, Functions
<1>10. Calls' = [Calls EXCEPT ![c] = Calls'[c]]
  BY <1>1, OnlyOne
<1> QED
  BY <1>1, <1>7, <1>8, <1>9, <1>10 DEF Channel!Call, Channel!streamVars, Channel!NoHole, NoHole, hubVars

IsOpen(c) == call[c].pc # "idle"
HasNews(c) == call[c].pc # "idle" /\ head # call[c].snapshotHead

LEMMA CallView ==
  ASSUME NEW c \in Consumers
  PROVE  /\ Calls[c] = [open |-> IsOpen(c), got |-> call[c].out, dropped |-> call[c].dropped,
                        front |-> call[c].hole, due |-> Due(c), news |-> HasNews(c)]
         /\ Calls'[c] = [open |-> IsOpen(c)', got |-> call'[c].out, dropped |-> call'[c].dropped,
                         front |-> call'[c].hole, due |-> Due(c)', news |-> HasNews(c)']
BY Zenon DEF Calls, IsOpen, HasNews

\* Where c is told of samples and losses before it is handed anything.
LEMMA Counting ==
  ASSUME IInv, UNCHANGED hubVars, NEW c \in Consumers,
         \A b \in Consumers \ {c} : cursor'[b] = cursor[b] /\ call'[b] = call[b],
         call[c].pc # "idle", call[c].out = <<>>, At(c)' = At(c), NEW a \in Nat, NEW l \in Nat,
         call'[c] = [call[c] EXCEPT !.dropped = call[c].dropped + (a + l)],
         cursor'[c].samplePosition = cursor[c].samplePosition + a,
         cursor'[c].sourceDropPosition = cursor[c].sourceDropPosition + l,
         cursor'[c].hole = [cursor[c].hole EXCEPT !.size = cursor[c].hole.size + (a + l)],
         cursor[c].samplePosition + a <= SamplesBefore(At(c)),
         cursor[c].sourceDropPosition + l <= Channel!Clear(c).losses
  PROVE  Channel!Count(c) \/ UNCHANGED Channel!vars
<1>0. cursor[c] \in Cursor /\ call[c] \in CallType
  BY Known
<1>1. /\ call'[c].pc = call[c].pc /\ call'[c].out = call[c].out /\ call'[c].hole = call[c].hole
      /\ call'[c].snapshotHead = call[c].snapshotHead
      /\ call'[c].dropped = call[c].dropped + (a + l)
  BY <1>0 DEF CallType
<1>2. Unread'[c] = Unread[c] /\ Due(c)' = Due(c)
  BY <1>1 DEF Unread, Due, SamplesBefore, hubVars
<1>3. IsOpen(c)' = IsOpen(c) /\ HasNews(c)' = HasNews(c)
  BY <1>1 DEF IsOpen, HasNews, hubVars
<1>4. /\ cursor[c].samplePosition \in Nat /\ cursor[c].sourceDropPosition \in Nat
      /\ cursor[c].hole \in HoleType /\ call[c].dropped \in Nat /\ cursor[c].hole.size \in Nat
  BY <1>0 DEF Cursor, HoleType, CallType
<1>5. CASE a + l = 0
  <2>1. a = 0 /\ l = 0 /\ call[c].dropped + (a + l) = call[c].dropped
        /\ cursor[c].hole.size + (a + l) = cursor[c].hole.size
    BY <1>4, <1>5
  <2>2. cursor'[c].hole = cursor[c].hole
    BY <1>4, <2>1 DEF HoleType
  <2>3. Told'[c] = Told[c] /\ Holes'[c] = Holes[c]
    BY <1>4, <2>1, <2>2 DEF Told, Holes
  <2>4. Calls'[c] = Calls[c]
    BY <1>1, <1>2, <2>1, SameCall
  <2> QED
    BY <1>2, <2>3, <2>4, Unseen
<1>6. CASE a + l > 0
  <2> DEFINE samples == cursor[c].samplePosition + a
             losses == cursor[c].sourceDropPosition + l
  <2>1. /\ Told[c].samples = cursor[c].samplePosition /\ Told[c].losses = cursor[c].sourceDropPosition
        /\ Calls[c].open /\ Calls[c].got = <<>>
    <3>1. Calls[c].open
      BY View
    <3>2. Calls[c].got = <<>>
      BY View
    <3> QED
      BY <3>1, <3>2 DEF Told
  <2>2. /\ samples \in Told[c].samples .. Channel!Clear(c).samples
        /\ losses \in Told[c].losses .. Channel!Clear(c).losses
    <3>1. /\ Channel!Clear(c).samples = SamplesBefore(At(c)) /\ Channel!Clear(c).losses \in Nat
          /\ SamplesBefore(At(c)) \in Nat
      BY ClearAhead, Places
    <3>2. samples <= Channel!Clear(c).samples /\ losses <= Channel!Clear(c).losses
      BY <3>1
    <3> QED
      BY <1>4, <2>1, <3>1, <3>2
  <2>3. (samples - Told[c].samples) + (losses - Told[c].losses) = a + l
    BY <1>4, <2>1
  <2>4. Told' = [Told EXCEPT ![c] = [samples |-> samples, losses |-> losses]]
    <3>1. Told'[c] = [samples |-> samples, losses |-> losses]
      BY DEF Told
    <3> QED
      BY <3>1, OnlyOne
  <2>5. Holes' = [Holes EXCEPT ![c].size = Holes[c].size + (a + l)]
    <3>1. Holes'[c] = [Holes[c] EXCEPT !.size = Holes[c].size + (a + l)]
      BY DEF Holes
    <3> QED
      BY <3>1, OnlyOne
  <2>6. Calls' = [Calls EXCEPT ![c].dropped = Calls[c].dropped + (a + l)]
    <3>1. Calls[c].dropped = call[c].dropped
      BY View
    <3>2. Calls'[c] = [open |-> IsOpen(c), got |-> call[c].out, dropped |-> call[c].dropped + (a + l),
                       front |-> call[c].hole, due |-> Due(c), news |-> HasNews(c)]
      BY <1>1, <1>2, <1>3, CallView, Zenon
    <3>3. Calls[c] = [open |-> IsOpen(c), got |-> call[c].out, dropped |-> call[c].dropped,
                      front |-> call[c].hole, due |-> Due(c), news |-> HasNews(c)]
      BY CallView
    <3> DEFINE o == IsOpen(c)
               n == HasNews(c)
    <3>4. Calls'[c] = [Calls[c] EXCEPT !.dropped = Calls[c].dropped + (a + l)]
      <4> HIDE DEF o, n
      <4> QED
        BY <3>1, <3>2, <3>3
    <3> QED
      BY <3>4, OnlyOne
  <2>7. Unread' = Unread
    BY <1>2, OnlyOne, Functions
  <2> HIDE DEF samples, losses
  <2> QED
    BY <1>6, <2>1, <2>2, <2>3, <2>4, <2>5, <2>6, <2>7 DEF Channel!Count, Channel!streamVars, hubVars
<1> QED
  BY <1>5, <1>6

LEMMA AccountStep ==
  ASSUME IInv, NEW c \in Consumers, EnterAccount(c) \/ ChunkAccount(c)
  PROVE  Channel!Count(c) \/ UNCHANGED Channel!vars
<1>0. /\ call \in [Consumers -> CallType] /\ cursor \in [Consumers -> Cursor] /\ CallOK(c)
      /\ cursor[c] \in Cursor /\ call[c] \in CallType
  BY Known DEF IInv, TypeOK
<1>1. UNCHANGED hubVars /\ Overflow(c) /\ Account(c) /\ call[c].pc # "idle" /\ call[c].out = <<>>
  BY <1>0 DEF EnterAccount, ChunkAccount, CallOK
<1>2. PICK lost \in Nat : lost = history[Oldest].samples - cursor[c].samplePosition
  BY <1>0, <1>1, AccountInv DEF Cursor, Entry
<1>3. /\ cursor' = [cursor EXCEPT ![c] = [cursor[c] EXCEPT !.historyPosition = Oldest,
           !.samplePosition = cursor[c].samplePosition + lost, !.hole.size = cursor[c].hole.size + lost]]
      /\ call' = [call EXCEPT ![c].dropped = call[c].dropped + lost]
  BY <1>1, <1>2 DEF Account
<1>4. \A b \in Consumers \ {c} : cursor'[b] = cursor[b] /\ call'[b] = call[b]
  BY <1>0, <1>3
<1>5. call'[c] = [call[c] EXCEPT !.dropped = call[c].dropped + (lost + 0)]
  BY <1>0, <1>2, <1>3
<1>6. /\ cursor'[c].historyPosition = Oldest
      /\ cursor'[c].samplePosition = cursor[c].samplePosition + lost
      /\ cursor'[c].sourceDropPosition = cursor[c].sourceDropPosition + 0
      /\ cursor'[c].hole = [cursor[c].hole EXCEPT !.size = cursor[c].hole.size + (lost + 0)]
  BY <1>0, <1>2, <1>3 DEF Cursor
<1>7. At(c)' = At(c)
  <2>1. At(c) = Oldest /\ Oldest' = Oldest
    BY <1>1 DEF At, Oldest, OldestAt, hubVars
  <2> QED
    BY <1>6, <2>1 DEF At, Overflow
<1>8. /\ SamplesBefore(At(c)) = history[Oldest].samples
      /\ history[Oldest] \in Entry
  <2>1. At(c) = Oldest /\ Oldest < head /\ history[Oldest] \in Entry
    BY <1>1, AccountInv DEF At
  <2> QED
    BY <2>1 DEF SamplesBefore
<1>9. cursor[c].samplePosition + lost <= SamplesBefore(At(c))
  BY <1>0, <1>2, <1>8 DEF Cursor, Entry
<1>10. cursor[c].sourceDropPosition + 0 <= Channel!Clear(c).losses
  <2>1. /\ cursor[c].sourceDropPosition \in Nat
        /\ cursor[c].sourceDropPosition <= DropsBefore(At(c)) /\ DropsBefore(At(c)) \in Nat
        /\ DropsBefore(At(c)) <= Channel!Clear(c).losses /\ Channel!Clear(c).losses \in Nat
    BY <1>0, Places, ClearAhead DEF Cursor
  <2> QED
    BY <2>1
<1> QED
  BY <1>1, <1>4, <1>5, <1>6, <1>7, <1>9, <1>10, Counting

LEMMA CountSourceGapStep ==
  ASSUME IInv, NEW c \in Consumers, CountSourceGap(c)
  PROVE  Channel!Count(c) \/ UNCHANGED Channel!vars
<1>0. /\ call \in [Consumers -> CallType] /\ cursor \in [Consumers -> Cursor] /\ CallOK(c)
      /\ cursor[c] \in Cursor /\ call[c] \in CallType /\ head \in Nat /\ call[c].snapshotHead <= head
  BY Known DEF IInv, TypeOK
<1>1. PICK p \in Nat : p = cursor[c].historyPosition
  BY <1>0 DEF Cursor
<1>2. /\ UNCHANGED hubVars /\ ~Overflow(c) /\ call[c].pc # "idle" /\ call[c].out = <<>>
      /\ p < head /\ history[p].drops > cursor[c].sourceDropPosition
  BY <1>0, <1>1 DEF CountSourceGap, SourceGap, CallType
<1>3. /\ history[p] \in Entry /\ DropsBefore(p) = history[p].drops
      /\ history[p].drops \in Nat /\ cursor[c].sourceDropPosition \in Nat
  BY <1>0, <1>1, <1>2, EntryAt DEF Cursor, Entry
<1>4. PICK lost \in Nat : lost = history[p].drops - cursor[c].sourceDropPosition
  BY <1>2, <1>3
<1>5. /\ cursor' = [cursor EXCEPT ![c] = [cursor[c] EXCEPT
           !.sourceDropPosition = cursor[c].sourceDropPosition + lost,
           !.hole.size = cursor[c].hole.size + lost]]
      /\ call' = [call EXCEPT ![c].dropped = call[c].dropped + lost]
  BY <1>1, <1>4 DEF CountSourceGap
<1>6. \A b \in Consumers \ {c} : cursor'[b] = cursor[b] /\ call'[b] = call[b]
  BY <1>0, <1>5
<1>7. call'[c] = [call[c] EXCEPT !.dropped = call[c].dropped + (0 + lost)]
  BY <1>0, <1>4, <1>5
<1>8. /\ cursor'[c].historyPosition = cursor[c].historyPosition
      /\ cursor'[c].samplePosition = cursor[c].samplePosition + 0
      /\ cursor'[c].sourceDropPosition = cursor[c].sourceDropPosition + lost
      /\ cursor'[c].hole = [cursor[c].hole EXCEPT !.size = cursor[c].hole.size + (0 + lost)]
  BY <1>0, <1>4, <1>5 DEF Cursor
<1>9. At(c)' = At(c)
  BY <1>2, <1>8 DEF At, Overflow, Oldest, OldestAt, hubVars
<1>10. cursor[c].samplePosition + 0 <= SamplesBefore(At(c))
  BY <1>0, Places DEF Cursor
<1>11. cursor[c].sourceDropPosition + lost <= Channel!Clear(c).losses
  <2>1. At(c) = p
    BY <1>1, <1>2, Places
  <2>2. DropsBefore(At(c)) <= Channel!Clear(c).losses
    BY ClearAhead
  <2> QED
    BY <1>3, <1>4, <2>1, <2>2
<1> QED
  BY <1>2, <1>6, <1>7, <1>8, <1>9, <1>10, <1>11, Counting

\* A consumer between calls starts over at the end of the stream.
LEMMA DiscardStep ==
  ASSUME IInv, NEW c \in Consumers, DiscardBacklog(c)
  PROVE  Channel!Discard(c)
<1>1. /\ UNCHANGED hubVars /\ call' = call /\ call[c].pc = "idle" /\ cursor'[c] = Now
      /\ \A b \in Consumers \ {c} : cursor'[b] = cursor[b] /\ call'[b] = call[b]
  BY DEF DiscardBacklog, IInv, TypeOK
<1>2. /\ head \in Nat /\ sampleCount \in Nat /\ Oldest \in Nat /\ Oldest <= head /\ Len(marks) = sampleCount
  BY Known, Places
<1>3. At(c)' = head
  BY <1>1, <1>2 DEF At, Overflow, Oldest, OldestAt, hubVars, Now
<1>4. Unread'[c] = sampleCount + 1
  BY <1>1, <1>2, <1>3 DEF Unread, SamplesBefore, hubVars
<1>5. /\ Told'[c] = [samples |-> sampleCount, losses |-> sourceDropCount]
      /\ Holes'[c] = NoHole
  BY <1>1 DEF Told, Holes, Now
<1>6. Calls'[c] = Calls[c]
  <2>1. Due(c) = 0 /\ Due(c)' = 0
    BY <1>1 DEF Due
  <2> QED
    BY <1>1, <2>1, SameCall
<1>7. Calls' = Calls
  BY <1>1, <1>6, OnlyOne, Functions
<1>8. ~Calls[c].open
  BY <1>1, View
<1>9. /\ Unread' = [Unread EXCEPT ![c] = sampleCount + 1]
      /\ Told' = [Told EXCEPT ![c] = [samples |-> sampleCount, losses |-> sourceDropCount]]
      /\ Holes' = [Holes EXCEPT ![c] = NoHole]
  BY <1>1, <1>4, <1>5, OnlyOne
<1> QED
  BY <1>1, <1>2, <1>7, <1>8, <1>9 DEF Channel!Discard, Channel!Published, Channel!Here,
    Channel!NoHole, Channel!streamVars, NoHole, hubVars

\* How far a copied entry takes a consumer through the samples.
LEMMA CopyPlace ==
  ASSUME IInv, NEW c \in Consumers, CopyEntry(c)
  PROVE  LET p == cursor[c].historyPosition IN
         /\ At(c) = p /\ At(c)' = p + 1
         /\ call'[c].pc = "copy" /\ call[c].pc = "copy" /\ call'[c].dropped = call[c].dropped
         /\ call'[c].snapshotHead = call[c].snapshotHead
         /\ \A q : SamplesBefore(q)' = SamplesBefore(q)
         /\ Due(c) = SamplesBefore(call[c].snapshotHead) - SamplesBefore(p)
         /\ Due(c)' = SamplesBefore(call[c].snapshotHead) - SamplesBefore(p + 1)
         /\ SamplesBefore(p + 1) <= SamplesBefore(call[c].snapshotHead)
         /\ SamplesBefore(p) \in Nat /\ SamplesBefore(p + 1) \in Nat
         /\ SamplesBefore(call[c].snapshotHead) \in Nat /\ SamplesBefore(p + 1) <= sampleCount
<1>0. /\ head \in Nat /\ cursor[c] \in Cursor /\ call[c] \in CallType /\ call[c].snapshotHead <= head
      /\ TypeOK /\ HistoryOK /\ Oldest \in Nat /\ UNCHANGED hubVars /\ call \in [Consumers -> CallType]
  BY Known DEF CopyEntry, IInv, TypeOK
<1>1. PICK p \in Nat : p = cursor[c].historyPosition
  BY <1>0 DEF Cursor
<1>2. PICK h \in Nat : h = call[c].snapshotHead /\ h <= head
  BY <1>0 DEF CallType
<1>3. p < h /\ Oldest <= p /\ cursor'[c].historyPosition = p + 1
  BY <1>1, <1>2, CopyFacts
<1>4. call'[c].pc = "copy" /\ call[c].pc = "copy" /\ call'[c].snapshotHead = h
      /\ call'[c].dropped = call[c].dropped
  BY <1>0, <1>2 DEF CopyEntry, Copying, CallType
<1>5. Oldest' = Oldest
  BY <1>0 DEF Oldest, OldestAt, hubVars
<1>6. At(c) = p
  BY <1>0, <1>1, <1>3 DEF At, Overflow
<1>7. At(c)' = p + 1
  BY <1>0, <1>3, <1>5 DEF At, Overflow
<1>8. \A q : SamplesBefore(q)' = SamplesBefore(q)
  BY <1>0 DEF SamplesBefore, hubVars
<1>9. /\ SamplesBefore(p) \in Nat /\ SamplesBefore(p + 1) \in Nat /\ SamplesBefore(h) \in Nat
      /\ SamplesBefore(p + 1) <= SamplesBefore(h) /\ SamplesBefore(p + 1) <= sampleCount
  <2>1. p + 1 \in Nat /\ p + 1 <= h /\ p + 1 <= head /\ Oldest <= p + 1 /\ p <= p + 1 /\ p <= h
        /\ Oldest <= h
    BY <1>0, <1>2, <1>3
  <2> QED
    BY <1>0, <1>2, <1>3, <2>1, Monotone
<1>10. Due(c) = SamplesBefore(h) - SamplesBefore(p)
  BY <1>2, <1>3, <1>4, <1>6 DEF Due
<1>11. Due(c)' = SamplesBefore(h) - SamplesBefore(p + 1)
  <2>1. Due(c)' = IF p + 1 >= h THEN 0 ELSE SamplesBefore(h)' - SamplesBefore(p + 1)'
    BY <1>4, <1>7 DEF Due
  <2>2. p + 1 >= h => p + 1 = h
    BY <1>2, <1>3
  <2> QED
    BY <1>8, <1>9, <2>1, <2>2
<1> QED
  BY <1>1, <1>2, <1>4, <1>6, <1>7, <1>8, <1>9, <1>10, <1>11

LEMMA CopyGapStep ==
  ASSUME IInv, NEW c \in Consumers, CopyEntry(c), ~history[cursor[c].historyPosition].hasSample
  PROVE  UNCHANGED Channel!vars
<1>0. call \in [Consumers -> CallType] /\ cursor \in [Consumers -> Cursor] /\ UNCHANGED hubVars
      /\ call[c] \in CallType /\ cursor[c] \in Cursor
  BY DEF IInv, TypeOK, CopyEntry
<1>1. PICK p \in Nat : p = cursor[c].historyPosition
  BY <1>0 DEF Cursor
<1>2. /\ cursor' = [cursor EXCEPT ![c] = [cursor[c] EXCEPT !.historyPosition = p + 1,
                                           !.samplePosition = history[p].samples]]
      /\ call' = [call EXCEPT ![c] = [call[c] EXCEPT !.copied = call[c].copied + 1]]
  <2>1. cursor' = [cursor EXCEPT ![c] = [cursor[c] EXCEPT !.historyPosition = p + 1,
                                           !.samplePosition = history[p].samples,
                                           !.hole = cursor[c].hole]]
    BY <1>1 DEF CopyEntry
  <2>2. call' = [call EXCEPT ![c] = [call[c] EXCEPT !.copied = call[c].copied + 1,
                                       !.out = call[c].out, !.hole = call[c].hole]]
    BY <1>1 DEF CopyEntry
  <2> QED
    BY <1>0, <2>1, <2>2 DEF Cursor, CallType
<1>3. \A b \in Consumers \ {c} : cursor'[b] = cursor[b] /\ call'[b] = call[b]
  BY <1>0, <1>2
<1>4. /\ cursor'[c].hole = cursor[c].hole /\ cursor'[c].samplePosition = history[p].samples
      /\ cursor'[c].sourceDropPosition = cursor[c].sourceDropPosition
      /\ call'[c].out = call[c].out /\ call'[c].hole = call[c].hole
  BY <1>0, <1>2 DEF Cursor, CallType
<1>5. Through(history[p]) = history[p].samples
  BY <1>1, Zenon DEF Through
<1>6. SamplesBefore(p + 1) = SamplesBefore(p) /\ cursor[c].samplePosition = history[p].samples
  BY <1>1, <1>5, CopyFacts
<1>7. /\ At(c) = p /\ At(c)' = p + 1 /\ \A q : SamplesBefore(q)' = SamplesBefore(q)
      /\ call'[c].pc = "copy" /\ call[c].pc = "copy" /\ call'[c].snapshotHead = call[c].snapshotHead
      /\ call'[c].dropped = call[c].dropped
      /\ Due(c) = SamplesBefore(call[c].snapshotHead) - SamplesBefore(p)
      /\ Due(c)' = SamplesBefore(call[c].snapshotHead) - SamplesBefore(p + 1)
  BY <1>1, CopyPlace
<1>8. Unread'[c] = Unread[c] /\ Told'[c] = Told[c] /\ Holes'[c] = Holes[c] /\ Due(c)' = Due(c)
  <2>1. Unread[c] = SamplesBefore(p) + 1
    BY <1>7 DEF Unread
  <2>2. Unread'[c] = SamplesBefore(p + 1)' + 1
    BY <1>7 DEF Unread
  <2> QED
    BY <1>4, <1>6, <1>7, <2>1, <2>2 DEF Told, Holes
<1>9. Calls'[c] = Calls[c]
  BY <1>0, <1>4, <1>7, <1>8, SameCall
<1> QED
  BY <1>0, <1>3, <1>8, <1>9, Unseen

LEMMA HandStep ==
  ASSUME IInv, NEW c \in Consumers, CopyEntry(c), history[cursor[c].historyPosition].hasSample
  PROVE  Channel!Hand(c)
<1>0. /\ call \in [Consumers -> CallType] /\ cursor \in [Consumers -> Cursor] /\ UNCHANGED hubVars
      /\ call[c] \in CallType /\ cursor[c] \in Cursor /\ sampleCount \in Nat
      /\ Len(marks) = sampleCount
  BY DEF IInv, TypeOK, CopyEntry
<1>1. PICK p \in Nat : p = cursor[c].historyPosition
  BY <1>0 DEF Cursor
<1>2. PICK front \in HoleType : front = IF call[c].out = <<>> THEN cursor[c].hole ELSE call[c].hole
  BY <1>0 DEF Cursor, CallType
<1>3. /\ cursor' = [cursor EXCEPT ![c] = [cursor[c] EXCEPT !.historyPosition = p + 1,
                                    !.samplePosition = history[p].samples + 1, !.hole = NoHole]]
      /\ call' = [call EXCEPT ![c] = [call[c] EXCEPT !.copied = call[c].copied + 1,
                                    !.out = Append(call[c].out, history[p].sample), !.hole = front]]
  BY <1>1, <1>2 DEF CopyEntry
<1>4. \A b \in Consumers \ {c} : cursor'[b] = cursor[b] /\ call'[b] = call[b]
  BY <1>0, <1>3
<1>5. /\ cursor'[c].hole = NoHole /\ cursor'[c].samplePosition = history[p].samples + 1
      /\ cursor'[c].sourceDropPosition = cursor[c].sourceDropPosition
      /\ call'[c].out = Append(call[c].out, history[p].sample) /\ call'[c].hole = front
  BY <1>0, <1>3 DEF Cursor, CallType
<1>6. Through(history[p]) = history[p].samples + 1
  BY <1>1, Zenon DEF Through
<1>7. /\ SamplesBefore(p + 1) = history[p].samples + 1 /\ cursor[c].samplePosition = history[p].samples
      /\ SamplesBefore(p) = history[p].samples /\ history[p].samples \in Nat
      /\ cursor[c].sourceDropPosition = history[p].drops /\ p \in Retained
  BY <1>1, <1>6, CopyFacts DEF Entry
<1>8. /\ At(c) = p /\ At(c)' = p + 1 /\ \A q : SamplesBefore(q)' = SamplesBefore(q)
      /\ call'[c].pc = "copy" /\ call[c].pc = "copy" /\ call'[c].snapshotHead = call[c].snapshotHead
      /\ call'[c].dropped = call[c].dropped
      /\ Due(c) = SamplesBefore(call[c].snapshotHead) - SamplesBefore(p)
      /\ Due(c)' = SamplesBefore(call[c].snapshotHead) - SamplesBefore(p + 1)
      /\ SamplesBefore(p + 1) <= SamplesBefore(call[c].snapshotHead)
      /\ SamplesBefore(call[c].snapshotHead) \in Nat /\ SamplesBefore(p + 1) <= sampleCount
  BY <1>1, CopyPlace
<1>9. PICK s \in Nat : s = history[p].samples /\ s + 1 <= sampleCount
  BY <1>7, <1>8
<1>10. history[p].sample = s + 1 /\ marks[s + 1] = history[p].drops
  BY <1>1, <1>7, <1>9 DEF IInv, HistoryOK, EntryOK
<1>11. Unread[c] = s + 1 /\ Unread'[c] = s + 2
  <2>1. Unread[c] = SamplesBefore(p) + 1
    BY <1>8 DEF Unread
  <2>2. Unread'[c] = SamplesBefore(p + 1)' + 1
    BY <1>8 DEF Unread
  <2> QED
    BY <1>7, <1>8, <1>9, <2>1, <2>2
<1>12. Due(c) \in Nat /\ Due(c) > 0 /\ Due(c)' = Due(c) - 1
  BY <1>7, <1>8, <1>9
<1>13. Told[c] = Channel!Clear(c)
  <2>1. Told[c] = [samples |-> s, losses |-> marks[s + 1]]
    BY <1>7, <1>9, <1>10 DEF Told
  <2>2. Channel!Clear(c) = [samples |-> (s + 1) - 1, losses |-> marks[s + 1]]
    BY <1>0, <1>9, <1>11 DEF Channel!Clear, Channel!Published
  <2> QED
    BY <1>9, <2>1, <2>2
<1>14. Told' = [Told EXCEPT ![c].samples = Told[c].samples + 1]
  <2>1. Told'[c] = [samples |-> s + 1, losses |-> cursor[c].sourceDropPosition]
    BY <1>5, <1>9 DEF Told
  <2>2. Told[c] = [samples |-> s, losses |-> cursor[c].sourceDropPosition]
    BY <1>7, <1>9 DEF Told
  <2>3. Told'[c] = [Told[c] EXCEPT !.samples = Told[c].samples + 1]
    BY <2>1, <2>2
  <2> QED
    BY <1>0, <1>4, <2>3, OnlyOne
<1>15. Calls[c].got = call[c].out /\ Calls[c].due = Due(c) /\ Calls[c].open /\ Holes[c] = cursor[c].hole
       /\ Calls[c].front = call[c].hole
  <2>1. Calls[c].open
    BY <1>8, View
  <2> QED
    BY <2>1, View
<1>16. Calls'[c] = [Calls[c] EXCEPT !.got = Append(Calls[c].got, Unread[c]), !.due = Calls[c].due - 1,
                      !.front = IF Calls[c].got = <<>> THEN Holes[c] ELSE Calls[c].front]
  <2>1. IsOpen(c)' = IsOpen(c) /\ HasNews(c)' = HasNews(c)
    BY <1>0, <1>8 DEF IsOpen, HasNews, hubVars
  <2>2. Calls'[c] = [open |-> IsOpen(c), got |-> call'[c].out, dropped |-> call[c].dropped,
                     front |-> front, due |-> Due(c)', news |-> HasNews(c)]
    BY <1>5, <1>8, <2>1, CallView, Zenon
  <2>3. Calls[c] = [open |-> IsOpen(c), got |-> call[c].out, dropped |-> call[c].dropped,
                    front |-> call[c].hole, due |-> Due(c), news |-> HasNews(c)]
    BY CallView
  <2>4. call'[c].out = Append(Calls[c].got, Unread[c]) /\ Due(c)' = Calls[c].due - 1
        /\ front = IF Calls[c].got = <<>> THEN Holes[c] ELSE Calls[c].front
    BY <1>2, <1>5, <1>9, <1>10, <1>11, <1>12, <1>15
  <2>5. [Calls[c] EXCEPT !.got = call'[c].out, !.due = Due(c)', !.front = front]
        = [open |-> IsOpen(c), got |-> call'[c].out, dropped |-> call[c].dropped,
           front |-> front, due |-> Due(c)', news |-> HasNews(c)]
    <3>1. PICK q1 : q1 = [Calls[c] EXCEPT !.got = call'[c].out]
      OBVIOUS
    <3>2. q1 = [open |-> IsOpen(c), got |-> call'[c].out, dropped |-> call[c].dropped,
           front |-> call[c].hole, due |-> Due(c), news |-> HasNews(c)]
      BY <2>3, <3>1
    <3>3. PICK q2 : q2 = [q1 EXCEPT !.due = Due(c)']
      OBVIOUS
    <3>4. q2 = [open |-> IsOpen(c), got |-> call'[c].out, dropped |-> call[c].dropped,
           front |-> call[c].hole, due |-> Due(c)', news |-> HasNews(c)]
      BY <3>2, <3>3
    <3>5. PICK q3 : q3 = [q2 EXCEPT !.front = front]
      OBVIOUS
    <3>6. q3 = [open |-> IsOpen(c), got |-> call'[c].out, dropped |-> call[c].dropped,
           front |-> front, due |-> Due(c)', news |-> HasNews(c)]
      BY <3>4, <3>5
    <3> QED
      BY <3>1, <3>3, <3>5, <3>6
  <2> QED
    BY <2>2, <2>4, <2>5, Zenon
<1>17. /\ Unread' = [Unread EXCEPT ![c] = Unread[c] + 1] /\ Holes' = [Holes EXCEPT ![c] = NoHole]
       /\ Calls' = [Calls EXCEPT ![c] = Calls'[c]]
  <2>1. Unread'[c] = Unread[c] + 1 /\ Holes'[c] = NoHole
    BY <1>5, <1>9, <1>11 DEF Holes
  <2> QED
    BY <1>0, <1>4, <2>1, OnlyOne
<1>18. Unread[c] <= Channel!Published
  BY <1>0, <1>9, <1>11 DEF Channel!Published
<1> QED
  BY <1>0, <1>12, <1>13, <1>14, <1>15, <1>16, <1>17, <1>18
  DEF Channel!Hand, Channel!streamVars, Channel!NoHole, NoHole, hubVars

\* A call that ends is due nothing and has no news.
LEMMA Ending ==
  ASSUME IInv, NEW c \in Consumers, UNCHANGED <<hubVars, cursor>>, NEW front,
         call' = [call EXCEPT ![c] = [call[c] EXCEPT !.pc = "idle", !.hole = front]],
         front = IF call[c].out = <<>> THEN cursor[c].hole ELSE call[c].hole,
         call[c].pc # "idle",
         \/ call[c].out = <<>> /\ Due(c) = 0 /\ (head # call[c].snapshotHead \/ Told[c] = Channel!Clear(c))
         \/ call[c].out # <<>> /\ (Due(c) = 0 \/ Told[c] # Channel!Clear(c))
  PROVE  Channel!Return(c)
<1>0. call \in [Consumers -> CallType] /\ call[c] \in CallType
  BY DEF IInv, TypeOK
<1>1. \A b \in Consumers \ {c} : cursor'[b] = cursor[b] /\ call'[b] = call[b]
  BY <1>0
<1>2. /\ call'[c].pc = "idle" /\ call'[c].out = call[c].out /\ call'[c].dropped = call[c].dropped
      /\ call'[c].hole = front
  BY <1>0 DEF CallType
<1>3. Due(c)' = 0 /\ ~IsOpen(c)' /\ ~HasNews(c)'
  BY <1>2 DEF Due, IsOpen, HasNews
<1>4. At(c)' = At(c)
  BY DEF At, Overflow, Oldest, OldestAt, hubVars
<1>5. Unread'[c] = Unread[c] /\ Told'[c] = Told[c] /\ Holes'[c] = Holes[c]
  BY <1>4 DEF Unread, Told, Holes, SamplesBefore, hubVars
<1>6. Unread' = Unread /\ Told' = Told /\ Holes' = Holes
  BY <1>1, <1>5, OnlyOne, Functions
<1>7. /\ Calls[c].got = call[c].out /\ Calls[c].due = Due(c) /\ Holes[c] = cursor[c].hole
      /\ Calls[c].front = call[c].hole
  BY View
<1>8. Calls[c].open /\ (Calls[c].news <=> head # call[c].snapshotHead)
  BY View
<1>9. Calls'[c] = [Calls[c] EXCEPT !.open = FALSE, !.due = 0, !.news = FALSE,
                     !.front = IF Calls[c].got = <<>> THEN Holes[c] ELSE Calls[c].front]
  <2>0. IsOpen(c)' = FALSE /\ HasNews(c)' = FALSE
    BY <1>3, Zenon DEF IsOpen, HasNews
  <2>1. Calls'[c] = [open |-> FALSE, got |-> call[c].out, dropped |-> call[c].dropped,
                     front |-> front, due |-> 0, news |-> FALSE]
    BY <1>2, <1>3, <2>0, CallView, Zenon
  <2>2. Calls[c] = [open |-> IsOpen(c), got |-> call[c].out, dropped |-> call[c].dropped,
                    front |-> call[c].hole, due |-> Due(c), news |-> HasNews(c)]
    BY CallView
  <2>3. front = IF Calls[c].got = <<>> THEN Holes[c] ELSE Calls[c].front
    BY <1>7
  <2>5. PICK no : no = FALSE
    OBVIOUS
  <2>4. [Calls[c] EXCEPT !.open = no, !.due = 0, !.news = no, !.front = front]
        = [open |-> no, got |-> call[c].out, dropped |-> call[c].dropped,
           front |-> front, due |-> 0, news |-> no]
    <3>1. PICK q1 : q1 = [Calls[c] EXCEPT !.open = no]
      OBVIOUS
    <3>2. q1 = [open |-> no, got |-> call[c].out, dropped |-> call[c].dropped,
           front |-> call[c].hole, due |-> Due(c), news |-> HasNews(c)]
      BY <2>2, <3>1
    <3>3. PICK q2 : q2 = [q1 EXCEPT !.due = 0]
      OBVIOUS
    <3>4. q2 = [open |-> no, got |-> call[c].out, dropped |-> call[c].dropped,
           front |-> call[c].hole, due |-> 0, news |-> HasNews(c)]
      BY <3>2, <3>3
    <3>5. PICK q3 : q3 = [q2 EXCEPT !.news = no]
      OBVIOUS
    <3>6. q3 = [open |-> no, got |-> call[c].out, dropped |-> call[c].dropped,
           front |-> call[c].hole, due |-> 0, news |-> no]
      BY <3>4, <3>5
    <3>7. PICK q4 : q4 = [q3 EXCEPT !.front = front]
      OBVIOUS
    <3>8. q4 = [open |-> no, got |-> call[c].out, dropped |-> call[c].dropped,
           front |-> front, due |-> 0, news |-> no]
      BY <3>6, <3>7
    <3> QED
      BY <3>1, <3>3, <3>5, <3>7, <3>8
  <2> QED
    BY <2>1, <2>3, <2>4, <2>5, Zenon
<1>10. Calls' = [Calls EXCEPT ![c] = Calls'[c]]
  BY <1>1, OnlyOne
<1>11. IF Calls[c].got = <<>> THEN Calls[c].due = 0 /\ (Calls[c].news \/ Told[c] = Channel!Clear(c))
                              ELSE Calls[c].due = 0 \/ Told[c] # Channel!Clear(c)
  BY <1>7, <1>8
<1> QED
  BY <1>6, <1>8, <1>9, <1>10, <1>11 DEF Channel!Return, Channel!streamVars, hubVars

LEMMA CutShortStep ==
  ASSUME IInv, NEW c \in Consumers, CutShort(c)
  PROVE  Channel!Return(c)
<1>0. /\ call[c] \in CallType /\ cursor[c] \in Cursor /\ call[c].pc = "copy" /\ call[c].out # <<>>
      /\ Overflow(c) \/ SourceGap(c)
      /\ UNCHANGED <<hubVars, cursor>> /\ call[c].snapshotHead <= head /\ head \in Nat
  BY Known DEF CutShort
<1>1. call' = [call EXCEPT ![c] = [call[c] EXCEPT !.pc = "idle", !.hole = call[c].hole]]
  BY <1>0 DEF CutShort, CallType
<1>2. /\ DropsBefore(At(c)) <= Channel!Clear(c).losses /\ DropsBefore(At(c)) \in Nat
      /\ Channel!Clear(c).losses \in Nat /\ Channel!Clear(c).samples = SamplesBefore(At(c))
      /\ SamplesBefore(At(c)) \in Nat
      /\ cursor[c].samplePosition \in Nat /\ cursor[c].sourceDropPosition \in Nat
      /\ Told[c].samples = cursor[c].samplePosition /\ Told[c].losses = cursor[c].sourceDropPosition
  BY <1>0, ClearAhead, Places DEF Cursor, Told
<1>3. CASE Overflow(c)
  <2>1. At(c) = Oldest /\ Guarded(cursor[c])
    BY <1>0, <1>3, Known DEF At, CallOK
  <2>2. \/ cursor[c].samplePosition < SamplesBefore(At(c))
        \/ cursor[c].sourceDropPosition < DropsBefore(At(c))
    BY <1>3, <2>1 DEF Guarded, Overflow
  <2>3. Told[c] # Channel!Clear(c)
    BY <1>2, <2>2
  <2> QED
    BY <1>0, <1>1, <2>3, Ending
<1>4. CASE SourceGap(c)
  <2>1. PICK p \in Nat : p = cursor[c].historyPosition
    BY <1>0 DEF Cursor
  <2>2. ~Overflow(c) /\ p < head /\ cursor[c].sourceDropPosition < history[p].drops
    <3>1. call[c].snapshotHead \in Nat
      BY <1>0 DEF CallType
    <3> QED
      BY <1>0, <1>2, <1>4, <2>1, <3>1, EntryAt DEF SourceGap, Entry
  <2>3. At(c) = p /\ DropsBefore(p) = history[p].drops
    BY <2>1, <2>2, Places, EntryAt
  <2>4. Told[c] # Channel!Clear(c)
    BY <1>2, <2>2, <2>3
  <2> QED
    BY <1>0, <1>1, <2>4, Ending
<1> QED
  BY <1>0, <1>3, <1>4

LEMMA CompleteStep ==
  ASSUME IInv, NEW c \in Consumers, Complete(c)
  PROVE  Channel!Return(c)
<1>0. /\ call[c] \in CallType /\ cursor[c] \in Cursor /\ call[c].pc = "copy" /\ ~Overflow(c)
      /\ UNCHANGED <<hubVars, cursor>> /\ call[c].snapshotHead <= head /\ head \in Nat
      /\ CursorOK(cursor[c]) /\ sampleCount \in Nat /\ sourceDropCount \in Nat
      /\ Oldest \in Nat
  BY Known DEF Complete, Copying
<1>1. PICK p \in Nat : p = cursor[c].historyPosition
  BY <1>0 DEF Cursor
<1>2. PICK h \in Nat : h = call[c].snapshotHead
  BY <1>0 DEF CallType
<1>3. p >= h /\ At(c) = p
  BY <1>0, <1>1, <1>2, Places DEF Complete, Copied
<1>4. Due(c) = 0
  BY <1>2, <1>3 DEF Due
<1>5. PICK front : front = IF call[c].out = <<>> THEN cursor[c].hole ELSE call[c].hole
  OBVIOUS
<1>6. call' = [call EXCEPT ![c] = [call[c] EXCEPT !.pc = "idle", !.hole = front]]
  BY <1>5 DEF Complete
<1>7. head = h => Told[c] = Channel!Clear(c)
  <2> SUFFICES ASSUME head = h PROVE Told[c] = Channel!Clear(c)
    OBVIOUS
  <2>1. p = head /\ p >= Oldest
    BY <1>0, <1>1, <1>2, <1>3 DEF CursorOK, Overflow
  <2>2. SamplesBefore(p) = sampleCount
    BY <1>0, <2>1 DEF SamplesBefore
  <2>3. Told[c] = [samples |-> sampleCount, losses |-> sourceDropCount]
    BY <1>0, <1>1, <2>1, <2>2 DEF CursorOK, Told
  <2>4. Unread[c] = sampleCount + 1 /\ Len(marks) = sampleCount
    BY <1>3, <2>2, Places DEF Unread
  <2>5. Channel!Clear(c) = [samples |-> sampleCount, losses |-> sourceDropCount]
    BY <1>0, <2>4 DEF Channel!Clear, Channel!Published
  <2> QED
    BY <2>3, <2>5
<1>8. \/ call[c].out = <<>> /\ Due(c) = 0 /\ (head # call[c].snapshotHead \/ Told[c] = Channel!Clear(c))
      \/ call[c].out # <<>> /\ (Due(c) = 0 \/ Told[c] # Channel!Clear(c))
  BY <1>2, <1>4, <1>7
<1>9. call[c].pc # "idle"
  BY <1>0
<1> QED
  BY <1>0, <1>5, <1>6, <1>8, <1>9, Ending

\* What an append does to the view of a consumer: at most the oldest of what it
\* was not handed goes, and what a call was due of it.
LEMMA AppendView ==
  ASSUME IInv, NEW e, Appended(e), UNCHANGED <<cursor, call>>, NEW c \in Consumers
  PROVE  /\ Unread'[c] = Unread[c] \/ (Unread'[c] = Unread[c] + 1 /\ Unread[c] <= Len(marks))
         /\ Due(c)' = IF Unread'[c] # Unread[c] /\ Due(c) > 0 THEN Due(c) - 1 ELSE Due(c)
         /\ head' # call[c].snapshotHead
<1>0. /\ TypeOK /\ HistoryOK /\ call[c] \in CallType /\ cursor[c] \in Cursor
      /\ call[c].snapshotHead <= head /\ head \in Nat /\ sampleCount \in Nat
      /\ cursor'[c] = cursor[c] /\ call'[c] = call[c]
  BY Known
<1>1. head' = head + 1
  BY <1>0, EntriesKept
<1>2. /\ Oldest \in Nat /\ Oldest' \in Nat /\ Oldest <= Oldest'
      /\ Oldest' <= Oldest + 1 /\ Oldest' <= head
  BY <1>0, <1>1, Window
<1>3. PICK p \in Nat : p = At(c) /\ p <= head /\ Oldest <= p
  BY Places
<1>4. PICK n \in Nat : n = Oldest' /\ n <= p + 1 /\ n <= head
  BY <1>2, <1>3
<1>5. PICK h \in Nat : h = call[c].snapshotHead /\ h <= head
  BY <1>0 DEF CallType
<1>6. PICK q \in Nat : q = At(c)' /\ q = IF p < n THEN n ELSE p
  BY <1>0, <1>2, <1>3, <1>4 DEF At, Overflow, Cursor
<1>7. p <= q /\ q <= p + 1 /\ n <= q /\ q <= head
  BY <1>3, <1>4, <1>6
<1>8. \A r \in Nat : n <= r /\ r <= head => SamplesBefore(r)' = SamplesBefore(r)
  BY <1>0, <1>4, CountersKept
<1>9. /\ SamplesBefore(p) \in Nat /\ SamplesBefore(q) \in Nat /\ SamplesBefore(p) <= SamplesBefore(q)
      /\ SamplesBefore(q) <= sampleCount
      /\ p < q => q = p + 1 /\ SamplesBefore(q) = Through(history[p]) /\ history[p] \in Entry
                  /\ SamplesBefore(p) = history[p].samples
  <2>1. Oldest <= q
    BY <1>2, <1>3, <1>7
  <2>2. /\ SamplesBefore(p) \in Nat /\ SamplesBefore(p) <= SamplesBefore(q)
        /\ SamplesBefore(q) <= sampleCount
        /\ p < q => /\ history[p] \in Entry
                    /\ q = p + 1 => Through(history[p]) = SamplesBefore(q)
    BY <1>0, <1>3, <1>7, Monotone
  <2>3. SamplesBefore(q) \in Nat
    BY <1>0, <1>7, <2>1, Monotone
  <2>4. p < q => q = p + 1 /\ SamplesBefore(p) = history[p].samples
    BY <1>0, <1>7 DEF SamplesBefore
  <2> QED
    BY <2>2, <2>3, <2>4
<1>10. SamplesBefore(q) = SamplesBefore(p) \/ SamplesBefore(q) = SamplesBefore(p) + 1
  <2>1. CASE p < q
    BY <1>9, <2>1 DEF Through
  <2>2. CASE p = q
    BY <2>2
  <2> QED
    BY <1>7, <2>1, <2>2
<1>11. Unread[c] = SamplesBefore(p) + 1 /\ Unread'[c] = SamplesBefore(q) + 1 /\ Len(marks) = sampleCount
  <2>1. Unread[c] = SamplesBefore(p) + 1
    BY <1>3 DEF Unread
  <2>2. Unread'[c] = SamplesBefore(q)' + 1
    BY <1>6 DEF Unread
  <2> QED
    BY <1>7, <1>8, <2>1, <2>2, Places
<1>12. Due(c)' = IF Unread'[c] # Unread[c] /\ Due(c) > 0 THEN Due(c) - 1 ELSE Due(c)
  <2>1. CASE call[c].pc = "idle" \/ p >= h
    <3>1. Due(c) = 0
      BY <1>3, <1>5, <2>1 DEF Due
    <3>2. call'[c].pc = "idle" \/ q >= h
      BY <1>0, <1>7, <2>1
    <3>3. Due(c)' = 0
      BY <1>0, <1>5, <1>6, <3>2 DEF Due
    <3> QED
      BY <3>1, <3>3
  <2>2. CASE call[c].pc # "idle" /\ p < h
    <3>1. Due(c) = SamplesBefore(h) - SamplesBefore(p)
      BY <1>3, <1>5, <2>2 DEF Due
    <3>2. SamplesBefore(h) \in Nat /\ SamplesBefore(q) <= SamplesBefore(h) /\ n <= h /\ q <= h
      <4>1. q <= h /\ n <= h /\ Oldest <= h /\ Oldest <= q
        BY <1>2, <1>3, <1>4, <1>7, <2>2
      <4> QED
        BY <1>0, <1>5, <4>1, Monotone
    <3>3. Due(c)' = SamplesBefore(h) - SamplesBefore(q)
      <4>1. Due(c)' = IF q >= h THEN 0 ELSE SamplesBefore(h)' - SamplesBefore(q)'
        BY <1>0, <1>5, <1>6, <2>2 DEF Due
      <4>2. SamplesBefore(h)' = SamplesBefore(h) /\ SamplesBefore(q)' = SamplesBefore(q)
        BY <1>5, <1>7, <1>8, <3>2
      <4>3. q >= h => q = h
        BY <3>2
      <4> QED
        BY <3>2, <4>1, <4>2, <4>3
    <3> QED
      BY <1>9, <1>10, <1>11, <3>1, <3>2, <3>3
  <2> QED
    BY <2>1, <2>2
<1> QED
  BY <1>0, <1>1, <1>5, <1>9, <1>10, <1>11, <1>12

\* How a call hears of an append.
LEMMA AppendHeard ==
  ASSUME IInv, NEW e, Appended(e), UNCHANGED <<cursor, call>>, NEW c \in Consumers
  PROVE  Calls'[c] = Channel!Heard(Calls[c], Unread'[c] # Unread[c])
<1> DEFINE due == IF Unread'[c] # Unread[c] /\ Due(c) > 0 THEN Due(c) - 1 ELSE Due(c)
<1>1. call'[c] = call[c] /\ Due(c)' = due /\ head' # call[c].snapshotHead
  BY AppendView
<1>2. IsOpen(c)' = IsOpen(c) /\ HasNews(c)' = IsOpen(c)
  BY <1>1 DEF IsOpen, HasNews
<1>3. Calls'[c] = [open |-> IsOpen(c), got |-> call[c].out, dropped |-> call[c].dropped,
                   front |-> call[c].hole, due |-> due, news |-> IsOpen(c)]
  BY <1>1, <1>2, CallView, Zenon
<1>4. Calls[c] = [open |-> IsOpen(c), got |-> call[c].out, dropped |-> call[c].dropped,
                  front |-> call[c].hole, due |-> Due(c), news |-> HasNews(c)]
  BY CallView
<1>5. Calls[c].due = Due(c)
  BY View
<1>6. PICK o : o = IsOpen(c)
  OBVIOUS
<1>7. Calls[c].open = o
  BY <1>6, Zenon DEF Calls, IsOpen
<1>8. PICK u : u = due
  OBVIOUS
<1>9. PICK q1 : q1 = [Calls[c] EXCEPT !.news = o]
  OBVIOUS
<1>10. q1 = [open |-> o, got |-> call[c].out, dropped |-> call[c].dropped,
             front |-> call[c].hole, due |-> Due(c), news |-> o]
  BY <1>4, <1>6, <1>9
<1>11. [q1 EXCEPT !.due = u] = [open |-> o, got |-> call[c].out, dropped |-> call[c].dropped,
                              front |-> call[c].hole, due |-> u, news |-> o]
  BY <1>10
<1>12. Calls'[c] = [q1 EXCEPT !.due = u]
  BY <1>3, <1>6, <1>8, <1>11, Zenon
<1>13. Channel!Heard(Calls[c], Unread'[c] # Unread[c])
       = [Calls[c] EXCEPT !.news = o, !.due = u]
  BY <1>5, <1>7, <1>8 DEF Channel!Heard
<1> QED
  BY <1>9, <1>12, <1>13

LEMMA AppendForget ==
  ASSUME IInv, NEW e, Appended(e), UNCHANGED <<cursor, call>>
  PROVE  Channel!Forget /\ Told' = Told /\ Holes' = Holes
<1> DEFINE gone == {c \in Consumers : Unread'[c] # Unread[c]}
<1>1. ASSUME NEW c \in Consumers
      PROVE  /\ c \in gone => Unread[c] <= Channel!Published /\ Unread'[c] = Unread[c] + 1
             /\ c \notin gone => Unread'[c] = Unread[c]
             /\ Calls'[c] = Channel!Heard(Calls[c], c \in gone)
  <2>1. Unread'[c] = Unread[c] \/ (Unread'[c] = Unread[c] + 1 /\ Unread[c] <= Len(marks))
    BY AppendView
  <2>2. Calls'[c] = Channel!Heard(Calls[c], Unread'[c] # Unread[c])
    BY AppendHeard
  <2>3. (c \in gone) = (Unread'[c] # Unread[c])
    OBVIOUS
  <2> QED
    BY <2>1, <2>2, <2>3 DEF Channel!Published
<1>2. gone \in SUBSET {c \in Consumers : Unread[c] <= Channel!Published}
  BY <1>1
<1>3. Unread' = [c \in Consumers |-> IF c \in gone THEN Unread[c] + 1 ELSE Unread[c]]
  <2>1. Unread' = [c \in Consumers |-> Unread'[c]]
    BY Zenon DEF Unread
  <2> QED
    BY <1>1, <2>1
<1>4. Calls' = [c \in Consumers |-> Channel!Heard(Calls[c], c \in gone)]
  <2>1. Calls' = [c \in Consumers |-> Calls'[c]]
    BY Zenon DEF Calls
  <2> HIDE DEF gone
  <2> QED
    BY <1>1, <2>1, Zenon
<1>5. Told' = Told /\ Holes' = Holes
  BY DEF Told, Holes
<1> HIDE DEF gone
<1> QED
  BY <1>2, <1>3, <1>4, <1>5 DEF Channel!Forget

LEMMA SampleStep ==
  ASSUME IInv, AppendSample
  PROVE  Channel!Publish
<1>1. UNCHANGED <<cursor, call>> /\ marks' = Append(marks, sourceDropCount)
      /\ sourceDropCount' = sourceDropCount
  BY DEF AppendSample
<1>2. TypeOK
  BY DEF IInv
<1>3. Channel!Forget /\ Told' = Told /\ Holes' = Holes
  BY <1>1, <1>2, SampleAppended, AppendForget
<1> QED
  BY <1>1, <1>3 DEF Channel!Publish

LEMMA GapStep ==
  ASSUME IInv, AppendGap
  PROVE  Channel!Lose
<1>1. PICK count \in Nat \ {0} : Gap(count) /\ UNCHANGED <<cursor, call>>
  BY BoundsAssumption DEF AppendGap
<1>2. TypeOK
  BY DEF IInv
<1>3. Channel!Forget /\ Told' = Told /\ Holes' = Holes
  BY <1>1, <1>2, GapAppended, AppendForget
<1>4. marks' = marks /\ sourceDropCount' = sourceDropCount + count /\ sourceDropCount \in Nat
  BY <1>1, <1>2 DEF Gap, TypeOK
<1> QED
  BY <1>3, <1>4 DEF Channel!Lose

LEMMA BoundaryStep ==
  ASSUME IInv, AppendSessionBoundary
  PROVE  Channel!Boundary
<1> DEFINE e == [sample |-> 0, drops |-> sourceDropCount + 1, samples |-> sampleCount,
                 hasSample |-> FALSE]
<1>0. /\ TypeOK /\ HistoryOK /\ head \in Nat /\ sampleCount \in Nat /\ Len(marks) = sampleCount
      /\ cursor \in [Consumers -> Cursor] /\ call \in [Consumers -> CallType]
      /\ call' = call /\ Gap(1)
  BY DEF IInv, TypeOK, AppendSessionBoundary
<1>1. Appended(e)
  BY <1>0, GapAppended
<1>2. marks' = marks /\ sourceDropCount' = sourceDropCount + 1
  BY <1>0 DEF Gap
<1>3. head' = head + 1 /\ history'[head] = e /\ Oldest' \in Nat /\ Oldest' <= head
  BY <1>0, <1>1, EntriesKept, Window
<1>4. ASSUME NEW p \in Nat, p = head PROVE SamplesBefore(p)' = sampleCount
  BY <1>0, <1>3, <1>4 DEF SamplesBefore
<1>5. ASSUME NEW c \in Consumers
      PROVE  /\ Unread'[c] = sampleCount + 1
             /\ Told'[c] = [samples |-> sampleCount, losses |-> sourceDropCount]
             /\ Holes'[c] = [Holes[c] EXCEPT !.boundary = TRUE]
             /\ Calls'[c] = [Calls[c] EXCEPT !.due = 0, !.news = Calls[c].open]
  <2>1. cursor'[c] = [Now EXCEPT !.hole = [cursor[c].hole EXCEPT !.boundary = TRUE]]
    BY DEF AppendSessionBoundary
  <2>2. /\ cursor'[c].historyPosition = head /\ cursor'[c].samplePosition = sampleCount
        /\ cursor'[c].sourceDropPosition = sourceDropCount
        /\ cursor'[c].hole = [cursor[c].hole EXCEPT !.boundary = TRUE]
    BY <2>1 DEF Now
  <2>3. PICK p \in Nat : p = head /\ At(c)' = p
    BY <1>0, <1>3, <2>2 DEF At, Overflow
  <2>4. Unread'[c] = sampleCount + 1
    <3>1. Unread'[c] = SamplesBefore(p)' + 1
      BY <2>3 DEF Unread
    <3> QED
      BY <1>4, <2>3, <3>1
  <2>5. Told'[c] = [samples |-> sampleCount, losses |-> sourceDropCount]
    BY <2>2 DEF Told
  <2>6. Holes'[c] = [Holes[c] EXCEPT !.boundary = TRUE]
    BY <2>2 DEF Holes
  <2>7. call[c].snapshotHead \in Nat /\ call[c].snapshotHead <= head
    BY <1>0, Known DEF CallType
  <2>8. Due(c)' = 0
    <3>1. p >= call'[c].snapshotHead
      BY <1>0, <2>3, <2>7
    <3> QED
      BY <2>3, <3>1 DEF Due
  <2>9. IsOpen(c)' = IsOpen(c) /\ HasNews(c)' = IsOpen(c)
    <3>1. head' # call[c].snapshotHead
      BY <1>0, <1>3, <2>7
    <3> QED
      BY <1>0, <3>1 DEF IsOpen, HasNews
  <2>10. PICK o : o = IsOpen(c)
    OBVIOUS
  <2>11. Calls[c].open = o
    BY <2>10, Zenon DEF Calls, IsOpen
  <2>12. Calls'[c] = [open |-> o, got |-> call[c].out, dropped |-> call[c].dropped,
                      front |-> call[c].hole, due |-> 0, news |-> o]
    <3>1. call'[c] = call[c]
      BY <1>0
    <3> QED
      BY <2>8, <2>9, <2>10, <3>1, CallView, Zenon
  <2>13. Calls[c] = [open |-> o, got |-> call[c].out, dropped |-> call[c].dropped,
                     front |-> call[c].hole, due |-> Due(c), news |-> HasNews(c)]
    BY <2>10, CallView, Zenon
  <2>14. PICK q1 : q1 = [Calls[c] EXCEPT !.due = 0]
    OBVIOUS
  <2>15. q1 = [open |-> o, got |-> call[c].out, dropped |-> call[c].dropped,
               front |-> call[c].hole, due |-> 0, news |-> HasNews(c)]
    BY <2>13, <2>14
  <2>16. [q1 EXCEPT !.news = o] = [open |-> o, got |-> call[c].out, dropped |-> call[c].dropped,
                                  front |-> call[c].hole, due |-> 0, news |-> o]
    BY <2>15
  <2>17. [Calls[c] EXCEPT !.due = 0, !.news = o] = [q1 EXCEPT !.news = o]
    BY <2>14
  <2> QED
    BY <2>4, <2>5, <2>6, <2>11, <2>12, <2>16, <2>17, Zenon
<1>6. /\ Unread' = [c \in Consumers |-> Channel!Published + 1]
      /\ Told' = [c \in Consumers |-> Channel!Here]
      /\ Holes' = [c \in Consumers |-> [Holes[c] EXCEPT !.boundary = TRUE]]
      /\ Calls' = [c \in Consumers |-> [Calls[c] EXCEPT !.due = 0, !.news = Calls[c].open]]
  <2>1. /\ Unread' = [c \in Consumers |-> Unread'[c]] /\ Told' = [c \in Consumers |-> Told'[c]]
        /\ Holes' = [c \in Consumers |-> Holes'[c]] /\ Calls' = [c \in Consumers |-> Calls'[c]]
    BY Zenon DEF Unread, Told, Holes, Calls
  <2>2. Unread' = [c \in Consumers |-> Channel!Published + 1]
    BY <1>0, <1>5, <2>1 DEF Channel!Published
  <2>3. Told' = [c \in Consumers |-> Channel!Here]
    BY <1>0, <1>5, <2>1 DEF Channel!Here, Channel!Published
  <2>4. Holes' = [c \in Consumers |-> [Holes[c] EXCEPT !.boundary = TRUE]]
    BY <1>5, <2>1
  <2>5. Calls' = [c \in Consumers |-> [Calls[c] EXCEPT !.due = 0, !.news = Calls[c].open]]
    BY <1>5, <2>1, Zenon
  <2> QED
    BY <2>2, <2>3, <2>4, <2>5
<1> QED
  BY <1>2, <1>6 DEF Channel!Boundary

\* Nothing is behind, and nothing is called, at first.
LEMMA InitStep == ASSUME Init PROVE Channel!Init
<1>1. ASSUME NEW c \in Consumers
      PROVE  /\ Unread[c] = 1 /\ Told[c] = [samples |-> 0, losses |-> 0] /\ Holes[c] = NoHole
             /\ Calls[c] = [open |-> FALSE, got |-> <<>>, dropped |-> 0,
                            front |-> NoHole, due |-> 0, news |-> FALSE]
  <2>1. /\ cursor[c] = Now /\ call[c].pc = "idle" /\ call[c].out = <<>> /\ call[c].dropped = 0
        /\ call[c].hole = NoHole /\ head = 0 /\ sampleCount = 0 /\ sourceDropCount = 0
    BY DEF Init
  <2>2. Oldest = 0
    BY <2>1, GeometryAssumption DEF Oldest, OldestAt
  <2>3. At(c) = 0
    BY <2>1, <2>2 DEF At, Overflow, Now
  <2>4. SamplesBefore(At(c)) = 0
    BY <2>1, <2>3 DEF SamplesBefore
  <2>5. Unread[c] = 1 /\ Told[c] = [samples |-> 0, losses |-> 0] /\ Holes[c] = NoHole
    BY <2>1, <2>4 DEF Unread, Told, Holes, Now
  <2>6. IsOpen(c) = FALSE /\ HasNews(c) = FALSE /\ Due(c) = 0
    BY <2>1 DEF IsOpen, HasNews, Due
  <2>7. Calls[c] = [open |-> FALSE, got |-> <<>>, dropped |-> 0,
                    front |-> NoHole, due |-> 0, news |-> FALSE]
    BY <2>1, <2>6, CallView, Zenon
  <2> QED
    BY <2>5, <2>7
<1>2. marks = <<>> /\ sourceDropCount = 0 /\ Len(marks) = 0
  BY DEF Init
<1>3. Unread = [c \in Consumers |-> 1]
  BY <1>1, Functions
<1>4. Told = [c \in Consumers |-> Channel!Here]
  BY <1>1, <1>2, Functions DEF Channel!Here, Channel!Published
<1>5. Holes = [c \in Consumers |-> Channel!NoHole]
  BY <1>1, Functions DEF Channel!NoHole, NoHole
<1>6. Calls = [c \in Consumers |-> [open |-> FALSE, got |-> <<>>, dropped |-> 0,
                                    front |-> Channel!NoHole, due |-> 0, news |-> FALSE]]
  <2>1. Channel!NoHole = NoHole
    BY DEF Channel!NoHole, NoHole
  <2> QED
    BY <1>1, <2>1, Functions, Zenon
<1> QED
  BY <1>2, <1>3, <1>4, <1>5, <1>6 DEF Channel!Init

\* Every step is one of the channel's, or not seen by it.
LEMMA StepRefines ==
  ASSUME IInv, [Next]_vars
  PROVE  [Channel!Next]_(Channel!vars)
<1>1. CASE AppendSample \/ AppendGap \/ AppendSessionBoundary
  BY <1>1, SampleStep, GapStep, BoundaryStep DEF Channel!Next
<1>2. ASSUME NEW c \in Consumers, Enter(c) \/ DiscardBacklog(c) \/ Drain(c)
      PROVE  [Channel!Next]_(Channel!vars)
  <2>1. CASE Enter(c)
    BY <2>1, EnterStep DEF Channel!Next
  <2>2. CASE DiscardBacklog(c)
    BY <2>2, DiscardStep DEF Channel!Next
  <2>3. CASE EnterAccount(c) \/ ChunkAccount(c)
    BY <2>3, AccountStep DEF Channel!Next
  <2>4. CASE Reserve(c) \/ Chunk(c) \/ ChunkFull(c)
    BY <2>4, PhaseUnseen
  <2>5. CASE CutShort(c)
    BY <2>5, CutShortStep DEF Channel!Next
  <2>6. CASE CountSourceGap(c)
    BY <2>6, CountSourceGapStep DEF Channel!Next
  <2>7. CASE CopyEntry(c)
    BY <2>7, CopyGapStep, HandStep DEF Channel!Next
  <2>8. CASE Complete(c)
    BY <2>8, CompleteStep DEF Channel!Next
  <2> QED
    BY <1>2, <2>1, <2>2, <2>3, <2>4, <2>5, <2>6, <2>7, <2>8 DEF Drain
<1>3. CASE UNCHANGED vars
  <2>1. UNCHANGED <<hubVars, cursor, call>>
    BY <1>3 DEF vars
  <2> QED
    BY <2>1 DEF Channel!vars, Channel!streamVars, hubVars, Unread, Told, Holes, Calls, Due, At,
      Overflow, SamplesBefore, Oldest, OldestAt
<1> QED
  BY <1>1, <1>2, <1>3 DEF Next

\* Whatever the history overwrites, however the chunks fall between appends and
\* wherever a boundary moves a cursor under a running copy, each consumer sees
\* what PoseChannel promises (PoseStreamHub::DrainAppend and its appends).
THEOREM ChannelRefined == Spec => ChannelKept
<1>1. Init => Channel!Init
  BY InitStep
<1>2. IInv /\ [Next]_vars => [Channel!Next]_(Channel!vars)
  BY StepRefines
<1> QED
  BY <1>1, <1>2, Inductive, PTL DEF Spec, ChannelKept, Channel!Spec

-----------------------------------------------------------------------------
(* Batches.                                                                 *)

\* A batch in the making ends where its cursor is, with every loss up to there told.
BatchOK(c) ==
  LET out == call[c].out IN
  /\ \A i \in 1 .. Len(out) : out[i] \in 1 .. sampleCount
  /\ \A i \in 1 .. Len(out) - 1 : out[i + 1] = out[i] + 1 /\ marks[out[i] + 1] = marks[out[i]]
  /\ (call[c].pc # "idle" /\ out # <<>> /\ cursor[c].historyPosition < call[c].snapshotHead) =>
       cursor[c].samplePosition = out[Len(out)] /\ cursor[c].sourceDropPosition = marks[out[Len(out)]]

BatchInv == IInv /\ \A c \in Consumers : BatchOK(c)

\* A step that adds nothing to the batch and leaves its cursor, or ends it.
LEMMA BatchKept ==
  ASSUME IInv, NEW c \in Consumers, BatchOK(c), call'[c].out = call[c].out,
         sampleCount' \in Nat, sampleCount <= sampleCount', \A i \in 1 .. sampleCount : marks'[i] = marks[i],
         (call'[c].pc # "idle" /\ call[c].out # <<>> /\ cursor'[c].historyPosition < call'[c].snapshotHead) =>
           /\ call[c].pc # "idle" /\ cursor[c].historyPosition < call[c].snapshotHead
           /\ cursor'[c].samplePosition = cursor[c].samplePosition
           /\ cursor'[c].sourceDropPosition = cursor[c].sourceDropPosition
  PROVE  BatchOK(c)'
<1>1. PICK out \in Seq(Nat) : out = call[c].out
  BY Known DEF CallType
<1>2. sampleCount \in Nat /\ call'[c].out = out /\ Len(out) \in Nat
  BY <1>1, Known
<1>3. /\ \A i \in 1 .. Len(out) : out[i] \in 1 .. sampleCount
      /\ \A i \in 1 .. Len(out) - 1 : out[i + 1] = out[i] + 1 /\ marks[out[i] + 1] = marks[out[i]]
  BY <1>1 DEF BatchOK
<1>4. \A i \in 1 .. Len(out) : out[i] \in 1 .. sampleCount'
  BY <1>2, <1>3
<1>5. ASSUME NEW i \in 1 .. Len(out) - 1
      PROVE  out[i + 1] = out[i] + 1 /\ marks'[out[i] + 1] = marks'[out[i]]
  <2>1. i \in 1 .. Len(out) /\ i + 1 \in 1 .. Len(out)
    BY <1>2
  <2>2. out[i] \in 1 .. sampleCount /\ out[i + 1] \in 1 .. sampleCount
    BY <1>3, <2>1
  <2>3. out[i + 1] = out[i] + 1 /\ marks[out[i] + 1] = marks[out[i]]
    BY <1>3
  <2> QED
    BY <2>2, <2>3
<1>6. (call'[c].pc # "idle" /\ out # <<>> /\ cursor'[c].historyPosition < call'[c].snapshotHead) =>
        /\ cursor'[c].samplePosition = out[Len(out)]
        /\ cursor'[c].sourceDropPosition = marks'[out[Len(out)]]
  <2>1. out # <<>> => Len(out) \in 1 .. Len(out)
    BY <1>1, <1>2
  <2>2. (call[c].pc # "idle" /\ out # <<>> /\ cursor[c].historyPosition < call[c].snapshotHead) =>
          cursor[c].samplePosition = out[Len(out)] /\ cursor[c].sourceDropPosition = marks[out[Len(out)]]
    BY <1>1 DEF BatchOK
  <2>3. out # <<>> => marks'[out[Len(out)]] = marks[out[Len(out)]]
    BY <1>3, <2>1
  <2> QED
    BY <1>1, <2>2, <2>3
<1> QED
  BY <1>2, <1>4, <1>5, <1>6 DEF BatchOK

\* An append.
LEMMA BatchAppended ==
  ASSUME IInv, NEW e, Appended(e), call' = call, NEW c \in Consumers, BatchOK(c),
         cursor' = cursor \/ cursor'[c].historyPosition = head
  PROVE  BatchOK(c)'
<1>1. /\ sampleCount' \in Nat /\ sampleCount <= sampleCount'
      /\ \A i \in 1 .. sampleCount : marks'[i] = marks[i]
  BY MarksKept DEF IInv
<1>2. head \in Nat /\ call[c].snapshotHead \in Nat /\ call[c].snapshotHead <= head
  BY Known DEF CallType
<1> QED
  BY <1>1, <1>2, BatchKept

\* A sample handed follows the one before it, with no loss between.
LEMMA BatchHanded ==
  ASSUME IInv, NEW c \in Consumers, BatchOK(c), CopyEntry(c),
         history[cursor[c].historyPosition].hasSample
  PROVE  BatchOK(c)'
<1>0. /\ call \in [Consumers -> CallType] /\ call[c] \in CallType /\ sampleCount \in Nat
      /\ cursor[c] \in Cursor /\ sampleCount' = sampleCount /\ marks' = marks
  BY DEF IInv, TypeOK, CopyEntry, hubVars
<1>1. PICK p \in Nat : p = cursor[c].historyPosition
  BY <1>0 DEF Cursor
<1>2. PICK out \in Seq(Nat) : out = call[c].out
  BY <1>0 DEF CallType
<1>3. /\ cursor[c].samplePosition = history[p].samples /\ cursor[c].sourceDropPosition = history[p].drops
      /\ cursor'[c].sourceDropPosition = history[p].drops
      /\ cursor'[c].samplePosition = SamplesBefore(p + 1) /\ SamplesBefore(p + 1) = Through(history[p])
      /\ p \in Retained /\ history[p] \in Entry /\ p < call[c].snapshotHead
  BY <1>1, CopyFacts
<1>4. Through(history[p]) = history[p].samples + 1
  BY <1>1, Zenon DEF Through
<1>5. PICK n \in Nat : n = history[p].samples + 1 /\ n \in 1 .. sampleCount
  <2>1. history[p].samples \in Nat /\ Through(history[p]) <= sampleCount
    BY <1>3 DEF Entry, IInv, HistoryOK, EntryOK
  <2> QED
    BY <1>0, <1>4, <2>1
<1>6. history[p].sample = n /\ marks[n] = history[p].drops
  BY <1>1, <1>3, <1>5 DEF IInv, HistoryOK, EntryOK
<1>7. call'[c].out = Append(out, n)
  <2>1. PICK front : front = IF call[c].out = <<>> THEN cursor[c].hole ELSE call[c].hole
    OBVIOUS
  <2>2. call' = [call EXCEPT ![c] = [call[c] EXCEPT !.copied = call[c].copied + 1,
                                     !.out = Append(out, n), !.hole = front]]
    BY <1>1, <1>2, <1>6, <2>1 DEF CopyEntry
  <2> QED
    BY <1>0, <2>2 DEF CallType
<1>8. PICK more \in Seq(Nat) : more = Append(out, n)
  <2>1. Append(out, n) \in Seq(Nat)
    OBVIOUS
  <2> QED
    BY <2>1
<1>9. more = Append(out, n) /\ Len(more) = Len(out) + 1 /\ Len(out) \in Nat
  BY <1>8
<1>10. ASSUME NEW i \in 1 .. Len(more) PROVE more[i] \in 1 .. sampleCount
  <2>1. CASE i <= Len(out)
    <3>1. i \in 1 .. Len(out) /\ more[i] = out[i]
      BY <1>9, <2>1
    <3> QED
      BY <1>2, <3>1 DEF BatchOK
  <2>2. CASE i = Len(out) + 1
    BY <1>5, <1>9, <2>2
  <2> QED
    BY <1>9, <2>1, <2>2
<1>11. ASSUME NEW i \in 1 .. Len(more) - 1
       PROVE  more[i + 1] = more[i] + 1 /\ marks[more[i] + 1] = marks[more[i]]
  <2>1. CASE i < Len(out)
    <3>1. i \in 1 .. Len(out) - 1 /\ more[i] = out[i] /\ more[i + 1] = out[i + 1]
      BY <1>9, <2>1
    <3> QED
      BY <1>2, <3>1 DEF BatchOK
  <2>2. CASE i = Len(out)
    <3>1. more[i] = out[Len(out)] /\ more[i + 1] = n /\ out # <<>>
      BY <1>9, <2>2
    <3>2. call[c].pc # "idle"
      BY DEF CopyEntry, Copying
    <3>3. cursor[c].samplePosition = out[Len(out)] /\ cursor[c].sourceDropPosition = marks[out[Len(out)]]
      BY <1>1, <1>2, <1>3, <3>1, <3>2 DEF BatchOK
    <3>4. n = out[Len(out)] + 1 /\ marks[n] = marks[out[Len(out)]]
      BY <1>3, <1>5, <1>6, <3>3
    <3> QED
      BY <3>1, <3>4
  <2> QED
    BY <1>9, <2>1, <2>2
<1>12. more[Len(more)] = n
  BY <1>9
<1>13. cursor'[c].samplePosition = n /\ cursor'[c].sourceDropPosition = marks[n]
  BY <1>3, <1>4, <1>5, <1>6
<1>14. call'[c].out = more
  BY <1>7, <1>9
<1> QED
  BY <1>0, <1>10, <1>11, <1>12, <1>13, <1>14 DEF BatchOK

LEMMA BatchDrain ==
  ASSUME IInv, NEW c \in Consumers, BatchOK(c), Enter(c) \/ DiscardBacklog(c) \/ Drain(c)
  PROVE  BatchOK(c)'
<1>0. /\ call \in [Consumers -> CallType] /\ call[c] \in CallType /\ cursor \in [Consumers -> Cursor]
      /\ cursor[c] \in Cursor /\ sampleCount \in Nat /\ CallOK(c)
  BY Known DEF IInv, TypeOK
<1>1. sampleCount' = sampleCount /\ marks' = marks
  BY DEF Enter, DiscardBacklog, Drain, EnterAccount, Reserve, Chunk, CutShort, ChunkAccount,
    CountSourceGap, CopyEntry, ChunkFull, Complete, hubVars
<1>2. CASE Enter(c)
  <2>1. call'[c].out = <<>>
    BY <1>0, <1>2 DEF Enter
  <2> QED
    BY <2>1 DEF BatchOK
<1>3. CASE DiscardBacklog(c)
  <2>1. call'[c] = call[c] /\ call[c].pc = "idle"
    BY <1>3 DEF DiscardBacklog
  <2> QED
    BY <1>0, <1>1, <2>1, BatchKept
<1>4. CASE EnterAccount(c) \/ ChunkAccount(c) \/ CountSourceGap(c)
  <2>1. call[c].out = <<>>
    BY <1>0, <1>4 DEF EnterAccount, ChunkAccount, CountSourceGap, CallOK
  <2>2. call'[c].out = call[c].out
    BY <1>0, <1>4 DEF EnterAccount, ChunkAccount, CountSourceGap, Account, CallType
  <2> QED
    BY <1>0, <1>1, <2>1, <2>2, BatchKept
<1>5. CASE Reserve(c) \/ Chunk(c) \/ ChunkFull(c)
  <2>1. CASE Reserve(c)
    <3>1. /\ call'[c].out = call[c].out /\ call'[c].snapshotHead = call[c].snapshotHead
          /\ cursor' = cursor /\ call[c].pc # "idle"
      BY <1>0, <2>1 DEF Reserve, CallType
    <3> QED
      BY <1>0, <1>1, <3>1, BatchKept
  <2>2. CASE Chunk(c)
    <3>1. /\ call'[c].out = call[c].out /\ call'[c].snapshotHead = call[c].snapshotHead
          /\ cursor' = cursor /\ call[c].pc # "idle"
      BY <1>0, <2>2 DEF Chunk, CallType
    <3> QED
      BY <1>0, <1>1, <3>1, BatchKept
  <2>3. CASE ChunkFull(c)
    <3>1. /\ call'[c].out = call[c].out /\ call'[c].snapshotHead = call[c].snapshotHead
          /\ cursor' = cursor /\ call[c].pc # "idle"
      BY <1>0, <2>3 DEF ChunkFull, Copying, CallType
    <3> QED
      BY <1>0, <1>1, <3>1, BatchKept
  <2> QED
    BY <1>5, <2>1, <2>2, <2>3
<1>6. CASE CutShort(c) \/ Complete(c)
  <2>1. CASE CutShort(c)
    <3>1. call'[c].out = call[c].out /\ call'[c].pc = "idle"
      BY <1>0, <2>1 DEF CutShort, CallType
    <3> QED
      BY <1>0, <1>1, <3>1, BatchKept
  <2>2. CASE Complete(c)
    <3>1. PICK front : front = IF call[c].out = <<>> THEN cursor[c].hole ELSE call[c].hole
      OBVIOUS
    <3>2. call' = [call EXCEPT ![c] = [call[c] EXCEPT !.pc = "idle", !.hole = front]]
      BY <2>2, <3>1 DEF Complete
    <3>3. call'[c].out = call[c].out /\ call'[c].pc = "idle"
      BY <1>0, <3>2 DEF CallType
    <3> QED
      BY <1>0, <1>1, <3>3, BatchKept
  <2> QED
    BY <1>6, <2>1, <2>2
<1>7. CASE CopyEntry(c)
  <2>1. CASE history[cursor[c].historyPosition].hasSample
    BY <1>7, <2>1, BatchHanded
  <2>2. CASE ~history[cursor[c].historyPosition].hasSample
    <3>1. call[c].out = <<>>
      <4> SUFFICES ASSUME call[c].out # <<>> PROVE FALSE
        OBVIOUS
      <4>1. PICK p \in Nat : p = cursor[c].historyPosition
        BY <1>0 DEF Cursor
      <4>2. Guarded(cursor[c])
        BY <1>0, <1>7 DEF CallOK, CopyEntry, Copying
      <4>3. /\ p < head /\ Oldest <= p /\ history[p] \in Entry
            /\ cursor[c].sourceDropPosition = history[p].drops /\ history[p].drops \in Nat
        BY <1>7, <4>1, CopyFacts DEF Entry
      <4>4. cursor[c].sourceDropPosition < history[p].drops
        <5>1. p >= Oldest
          BY <4>3, Known
        <5> QED
          BY <2>2, <4>1, <4>2, <4>3, <5>1 DEF Guarded
      <4> QED
        BY <4>3, <4>4
    <3>2. call'[c].out = call[c].out
      <4>1. PICK front : front = call[c].hole
        OBVIOUS
      <4>2. call' = [call EXCEPT ![c] = [call[c] EXCEPT !.copied = call[c].copied + 1,
                                         !.out = call[c].out, !.hole = front]]
        BY <1>7, <2>2, <4>1 DEF CopyEntry
      <4> QED
        BY <1>0, <4>2 DEF CallType
    <3> QED
      BY <1>0, <1>1, <3>1, <3>2, BatchKept
  <2> QED
    BY <2>1, <2>2
<1> QED
  BY <1>2, <1>3, <1>4, <1>5, <1>6, <1>7 DEF Drain

\* A step of another consumer.
LEMMA BatchOther ==
  ASSUME IInv, NEW c \in Consumers, Enter(c) \/ DiscardBacklog(c) \/ Drain(c),
         NEW b \in Consumers, b # c, BatchOK(b)
  PROVE  BatchOK(b)'
<1>1. /\ call \in [Consumers -> CallType] /\ cursor \in [Consumers -> Cursor] /\ sampleCount \in Nat
  BY DEF IInv, TypeOK
<1>2. sampleCount' = sampleCount /\ marks' = marks
  BY DEF Enter, DiscardBacklog, Drain, EnterAccount, Reserve, Chunk, CutShort, ChunkAccount,
    CountSourceGap, CopyEntry, ChunkFull, Complete, hubVars
<1>3. cursor'[b] = cursor[b]
  BY <1>1 DEF Enter, DiscardBacklog, Drain, EnterAccount, Reserve, Chunk, CutShort, ChunkAccount,
    CountSourceGap, CopyEntry, ChunkFull, Complete, Account
<1>4. call'[b] = call[b]
  BY <1>1 DEF Enter, DiscardBacklog, Drain, EnterAccount, Reserve, Chunk, CutShort, ChunkAccount,
    CountSourceGap, CopyEntry, ChunkFull, Complete, Account
<1> QED
  BY <1>1, <1>2, <1>3, <1>4, BatchKept

LEMMA BatchNext == BatchInv /\ [Next]_vars => BatchInv'
<1> SUFFICES ASSUME BatchInv, [Next]_vars PROVE BatchInv'
  OBVIOUS
<1>0. IInv /\ TypeOK /\ IInv'
  BY NextInv DEF BatchInv, IInv
<1> SUFFICES ASSUME NEW b \in Consumers PROVE BatchOK(b)'
  BY <1>0 DEF BatchInv
<1>1. BatchOK(b)
  BY DEF BatchInv
<1>2. CASE AppendSample
  <2>1. cursor' = cursor /\ call' = call
    BY <1>2 DEF AppendSample
  <2> QED
    BY <1>0, <1>1, <1>2, <2>1, SampleAppended, BatchAppended
<1>3. CASE AppendGap
  <2>1. PICK count \in Nat \ {0} : Gap(count) /\ cursor' = cursor /\ call' = call
    BY <1>3, BoundsAssumption DEF AppendGap
  <2> QED
    BY <1>0, <1>1, <2>1, GapAppended, BatchAppended
<1>4. CASE AppendSessionBoundary
  <2>1. cursor'[b].historyPosition = head /\ call' = call /\ Gap(1)
    BY <1>4 DEF AppendSessionBoundary, Now
  <2>2. Appended([sample |-> 0, drops |-> sourceDropCount + 1, samples |-> sampleCount,
                  hasSample |-> FALSE])
    BY <1>0, <2>1, GapAppended
  <2> QED
    BY <1>0, <1>1, <2>1, <2>2, BatchAppended
<1>5. ASSUME NEW c \in Consumers, Enter(c) \/ DiscardBacklog(c) \/ Drain(c) PROVE BatchOK(b)'
  BY <1>0, <1>1, <1>5, BatchDrain, BatchOther
<1>6. CASE UNCHANGED vars
  BY <1>1, <1>6 DEF vars, hubVars, BatchOK
<1> QED
  BY <1>2, <1>3, <1>4, <1>5, <1>6 DEF Next

\* A batch never bridges a loss: its samples are consecutive, with nothing marked
\* lost between them (PoseStreamHub::DrainAppend's overflowPending and sourcePending).
THEOREM BatchesUnbroken == Spec => []BatchUnbroken
<1>1. Init => BatchInv
  <2> SUFFICES ASSUME Init PROVE BatchInv
    OBVIOUS
  <2>1. \A c \in Consumers : call[c].out = <<>>
    BY DEF Init
  <2> QED
    BY <2>1, InitInv DEF BatchInv, BatchOK
<1>2. BatchInv => BatchUnbroken
  BY DEF BatchInv, BatchOK, BatchUnbroken
<1> QED
  BY <1>1, <1>2, BatchNext, PTL DEF Spec

=============================================================================
