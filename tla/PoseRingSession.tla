--------------------------- MODULE PoseRingSession ---------------------------
(***************************************************************************)
(* Who owns the pose ring mapping: vrserver processes (Writers) create,    *)
(* reset and retire it (PoseRingWriter::Create, Close), the overlay's      *)
(* drain thread opens and drains it (PoseRingReader::Open, Drain;          *)
(* PoseStreamHub::DrainRing).  Any process may die at any step.            *)
(*                                                                         *)
(* The named mapping exists while a process holds it, so at most one       *)
(* mapping is alive at a time and `holders' says by whom; a fresh one is   *)
(* zeroed.  A process identity is a process id, here the writer's name,    *)
(* and a creation time, here its incarnation: ids are reused.  The named   *)
(* mutex of a dead owner is abandoned, which lets the next writer in.      *)
(* The retry periods and wait budgets are the nondeterminism of when a     *)
(* step is taken; an attempt to take a mutex that times out changes        *)
(* nothing and is not an action.  The queue itself is the subject of       *)
(* PoseRing.                                                               *)
(***************************************************************************)
EXTENDS Integers

CONSTANTS
  Writers,            \* process ids of vrserver
  Overlay,            \* the overlay process
  NoOne,
  MaxWriterStarts,    \* bound: vrserver processes started
  MaxOverlayStarts    \* bound: overlay processes started

ASSUME ProcessAssumption == Overlay \notin Writers /\ NoOne \notin Writers \cup {Overlay}
ASSUME StartsAssumption == MaxWriterStarts \in Nat /\ MaxOverlayStarts \in Nat

VARIABLES
  \* The mapping.
  holders,        \* processes with a handle or view of it
  mapGen,         \* history: which mapping this is
  initialized, resetting, activeReaders, epoch,
  active, pid, ctime,      \* writerActive, writerProcessId, writerProcessCreationTime
  \* The writer reset mutex.
  mutex,
  \* Each vrserver: where it is, its creation time, ownedSessionEpoch.
  wpc, born, owned,
  \* The overlay: where it is, within which call, the identity it loaded.
  rpc, within, rpid, rtime,
  \* DrainRing's locals, and what the hub's stream ends with.
  epochBefore, lastEpoch, batch, hubTail,
  writerStarts, overlayStarts

mapVars == <<holders, mapGen, initialized, resetting, activeReaders, epoch, active, pid, ctime>>
writerVars == <<mutex, wpc, born, owned, writerStarts>>
readerVars == <<rpc, within, rpid, rtime, epochBefore, lastEpoch, batch, hubTail, overlayStarts>>
sessionVars == <<mapVars, writerVars, readerVars>>

NoBatch == <<0, 0>>
Session == <<mapGen, epoch>>

SessionInit ==
  /\ holders = {} /\ mapGen = 0
  /\ initialized = 0 /\ resetting = 0 /\ activeReaders = 0 /\ epoch = 0
  /\ active = 0 /\ pid = NoOne /\ ctime = 0
  /\ mutex = NoOne
  /\ wpc = [w \in Writers |-> "down"]
  /\ born = [w \in Writers |-> 0]
  /\ owned = [w \in Writers |-> 0]
  /\ rpc = "down" /\ within = "open" /\ rpid = NoOne /\ rtime = 0
  /\ epochBefore = 0 /\ lastEpoch = 0 /\ batch = NoBatch /\ hubTail = NoBatch
  /\ writerStarts = 0 /\ overlayStarts = 0

IsAlive(w) == wpc[w] # "down"

-----------------------------------------------------------------------------
(* A vrserver process.                                                     *)

WGoto(w, from, to) ==
  /\ wpc[w] = from
  /\ wpc' = [wpc EXCEPT ![w] = to]

StartWriter(w) ==
  /\ writerStarts < MaxWriterStarts
  /\ WGoto(w, "down", "idle")
  /\ born' = [born EXCEPT ![w] = writerStarts + 1]
  /\ writerStarts' = writerStarts + 1
  /\ UNCHANGED <<mapVars, mutex, owned, readerVars>>

\* Create, at Init and from RunFrame's retries: AcquireWriterResetMutex.
AcquireResetMutex(w) ==
  /\ mutex = NoOne
  /\ WGoto(w, "idle", "map")
  /\ mutex' = w
  /\ UNCHANGED <<mapVars, born, owned, writerStarts, readerVars>>

\* CreateFileMapping made a mapping: constructed behind its own gate.
MapFresh(w) ==
  /\ holders = {}
  /\ WGoto(w, "map", "construct")
  /\ holders' = {w}
  /\ mapGen' = mapGen + 1
  /\ initialized' = 0 /\ resetting' = 1 /\ activeReaders' = 0 /\ epoch' = 1
  /\ active' = 0 /\ pid' = NoOne /\ ctime' = 0
  /\ UNCHANGED <<mutex, born, owned, writerStarts, readerVars>>

FinishConstruct(w) ==
  /\ WGoto(w, "construct", "publishPid")
  /\ initialized' = 1
  /\ UNCHANGED <<holders, mapGen, resetting, activeReaders, epoch, active, pid, ctime,
                 mutex, born, owned, writerStarts, readerVars>>

\* CreateFileMapping found the mapping another process keeps alive.
MapExisting(w) ==
  /\ holders # {}
  /\ WGoto(w, "map", "inspect")
  /\ holders' = holders \cup {w}
  /\ UNCHANGED <<mapGen, initialized, resetting, activeReaders, epoch, active, pid, ctime,
                 mutex, born, owned, writerStarts, readerVars>>

IdentityPublished == active = 1 /\ pid # NoOne /\ ctime # 0

ExistingWriterAlive == IdentityPublished /\ IsAlive(pid) /\ born[pid] = ctime

\* The id is another process's now, but it cannot be opened or its creation
\* time not be queried: taken for alive.
ExistingWriterUnknown == IdentityPublished /\ IsAlive(pid) /\ born[pid] # ctime

\* ERROR_REVISION_MISMATCH or ERROR_ALREADY_EXISTS: close and release.
RefuseExisting(w) ==
  /\ initialized = 0 \/ ExistingWriterAlive \/ ExistingWriterUnknown
  /\ WGoto(w, "inspect", "idle")
  /\ holders' = holders \ {w}
  /\ mutex' = NoOne
  /\ UNCHANGED <<mapGen, initialized, resetting, activeReaders, epoch, active, pid, ctime,
                 born, owned, writerStarts, readerVars>>

\* ResetForNewWriterSession: the gate, then the old identity.
CloseGate(w) ==
  /\ initialized = 1 /\ ~ExistingWriterAlive
  /\ WGoto(w, "inspect", "clear")
  /\ resetting' = 1
  /\ UNCHANGED <<holders, mapGen, initialized, activeReaders, epoch, active, pid, ctime,
                 mutex, born, owned, writerStarts, readerVars>>

ClearActive(w) ==
  /\ WGoto(w, "clear", "clearId")
  /\ active' = 0
  /\ UNCHANGED <<holders, mapGen, initialized, resetting, activeReaders, epoch, pid, ctime,
                 mutex, born, owned, writerStarts, readerVars>>

ClearIdentity(w) ==
  /\ WGoto(w, "clearId", "drainWait")
  /\ pid' = NoOne /\ ctime' = 0
  /\ UNCHANGED <<holders, mapGen, initialized, resetting, activeReaders, epoch, active,
                 mutex, born, owned, writerStarts, readerVars>>

ReadersGoneUnchecked(w) ==
  /\ WGoto(w, "drainWait", "reset")
  /\ UNCHANGED <<mapVars, mutex, born, owned, writerStarts, readerVars>>

ReadersGone(w) ==
  /\ activeReaders = 0
  /\ WGoto(w, "drainWait", "reset")
  /\ UNCHANGED <<mapVars, mutex, born, owned, writerStarts, readerVars>>

ReadersBusyKeepMapping(w) ==
  /\ activeReaders # 0
  /\ WGoto(w, "drainWait", "idle")
  /\ resetting' = 0
  /\ mutex' = NoOne
  /\ UNCHANGED <<holders, mapGen, initialized, activeReaders, epoch, active, pid, ctime,
                 born, owned, writerStarts, readerVars>>

\* ERROR_BUSY: the readers did not drain within the budget.
ReadersBusy(w) ==
  /\ activeReaders # 0
  /\ WGoto(w, "drainWait", "idle")
  /\ resetting' = 0
  /\ holders' = holders \ {w}
  /\ mutex' = NoOne
  /\ UNCHANGED <<mapGen, initialized, activeReaders, epoch, active, pid, ctime,
                 born, owned, writerStarts, readerVars>>

\* The queue's words are rewritten between ReadersGone and this.
NextEpoch(w) ==
  /\ WGoto(w, "reset", "publishPid")
  /\ epoch' = epoch + 1
  /\ UNCHANGED <<holders, mapGen, initialized, resetting, activeReaders, active, pid, ctime,
                 mutex, born, owned, writerStarts, readerVars>>

PublishPid(w) ==
  /\ WGoto(w, "publishPid", "publishTime")
  /\ owned' = [owned EXCEPT ![w] = epoch]
  /\ pid' = w
  /\ UNCHANGED <<holders, mapGen, initialized, resetting, activeReaders, epoch, active, ctime,
                 mutex, born, writerStarts, readerVars>>

PublishTime(w) ==
  /\ WGoto(w, "publishTime", "publishActive")
  /\ ctime' = born[w]
  /\ UNCHANGED <<holders, mapGen, initialized, resetting, activeReaders, epoch, active, pid,
                 mutex, born, owned, writerStarts, readerVars>>

PublishActive(w) ==
  /\ WGoto(w, "publishActive", "openGate")
  /\ active' = 1
  /\ UNCHANGED <<holders, mapGen, initialized, resetting, activeReaders, epoch, pid, ctime,
                 mutex, born, owned, writerStarts, readerVars>>

\* Create returns: the gate opens, then its guard releases the mutex.
OpenGate(w) ==
  /\ WGoto(w, "openGate", "release")
  /\ resetting' = 0
  /\ UNCHANGED <<holders, mapGen, initialized, activeReaders, epoch, active, pid, ctime,
                 mutex, born, owned, writerStarts, readerVars>>

ReleaseResetMutex(w) ==
  /\ WGoto(w, "release", "owned")
  /\ mutex' = NoOne
  /\ UNCHANGED <<mapVars, born, owned, writerStarts, readerVars>>

CreateStep(w) ==
  \/ AcquireResetMutex(w) \/ MapFresh(w) \/ FinishConstruct(w) \/ MapExisting(w)
  \/ RefuseExisting(w) \/ CloseGate(w) \/ ClearActive(w) \/ ClearIdentity(w)
  \/ ReadersGone(w) \/ ReadersBusy(w) \/ NextEpoch(w)
  \/ PublishPid(w) \/ PublishTime(w) \/ PublishActive(w) \/ OpenGate(w) \/ ReleaseResetMutex(w)

-----------------------------------------------------------------------------
(* Close, from Teardown: the pose threads have left the ring.              *)

BeginRetireUnlocked(w) ==
  /\ WGoto(w, "owned", "retire")
  /\ UNCHANGED <<mapVars, mutex, born, owned, writerStarts, readerVars>>

\* RetireWriterIdentity gets the mutex ...
BeginRetire(w) ==
  /\ mutex = NoOne
  /\ WGoto(w, "owned", "retire")
  /\ mutex' = w
  /\ UNCHANGED <<mapVars, born, owned, writerStarts, readerVars>>

\* ... or leaves the identity alone: the wait ran out, or Create could not
\* open the handle it keeps for this.
SkipRetire(w) ==
  /\ WGoto(w, "owned", "unmap")
  /\ UNCHANGED <<mapVars, mutex, born, owned, writerStarts, readerVars>>

\* The code asks before it retires; OwnerIsNamed is why it never finds
\* somebody else's session here.
RetireActive(w) ==
  /\ epoch = owned[w] /\ pid = w
  /\ WGoto(w, "retire", "retireId")
  /\ active' = 0
  /\ UNCHANGED <<holders, mapGen, initialized, resetting, activeReaders, epoch, pid, ctime,
                 mutex, born, owned, writerStarts, readerVars>>

RetireIdentity(w) ==
  /\ WGoto(w, "retireId", "unmap")
  /\ pid' = NoOne /\ ctime' = 0
  /\ mutex' = IF mutex = w THEN NoOne ELSE mutex
  /\ UNCHANGED <<holders, mapGen, initialized, resetting, activeReaders, epoch, active,
                 born, owned, writerStarts, readerVars>>

\* The process unloads the driver and ends.
Unmap(w) ==
  /\ WGoto(w, "unmap", "down")
  /\ holders' = holders \ {w}
  /\ owned' = [owned EXCEPT ![w] = 0]
  /\ UNCHANGED <<mapGen, initialized, resetting, activeReaders, epoch, active, pid, ctime,
                 mutex, born, writerStarts, readerVars>>

RetireStep(w) ==
  RetireActive(w) \/ RetireIdentity(w) \/ Unmap(w)

\* The process dies: its handles close and the mutex it owned is abandoned.
CrashWriter(w) ==
  /\ wpc[w] # "down"
  /\ wpc' = [wpc EXCEPT ![w] = "down"]
  /\ holders' = holders \ {w}
  /\ mutex' = IF mutex = w THEN NoOne ELSE mutex
  /\ owned' = [owned EXCEPT ![w] = 0]
  /\ UNCHANGED <<mapGen, initialized, resetting, activeReaders, epoch, active, pid, ctime,
                 born, writerStarts, readerVars>>

-----------------------------------------------------------------------------
(* The overlay's drain thread (DrainRing).                                 *)

RGoto(from, to) == rpc = from /\ rpc' = to

StartOverlay ==
  /\ overlayStarts < MaxOverlayStarts
  /\ RGoto("down", "closed")
  /\ overlayStarts' = overlayStarts + 1
  /\ epochBefore' = 0 /\ lastEpoch' = 0 /\ batch' = NoBatch /\ hubTail' = NoBatch
  /\ UNCHANGED <<mapVars, writerVars, within, rpid, rtime>>

\* PoseRingReader::Open: the name exists while somebody holds the mapping.
OpenMapping ==
  /\ holders # {}
  /\ RGoto("closed", "layout")
  /\ holders' = holders \cup {Overlay}
  /\ within' = "open"
  /\ UNCHANGED <<mapGen, initialized, resetting, activeReaders, epoch, active, pid, ctime,
                 writerVars, rpid, rtime, epochBefore, lastEpoch, batch, hubTail, overlayStarts>>

CheckLayout ==
  /\ initialized = 1
  /\ RGoto("layout", "active")
  /\ UNCHANGED <<mapVars, writerVars, within, rpid, rtime, epochBefore, lastEpoch, batch, hubTail,
                 overlayStarts>>

\* One round of DrainRing's loop: SessionEpoch, then Drain.
BeginDrain ==
  /\ RGoto("open", "active")
  /\ within' = "drain"
  /\ epochBefore' = epoch
  /\ UNCHANGED <<mapVars, writerVars, rpid, rtime, lastEpoch, batch, hubTail, overlayStarts>>

\* WriterAlive: three loads, then the process and the words again.
LoadActive ==
  /\ active = 1
  /\ RGoto("active", "pid")
  /\ UNCHANGED <<mapVars, writerVars, within, rpid, rtime, epochBefore, lastEpoch, batch, hubTail,
                 overlayStarts>>

LoadPid ==
  /\ RGoto("pid", "time")
  /\ rpid' = pid
  /\ UNCHANGED <<mapVars, writerVars, within, rtime, epochBefore, lastEpoch, batch, hubTail,
                 overlayStarts>>

LoadTime ==
  /\ RGoto("time", "verify")
  /\ rtime' = ctime
  /\ UNCHANGED <<mapVars, writerVars, within, rpid, epochBefore, lastEpoch, batch, hubTail,
                 overlayStarts>>

IdentityHolds ==
  /\ rpid # NoOne /\ rtime # 0
  /\ IsAlive(rpid) /\ born[rpid] = rtime
  /\ active = 1 /\ pid = rpid /\ ctime = rtime

VerifyAlive ==
  /\ IdentityHolds
  /\ RGoto("verify", "enter")
  /\ UNCHANGED <<mapVars, writerVars, within, rpid, rtime, epochBefore, lastEpoch, batch, hubTail,
                 overlayStarts>>

\* The reader closes the mapping; a drain that found its writer dead tells
\* the hub of a session boundary, an open that failed does not.
GiveUpMapping ==
  /\ \/ rpc = "layout" /\ initialized = 0
     \/ rpc = "active" /\ active = 0
     \/ rpc = "verify" /\ ~IdentityHolds
  /\ rpc' = "closed"
  /\ holders' = holders \ {Overlay}
  /\ IF within = "drain" THEN lastEpoch' = 0 /\ hubTail' = NoBatch
                       ELSE UNCHANGED <<lastEpoch, hubTail>>
  /\ UNCHANGED <<mapGen, initialized, resetting, activeReaders, epoch, active, pid, ctime,
                 writerVars, within, rpid, rtime, epochBefore, batch, overlayStarts>>

\* BeginRead: the gate, the count, the gate again.
EnterGate ==
  /\ resetting = 0
  /\ RGoto("enter", "count")
  /\ UNCHANGED <<mapVars, writerVars, within, rpid, rtime, epochBefore, lastEpoch, batch, hubTail,
                 overlayStarts>>

CountReader ==
  /\ RGoto("count", "recheck")
  /\ activeReaders' = activeReaders + 1
  /\ UNCHANGED <<holders, mapGen, initialized, resetting, epoch, active, pid, ctime,
                 writerVars, within, rpid, rtime, epochBefore, lastEpoch, batch, hubTail,
                 overlayStarts>>

RecheckGateSkipped ==
  /\ RGoto("recheck", "inside")
  /\ UNCHANGED <<mapVars, writerVars, within, rpid, rtime, epochBefore, lastEpoch, batch, hubTail,
                 overlayStarts>>

RecheckGate ==
  /\ resetting = 0
  /\ RGoto("recheck", "inside")
  /\ UNCHANGED <<mapVars, writerVars, within, rpid, rtime, epochBefore, lastEpoch, batch, hubTail,
                 overlayStarts>>

UncountReader ==
  /\ resetting # 0
  /\ RGoto("recheck", "refused")
  /\ activeReaders' = activeReaders - 1
  /\ UNCHANGED <<holders, mapGen, initialized, resetting, epoch, active, pid, ctime,
                 writerVars, within, rpid, rtime, epochBefore, lastEpoch, batch, hubTail,
                 overlayStarts>>

RefusedAtGate ==
  /\ rpc = "refused" \/ (rpc = "enter" /\ resetting # 0)
  /\ IF within = "drain"
     THEN rpc' = "open" /\ UNCHANGED holders
     ELSE rpc' = "closed" /\ holders' = holders \ {Overlay}
  /\ UNCHANGED <<mapGen, initialized, resetting, activeReaders, epoch, active, pid, ctime,
                 writerVars, within, rpid, rtime, epochBefore, lastEpoch, batch, hubTail,
                 overlayStarts>>

\* The body: an open takes its baseline, a drain collects what there is.
ReadInside ==
  /\ RGoto("inside", "leave")
  /\ batch' \in IF within = "drain" THEN {NoBatch, Session} ELSE {NoBatch}
  /\ UNCHANGED <<mapVars, writerVars, within, rpid, rtime, epochBefore, lastEpoch, hubTail,
                 overlayStarts>>

LeaveGate ==
  /\ RGoto("leave", "after")
  /\ activeReaders' = activeReaders - 1
  /\ UNCHANGED <<holders, mapGen, initialized, resetting, epoch, active, pid, ctime,
                 writerVars, within, rpid, rtime, epochBefore, lastEpoch, batch, hubTail,
                 overlayStarts>>

\* DrainRing after Open: the epoch as it is by then.
AfterOpen ==
  /\ within = "open"
  /\ RGoto("after", "open")
  /\ lastEpoch' = epoch
  /\ UNCHANGED <<mapVars, writerVars, within, rpid, rtime, epochBefore, batch, hubTail,
                 overlayStarts>>

\* DrainRing after a successful Drain: a boundary for a session that changed
\* before it, another and no batch for one that changed around it.
AfterDrainSingleEpoch ==
  /\ within = "drain"
  /\ RGoto("after", "open")
  /\ hubTail' = IF batch # NoBatch THEN batch
                ELSE IF epochBefore # lastEpoch THEN NoBatch ELSE hubTail
  /\ lastEpoch' = epochBefore
  /\ batch' = NoBatch
  /\ UNCHANGED <<mapVars, writerVars, within, rpid, rtime, epochBefore, overlayStarts>>

Boundary == epochBefore # lastEpoch \/ epoch # epochBefore
Published == IF epoch = epochBefore THEN batch ELSE NoBatch

AfterDrain ==
  /\ within = "drain"
  /\ RGoto("after", "open")
  /\ hubTail' = IF Published # NoBatch THEN Published
                ELSE IF Boundary THEN NoBatch ELSE hubTail
  /\ lastEpoch' = epoch
  /\ batch' = NoBatch
  /\ UNCHANGED <<mapVars, writerVars, within, rpid, rtime, epochBefore, overlayStarts>>

\* The overlay dies; a count it held stays in the mapping.
CrashOverlay ==
  /\ rpc # "down"
  /\ rpc' = "down"
  /\ holders' = holders \ {Overlay}
  /\ UNCHANGED <<mapGen, initialized, resetting, activeReaders, epoch, active, pid, ctime,
                 writerVars, within, rpid, rtime, epochBefore, lastEpoch, batch, hubTail,
                 overlayStarts>>

DrainThreadStep ==
  \/ OpenMapping \/ CheckLayout \/ BeginDrain \/ LoadActive \/ LoadPid \/ LoadTime
  \/ VerifyAlive \/ GiveUpMapping \/ EnterGate \/ CountReader \/ RecheckGate \/ UncountReader
  \/ RefusedAtGate \/ ReadInside \/ LeaveGate \/ AfterOpen \/ AfterDrain

SessionNext ==
  \/ \E w \in Writers :
       \/ StartWriter(w) \/ CreateStep(w)
       \/ BeginRetire(w) \/ SkipRetire(w) \/ RetireStep(w) \/ CrashWriter(w)
  \/ StartOverlay \/ DrainThreadStep \/ CrashOverlay

SessionSpec == SessionInit /\ [][SessionNext]_sessionVars

\* vrserver calls RunFrame for ever and the drain thread loops for ever: an
\* attempt that can go on does.  A departing writer finishes its teardown.
\* Windows does not for ever refuse to say whether a process lives.
Fairness ==
  /\ \A w \in Writers : WF_sessionVars(CreateStep(w)) /\ WF_sessionVars(RetireStep(w))
  /\ \A w \in Writers : SF_sessionVars(CloseGate(w))
  /\ WF_sessionVars(DrainThreadStep)

FairSpec == SessionSpec /\ Fairness

-----------------------------------------------------------------------------
(* Properties.                                                             *)

WriterStates ==
  {"down", "idle", "map", "construct", "inspect", "clear", "clearId", "drainWait", "reset",
   "publishPid", "publishTime", "publishActive", "openGate", "release", "owned",
   "retire", "retireId", "unmap"}

ReaderStates ==
  {"down", "closed", "layout", "active", "pid", "time", "verify", "enter", "count", "recheck",
   "refused", "inside", "leave", "after", "open"}

Sessions == Nat \X Nat

\* Every variable has its type; activeReaders is never taken below zero.
SessionTypeOK ==
  /\ holders \subseteq Writers \cup {Overlay} /\ mapGen \in Nat
  /\ initialized \in {0, 1} /\ resetting \in {0, 1} /\ activeReaders \in Nat /\ epoch \in Nat
  /\ active \in {0, 1} /\ pid \in Writers \cup {NoOne} /\ ctime \in Nat
  /\ mutex \in Writers \cup {NoOne}
  /\ wpc \in [Writers -> WriterStates]
  /\ born \in [Writers -> Nat] /\ owned \in [Writers -> Nat]
  /\ rpc \in ReaderStates /\ within \in {"open", "drain"}
  /\ rpid \in Writers \cup {NoOne} /\ rtime \in Nat
  /\ epochBefore \in Nat /\ lastEpoch \in Nat /\ batch \in Sessions /\ hubTail \in Sessions
  /\ writerStarts \in Nat /\ overlayStarts \in Nat

\* No reader is inside the queue while a writer rewrites it: the gate is
\* either seen closed or the reader is counted ("either counted below or
\* observe the reset before touching payloads", PoseRingWriter.h).
ResetExcludesReaders ==
  (\E w \in Writers : wpc[w] = "reset") => rpc \notin {"inside", "leave"}

\* A writer that owns the ring is the one the mapping names, from the end of
\* its Create to the start of its Close, whatever other writers attempt: two
\* live vrservers never both own it, and no departing or failing one erases
\* its identity.
OwnerIsNamed ==
  \A w \in Writers : wpc[w] = "owned" =>
    /\ w \in holders
    /\ active = 1 /\ pid = w /\ ctime = born[w] /\ epoch = owned[w]

\* The hub's stream never joins samples of two writer sessions: a boundary
\* separates them, also when the session changed around the drain or the
\* mapping was replaced (DrainRing: "Never publish a batch that may straddle
\* the reset").
SessionsSeparated ==
  [][rpc = "after" /\ hubTail' # NoBatch => hubTail \in {NoBatch, hubTail'}
                                             \/ epochBefore # lastEpoch]_sessionVars

Quiet ==
  /\ \A w \in Writers : wpc[w] \in {"down", "idle", "owned"}
  /\ rpc \in {"down", "closed", "open"}

Serving == rpc = "inside" /\ within = "drain"

\* Once processes stop starting, dying and leaving, a running vrserver and a
\* running overlay end up exchanging poses, whatever crashes left behind in
\* the mapping.  Attempts last microseconds and are a second apart, so there
\* are moments with none in progress: that is Quiet.
Reconnects ==
  ([]<>Quiet /\ <>[](rpc # "down" /\ \E w \in Writers : wpc[w] \notin {"down", "retire", "retireId", "unmap"}))
    => []<>Serving

-----------------------------------------------------------------------------
(* The strengthening that makes the two safety invariants inductive.       *)

Critical == {"map", "construct", "inspect", "clear", "clearId", "drainWait", "reset",
             "publishPid", "publishTime", "publishActive", "openGate", "release",
             "retire", "retireId"}
Gated == {"construct", "clear", "clearId", "drainWait", "reset",
          "publishPid", "publishTime", "publishActive", "openGate"}
Rewriting == Gated \cup {"release", "retireId"}

\* A step on the mapping's identity or gate is taken with the reset mutex.
MutexHeld == \A w \in Writers : wpc[w] \in Critical => mutex = w

\* Whoever works on the mapping keeps it alive.
MappingHeld ==
  /\ \A w \in Writers : wpc[w] \notin {"down", "idle", "map"} => w \in holders
  /\ rpc \notin {"down", "closed"} => Overlay \in holders

\* The gate stays closed from its closing to its opening.
GateHeld == \A w \in Writers : wpc[w] \in Gated => resetting = 1

\* A reader past its count is counted.
ReaderCounted == rpc \in {"recheck", "inside", "leave"} => activeReaders > 0

BornAlive == \A w \in Writers : wpc[w] # "down" => born[w] > 0

\* While one writer rewrites the identity, no other owns the ring.
NoRival == \A v, w \in Writers : wpc[v] \in Rewriting /\ wpc[w] = "owned" => FALSE

\* Create publishes the identity word by word.
IdentityBuilt ==
  \A w \in Writers :
    /\ wpc[w] \in {"publishTime", "publishActive", "openGate", "release", "owned"} =>
         pid = w /\ epoch = owned[w]
    /\ wpc[w] \in {"publishActive", "openGate", "release", "owned"} => ctime = born[w]
    /\ wpc[w] \in {"openGate", "release", "owned"} => active = 1

SessionInv ==
  /\ MutexHeld /\ MappingHeld /\ GateHeld /\ ReaderCounted /\ BornAlive
  /\ NoRival /\ IdentityBuilt /\ ResetExcludesReaders

\* What the hub has of a mapping: nothing before its open has returned, and
\* then samples of the session DrainRing noted last.
HubJoined ==
  rpc # "down" /\ hubTail # NoBatch =>
    within = "drain" /\ rpc # "closed" /\ hubTail = <<mapGen, lastEpoch>>

\* A batch on its way out was taken in this drain, from a session that had
\* begun by then.
BatchTaken ==
  rpc # "down" /\ batch # NoBatch =>
    /\ within = "drain" /\ rpc \in {"leave", "after"}
    /\ batch[1] = mapGen /\ epochBefore <= batch[2] /\ batch[2] <= epoch

\* Sessions of one mapping are numbered upward.
EpochsForward ==
  rpc \notin {"down", "closed", "open"} /\ within = "drain" => epochBefore <= epoch

StreamInv == HubJoined /\ BatchTaken /\ EpochsForward

=============================================================================
