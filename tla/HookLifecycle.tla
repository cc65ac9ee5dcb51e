--------------------------- MODULE HookLifecycle ---------------------------
(***************************************************************************)
(* The driver's life inside one vrserver: Init and Cleanup on vrserver's   *)
(* main thread, the pose detours on the pose threads of every driver, and  *)
(* GetGenericInterface requests, which install the pose hooks, on any      *)
(* thread (ServerTrackedDeviceProvider, InterfaceHookInjector, Hooking,    *)
(* HookLifecyclePolicy).                                                   *)
(*                                                                         *)
(* `Driver', the accept flag and the callback count are sequentially       *)
(* consistent atomics, so each access is a step.  The count is kept as the *)
(* set of the threads counted.  MinHook calls succeed or fail.  What is    *)
(* done under HookSetupMutex and seen by no one else is one step.  One     *)
(* device is enough: every device has a mutex and a transform of its own.  *)
(***************************************************************************)
EXTENDS Naturals

CONSTANTS
  PoseThreads,      \* threads that update poses
  Requesters,       \* threads that ask the driver context for an interface
  Versions,         \* hooked versions of IVRServerDriverHost
  Requested,        \* the version InitServerDriverContext asks for
  Nobody,
  MaxInits          \* bound: Inits in the life of this vrserver

ASSUME VersionAssumption == Requested \in Versions
ASSUME NobodyAssumption == Nobody \notin Requesters
ASSUME InitsAssumption == MaxInits \in Nat

VARIABLES
  main,             \* where the main thread is
  Driver,           \* the provider is published to the detours
  accepting,        \* AcceptingHookRequests
  ready,            \* versions whose PoseHook...Ready is set
  enabled,          \* versions whose detour is patched in
  contextHook,      \* the GetGenericInterface detour is patched in
  setupMutex,       \* the requester inside HookSetupMutex
  counted,          \* pose threads inside a CallbackGuard
  ringMapped,       \* PoseRingWriter holds a mapping
  poseRingReady,
  released,         \* what DisableHooks returned last
  stuckHooks,       \* history: the last teardown could not disable a hook
  stage,            \* where each pose thread is
  via,              \* the versions it has passed with its current pose
  forwarding,       \* its ForwardingDevice is this device
  transforms,       \* history: times its current pose has been transformed
  asking,           \* where each requester is
  wanted,           \* and the version it asks for
  inits

mainVars == <<main, Driver, accepting, contextHook, ringMapped, poseRingReady, released, stuckHooks, inits>>
poseVars == <<counted, stage, via, forwarding, transforms>>
hookVars == <<ready, enabled, setupMutex, asking, wanted>>
lifecycleVars == <<mainVars, poseVars, hookVars>>

LifecycleInit ==
  /\ main = "out" /\ Driver = FALSE /\ accepting = FALSE
  /\ ready = {} /\ enabled = {} /\ contextHook = FALSE
  /\ setupMutex = Nobody /\ counted = {}
  /\ ringMapped = FALSE /\ poseRingReady = FALSE
  /\ released = TRUE /\ stuckHooks = FALSE
  /\ stage = [t \in PoseThreads |-> "idle"]
  /\ via = [t \in PoseThreads |-> {}]
  /\ forwarding = [t \in PoseThreads |-> FALSE]
  /\ transforms = [t \in PoseThreads |-> 0]
  /\ asking = [r \in Requesters |-> "idle"]
  /\ wanted = [r \in Requesters |-> Requested]
  /\ inits = 0

MainGoto(from, to) == main = from /\ main' = to

-----------------------------------------------------------------------------
(* ServerTrackedDeviceProvider::Init on the main thread.                   *)

\* PoseRingWriter::Create: at once when a mapping was retained, else it
\* succeeds or does not; the ring is not needed to go on.
CreateRing ==
  /\ inits < MaxInits
  /\ MainGoto("out", "inject")
  /\ inits' = inits + 1
  /\ \/ ringMapped' = TRUE /\ poseRingReady' = TRUE
     \/ ~ringMapped /\ ringMapped' = FALSE /\ poseRingReady' = FALSE
  /\ UNCHANGED <<Driver, accepting, contextHook, released, stuckHooks, poseVars, hookVars>>

\* InjectHooks up to the publication of the provider, or its failure to pin
\* the module and initialize MinHook.
PublishDriver ==
  /\ setupMutex = Nobody
  /\ main = "inject"
  /\ \/ main' = "hook" /\ Driver' = TRUE
     \/ main' = "stop" /\ UNCHANGED Driver
  /\ UNCHANGED <<accepting, contextHook, ringMapped, poseRingReady, released, stuckHooks, inits,
                 poseVars, hookVars>>

\* The context hook, then the accept flag.  The main thread is still inside
\* the setup mutex; no requester holds it (see LockSetup).
HookContext ==
  /\ main = "hook"
  /\ \/ /\ main' = "context"
        /\ contextHook' = TRUE /\ accepting' = TRUE
        /\ UNCHANGED Driver
     \/ /\ main' = "stop"
        /\ Driver' = FALSE
        /\ UNCHANGED <<contextHook, accepting>>
  /\ UNCHANGED <<ringMapped, poseRingReady, released, stuckHooks, inits, poseVars, hookVars>>

\* CreateHookInObjectVTable and the ready flag, under the setup mutex.
InstallHook(v) ==
  \/ enabled' = enabled \cup {v} /\ ready' = ready \cup {v}
  \/ v \notin ready /\ UNCHANGED <<enabled, ready>>

\* InitServerDriverContext asks for Requested through the detour.
RequestContext ==
  /\ setupMutex = Nobody
  /\ MainGoto("context", "check")
  /\ InstallHook(Requested)
  /\ UNCHANGED <<Driver, accepting, contextHook, ringMapped, poseRingReady, released, stuckHooks,
                 inits, poseVars, setupMutex, asking, wanted>>

\* IsPoseUpdateHookInstalled, the errors of the context and IPCServer::Run.
FinishInit ==
  /\ main = "check"
  /\ \/ main' = "running" /\ ready # {}
     \/ main' = "stop"
  /\ UNCHANGED <<Driver, accepting, contextHook, ringMapped, poseRingReady, released, stuckHooks,
                 inits, poseVars, hookVars>>

\* RunFrame retries a ring that could not be created.
RunFrame ==
  /\ main = "running" /\ ~poseRingReady
  /\ ringMapped' = TRUE /\ poseRingReady' = TRUE
  /\ UNCHANGED <<main, Driver, accepting, contextHook, released, stuckHooks, inits, poseVars, hookVars>>

-----------------------------------------------------------------------------
(* Teardown, from Cleanup and from every failure of Init.                  *)

Cleanup ==
  /\ MainGoto("running", "stop")
  /\ UNCHANGED <<Driver, accepting, contextHook, ringMapped, poseRingReady, released, stuckHooks,
                 inits, poseVars, hookVars>>

StopAccepting ==
  /\ MainGoto("stop", "drop")
  /\ accepting' = FALSE
  /\ UNCHANGED <<Driver, contextHook, ringMapped, poseRingReady, released, stuckHooks, inits,
                 poseVars, hookVars>>

DropDriver ==
  /\ MainGoto("drop", "disable")
  /\ Driver' = FALSE
  /\ UNCHANGED <<accepting, contextHook, ringMapped, poseRingReady, released, stuckHooks, inits,
                 poseVars, hookVars>>

\* Under the setup mutex: the ready flags and every hook; MinHook may fail to
\* disable some, whose detours then stay and only forward.
DisableHooks ==
  /\ setupMutex = Nobody
  /\ MainGoto("disable", "wait")
  /\ ready' = {}
  /\ \/ enabled' = {} /\ contextHook' = FALSE /\ stuckHooks' = FALSE
     \/ enabled' \in SUBSET enabled /\ contextHook' \in {FALSE, contextHook} /\ stuckHooks' = TRUE
  /\ UNCHANGED <<Driver, accepting, ringMapped, poseRingReady, released, inits, poseVars,
                 setupMutex, asking, wanted>>

WaitForever ==
  /\ MainGoto("wait", "close")
  /\ released' = TRUE /\ counted = {}
  /\ UNCHANGED <<Driver, accepting, contextHook, ringMapped, poseRingReady, stuckHooks, inits,
                 poseVars, hookVars>>

WaitUnchecked ==
  /\ MainGoto("wait", "close")
  /\ released' = TRUE
  /\ UNCHANGED <<Driver, accepting, contextHook, ringMapped, poseRingReady, stuckHooks, inits,
                 poseVars, hookVars>>

\* WaitUntilIdle: no callback is counted, or one still is after the timeout.
WaitUntilIdle ==
  /\ MainGoto("wait", "close")
  /\ released' = (counted = {})
  /\ UNCHANGED <<Driver, accepting, contextHook, ringMapped, poseRingReady, stuckHooks, inits,
                 poseVars, hookVars>>

\* The ring goes away unless a callback may still reach it.
CloseRing ==
  /\ MainGoto("close", "out")
  /\ poseRingReady' = FALSE
  /\ ringMapped' = (ringMapped /\ ~released)
  /\ UNCHANGED <<Driver, accepting, contextHook, released, stuckHooks, inits, poseVars, hookVars>>

Teardown == StopAccepting \/ DropDriver \/ DisableHooks \/ WaitUntilIdle \/ CloseRing

-----------------------------------------------------------------------------
(* A pose update through the hooks (ForwardPoseUpdate).                    *)

ThreadGoto(t, from, to) == stage[t] = from /\ stage' = [stage EXCEPT ![t] = to]

\* The device's driver calls a patched host function.
EnterDetour(t, v) ==
  /\ v \in enabled
  /\ ThreadGoto(t, "idle", "detour")
  /\ via' = [via EXCEPT ![t] = {v}]
  /\ transforms' = [transforms EXCEPT ![t] = 0]
  /\ UNCHANGED <<mainVars, counted, forwarding, hookVars>>

\* The outer detour of this thread already handles this device's pose.
Reenter(t) ==
  /\ forwarding[t]
  /\ ThreadGoto(t, "detour", "original")
  /\ UNCHANGED <<mainVars, counted, via, forwarding, transforms, hookVars>>

\* A caller's DriverPose_t of another layout is forwarded untouched.
ForwardMismatched(t) ==
  /\ ~forwarding[t]
  /\ ThreadGoto(t, "detour", "original")
  /\ forwarding' = [forwarding EXCEPT ![t] = TRUE]
  /\ UNCHANGED <<mainVars, counted, via, transforms, hookVars>>

CountCallbackAlways(t) ==
  /\ ThreadGoto(t, "detour", "load")
  /\ forwarding' = [forwarding EXCEPT ![t] = TRUE]
  /\ counted' = counted \cup {t}
  /\ UNCHANGED <<mainVars, via, transforms, hookVars>>

CountCallback(t) ==
  /\ ~forwarding[t]
  /\ ThreadGoto(t, "detour", "load")
  /\ forwarding' = [forwarding EXCEPT ![t] = TRUE]
  /\ counted' = counted \cup {t}
  /\ UNCHANGED <<mainVars, via, transforms, hookVars>>

LoadDriver(t) ==
  /\ ThreadGoto(t, "load", IF Driver THEN "inside" ELSE "leave")
  /\ UNCHANGED <<mainVars, counted, via, forwarding, transforms, hookVars>>

\* HandleDevicePoseUpdated: the raw pose goes to the ring first ...
LoadRingReady(t) ==
  /\ ThreadGoto(t, "inside", IF poseRingReady THEN "publish" ELSE "apply")
  /\ UNCHANGED <<mainVars, counted, via, forwarding, transforms, hookVars>>

Publish(t) ==
  /\ ThreadGoto(t, "publish", "apply")
  /\ UNCHANGED <<mainVars, counted, via, forwarding, transforms, hookVars>>

\* ... then the calibration is composed onto it.
ApplyRuntimePose(t) ==
  /\ ThreadGoto(t, "apply", "leave")
  /\ transforms' = [transforms EXCEPT ![t] = @ + 1]
  /\ UNCHANGED <<mainVars, counted, via, forwarding, hookVars>>

LeaveDriver(t) ==
  /\ ThreadGoto(t, "leave", "original")
  /\ counted' = counted \ {t}
  /\ UNCHANGED <<mainVars, via, forwarding, transforms, hookVars>>

\* The original may be implemented by another hooked version.
ForwardToVersion(t, v) ==
  /\ v \in enabled \ via[t]
  /\ ThreadGoto(t, "original", "detour")
  /\ via' = [via EXCEPT ![t] = @ \cup {v}]
  /\ UNCHANGED <<mainVars, counted, forwarding, transforms, hookVars>>

Return(t) ==
  /\ ThreadGoto(t, "original", "idle")
  /\ via' = [via EXCEPT ![t] = {}]
  /\ forwarding' = [forwarding EXCEPT ![t] = FALSE]
  /\ UNCHANGED <<mainVars, counted, transforms, hookVars>>

ForwardPoseUpdate(t) ==
  \/ Reenter(t) \/ ForwardMismatched(t) \/ CountCallback(t) \/ LoadDriver(t)
  \/ LoadRingReady(t) \/ Publish(t) \/ ApplyRuntimePose(t) \/ LeaveDriver(t) \/ Return(t)

-----------------------------------------------------------------------------
(* GetGenericInterface on another thread (TryInstallPoseHook).             *)

RequesterGoto(r, from, to) == asking[r] = from /\ asking' = [asking EXCEPT ![r] = to]

AskInterface(r, v) ==
  /\ contextHook /\ accepting
  /\ RequesterGoto(r, "idle", "lock")
  /\ wanted' = [wanted EXCEPT ![r] = v]
  /\ UNCHANGED <<mainVars, poseVars, ready, enabled, setupMutex>>

LockSetup(r) ==
  /\ setupMutex = Nobody /\ main # "hook"
  /\ RequesterGoto(r, "lock", "recheck")
  /\ setupMutex' = r
  /\ UNCHANGED <<mainVars, poseVars, ready, enabled, wanted>>

RecheckSkipped(r) ==
  /\ RequesterGoto(r, "recheck", "install")
  /\ UNCHANGED <<mainVars, poseVars, ready, enabled, setupMutex, wanted>>

\* The accept flag again, now under the mutex, and the ready flag.
Recheck(r) ==
  /\ IF accepting /\ wanted[r] \notin ready
     THEN RequesterGoto(r, "recheck", "install") /\ UNCHANGED setupMutex
     ELSE RequesterGoto(r, "recheck", "idle") /\ setupMutex' = Nobody
  /\ UNCHANGED <<mainVars, poseVars, ready, enabled, wanted>>

Install(r) ==
  /\ RequesterGoto(r, "install", "idle")
  /\ InstallHook(wanted[r])
  /\ setupMutex' = Nobody
  /\ UNCHANGED <<mainVars, poseVars, wanted>>

TryInstallPoseHook(r) == LockSetup(r) \/ Recheck(r) \/ Install(r)

-----------------------------------------------------------------------------

InitStep == PublishDriver \/ HookContext \/ RequestContext \/ FinishInit
PoseStep(t) ==
  ForwardPoseUpdate(t) \/ \E v \in Versions : EnterDetour(t, v) \/ ForwardToVersion(t, v)

LifecycleNext ==
  \/ CreateRing \/ InitStep \/ RunFrame \/ Cleanup \/ Teardown
  \/ \E t \in PoseThreads : PoseStep(t)
  \/ \E r \in Requesters : TryInstallPoseHook(r) \/ \E v \in Versions : AskInterface(r, v)

LifecycleSpec == LifecycleInit /\ [][LifecycleNext]_lifecycleVars

\* vrserver's main thread and a thread inside a request run on.  A pose
\* thread may be preempted for any time: nothing is assumed of it.
FairLifecycle ==
  /\ LifecycleSpec
  /\ WF_lifecycleVars(InitStep \/ Teardown)
  /\ \A r \in Requesters : WF_lifecycleVars(TryInstallPoseHook(r))

-----------------------------------------------------------------------------
(* Properties.                                                             *)

\* Every variable has its type, and a thread is counted exactly while it is
\* inside its CallbackGuard.
LifecycleTypeOK ==
  /\ main \in {"out", "inject", "hook", "context", "check", "running",
               "stop", "drop", "disable", "wait", "close"}
  /\ Driver \in BOOLEAN /\ accepting \in BOOLEAN /\ contextHook \in BOOLEAN
  /\ ready \subseteq Versions /\ enabled \subseteq Versions
  /\ setupMutex \in Requesters \cup {Nobody}
  /\ counted = {t \in PoseThreads : stage[t] \in {"load", "inside", "publish", "apply", "leave"}}
  /\ ringMapped \in BOOLEAN /\ poseRingReady \in BOOLEAN
  /\ released \in BOOLEAN /\ stuckHooks \in BOOLEAN
  /\ stage \in [PoseThreads -> {"idle", "detour", "load", "inside", "publish", "apply", "leave", "original"}]
  /\ via \in [PoseThreads -> SUBSET Versions]
  /\ forwarding \in [PoseThreads -> BOOLEAN] /\ transforms \in [PoseThreads -> Nat]
  /\ asking \in [Requesters -> {"idle", "lock", "recheck", "install"}]
  /\ wanted \in [Requesters -> Versions]
  /\ inits \in Nat

\* A pose thread that publishes finds the ring mapped, across any number of
\* Cleanups, failed Inits and retries ("the ring must not be unmapped while a
\* pose thread can still be inside the publish path").
RingMappedUnderPublish == \A t \in PoseThreads : stage[t] = "publish" => ringMapped

\* A ready flag never outlives the hook it names, or the next Init would skip
\* installing the hook while IsPoseUpdateHookInstalled still reports it.
ReadyMeansHooked == ready \subseteq enabled

\* Once Cleanup or a failed Init has returned, no callback can find the
\* driver and no hook is patched in, unless MinHook refused to disable it.
OutMeansUnhooked ==
  main = "out" => ~Driver /\ (stuckHooks \/ enabled = {})

\* A pose is composed with the calibration at most once, and only raw poses
\* are published, also when one hooked host version forwards to another.
NoDoubleTransform ==
  \A t \in PoseThreads : transforms[t] <= 1 /\ (stage[t] = "publish" => transforms[t] = 0)

\* Cleanup and a failing Init return, even with a pose thread that never
\* comes back from the driver.
TeardownReturns == main = "stop" ~> main = "out"

-----------------------------------------------------------------------------
(* The strengthening that makes the safety invariants inductive.           *)

Inside == {"inside", "publish", "apply"}

\* After DropDriver nobody new gets in; after an idle wait nobody is in.
ReleasedIsEmpty ==
  /\ main \in {"out", "inject", "disable", "wait", "close"} => ~Driver
  /\ main = "close" /\ released => \A t \in PoseThreads : stage[t] \notin Inside

ReadyMeansMapped == poseRingReady => ringMapped

\* A requester past its lock holds the mutex until it is done.
SetupHeld == \A r \in Requesters : asking[r] \in {"recheck", "install"} => setupMutex = r

\* Nothing is installed between one teardown and the next InjectHooks.
OutStaysUnhooked ==
  /\ main \in {"out", "inject", "hook", "drop", "disable", "wait", "close"} => ~accepting
  /\ main \in {"out", "inject", "wait", "close"} =>
       /\ stuckHooks \/ enabled = {}
       /\ \A r \in Requesters : asking[r] # "install"

\* ForwardingDevice is set from the first detour to the return.
ForwardingSpan ==
  \A t \in PoseThreads :
    /\ stage[t] = "idle" => ~forwarding[t]
    /\ stage[t] \in {"load", "inside", "publish", "apply", "leave", "original"} => forwarding[t]
    /\ stage[t] = "detour" /\ ~forwarding[t] => transforms[t] = 0
    /\ stage[t] \in {"load", "inside", "publish", "apply"} => transforms[t] = 0
    /\ transforms[t] <= 1

LifecycleInv ==
  /\ ReleasedIsEmpty /\ ReadyMeansMapped /\ RingMappedUnderPublish
  /\ ReadyMeansHooked /\ SetupHeld /\ OutStaysUnhooked /\ ForwardingSpan

=============================================================================
