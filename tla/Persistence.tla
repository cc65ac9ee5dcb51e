----------------------------- MODULE Persistence -----------------------------
(* The two registry records of the overlay, Config (the calibration) and     *)
(* Settings (global settings and the protected room), and the protocol that  *)
(* keeps them together: revisions, dirty bits, the order of coupled writes,  *)
(* the migration of records of older releases, and the plan made of whatever *)
(* the next launch finds.  One action per registry write, so that a crash    *)
(* can fall between any two, and one per operation that changes a record.    *)
(*                                                                           *)
(* A universe is one placement of the headset's raw tracking space: it       *)
(* changes when the headset re-centers.  A calibration and a room are the    *)
(* universe they are expressed in, 0 for none.  Of the global settings only  *)
(* this is kept: whether they are the user's or the defaults.                *)
EXTENDS Naturals, Sequences, FiniteSets

CONSTANTS
  QuietPeriod, MaxDirtyAge,   \* the debounce, in ticks
  MaxUniverses,               \* bound: universes the headset tracks in
  MaxRevision,                \* bound: revision at which coupled changes stop
  MaxFaults,                  \* bound: failed writes and crashes
  MaxUnreadable               \* bound: records a launch finds unreadable

ASSUME DebounceAssumption == QuietPeriod \in Nat /\ MaxDirtyAge \in Nat
ASSUME BoundsAssumption ==
  /\ MaxUniverses \in Nat \ {0} /\ MaxRevision \in Nat
  /\ MaxFaults \in Nat /\ MaxUnreadable \in Nat

Universes == 1 .. MaxUniverses
RecordLoadState == {"Missing", "Loaded", "Unreadable"}

VARIABLES
  config, settings,       \* the records in the registry
  universe,               \* the one the headset tracks in
  alive,                  \* the overlay runs
  profile, room, users,   \* its calibration, its room, are its settings the user's
  configState, settingsState,
  revision, coupled, profileDirty, settingsDirty, migrationPending,
  legacyAtLoad,           \* what the migration latch falls back to
  quietAge, dirtyAge,     \* ticks since dirtyTime and firstDirtyTime
  task, todo, failed,     \* the save under way: for whom, records left, records not saved
  faults, unread,
  relatched               \* a load set the latch although it had given Config a revision

diskVars == <<config, settings>>
stateVars == <<configState, settingsState, legacyAtLoad>>
dirtyVars == <<profileDirty, settingsDirty, quietAge, dirtyAge>>
saveVars == <<task, todo, failed>>
boundVars == <<faults, unread, relatched>>
vars == <<diskVars, universe, alive, profile, room, users, stateVars, revision, coupled,
          dirtyVars, migrationPending, saveVars, boundVars>>

(* Revision 0 is a record without one; only a Config of an older release    *)
(* holds settings and a room.                                               *)
NoConfig == [universe |-> 0, revision |-> 0, users |-> FALSE, room |-> 0]
NoSettings == [here |-> FALSE, revision |-> 0, users |-> FALSE, room |-> 0]

HasDirty == profileDirty \/ settingsDirty
Idle == alive /\ task = "none"

(* A first launch, or one after a release that kept everything in Config,   *)
(* or after one that had split Settings off but wrote no revisions.         *)
Init ==
  /\ \/ config = NoConfig /\ settings = NoSettings
     \/ \E r \in {0, 1} :
          /\ config = [universe |-> 1, revision |-> 0, users |-> TRUE, room |-> r]
          /\ settings = NoSettings
     \/ \E u, r \in {0, 1} :
          /\ config = [NoConfig EXCEPT !.universe = u]
          /\ settings = [here |-> TRUE, revision |-> 0, users |-> TRUE, room |-> r]
  /\ universe = 1 /\ alive = FALSE
  /\ profile = 0 /\ room = 0 /\ users = FALSE
  /\ configState = "Missing" /\ settingsState = "Missing" /\ legacyAtLoad = FALSE
  /\ revision = 0 /\ coupled = FALSE /\ migrationPending = FALSE
  /\ profileDirty = FALSE /\ settingsDirty = FALSE /\ quietAge = 0 /\ dirtyAge = 0
  /\ task = "none" /\ todo = <<>> /\ failed = {}
  /\ faults = 0 /\ unread = 0 /\ relatched = FALSE

-----------------------------------------------------------------------------
(* PersistenceState.                                                        *)

StartDebounceAnew == quietAge' = 0 /\ dirtyAge' = 0

StartDebounce ==
  /\ quietAge' = 0
  /\ dirtyAge' = IF HasDirty THEN dirtyAge ELSE 0

MarkProfile == StartDebounce /\ profileDirty' = TRUE /\ UNCHANGED settingsDirty
MarkSettings == StartDebounce /\ settingsDirty' = TRUE /\ UNCHANGED profileDirty
MarkProfileAndSettings == StartDebounce /\ profileDirty' = TRUE /\ settingsDirty' = TRUE

AdvanceRevisionUncoupled == revision' = revision + 1 /\ UNCHANGED coupled

AdvanceRevision == revision' = revision + 1 /\ coupled' = TRUE

Save(for, records) == task' = for /\ todo' = records /\ failed' = {}

SaveSettings(for) ==
  Save(for, IF profileDirty' THEN <<"config", "settings">> ELSE <<"settings">>)

SavePendingChanges(for) ==
  IF settingsDirty' THEN SaveSettings(for) ELSE Save(for, <<"config">>)

-----------------------------------------------------------------------------
(* Loading.                                                                 *)

CanRewrite(p, s) == s # "Unreadable" /\ p # "Unreadable"

RevisionMismatchOfTwo(p, settingsRevision) ==
  p = "Loaded" /\ config.revision # 0 /\ settingsRevision # config.revision

(* The records were not written together: of different revisions, or the    *)
(* Settings half of a coupled write beside a Config that never had one.     *)
RevisionMismatch(p, settingsRevision) ==
  /\ p = "Loaded"
  /\ IF config.revision # 0 THEN settingsRevision # config.revision ELSE settingsRevision > 1

PlanRevision(p, settingsRevision) ==
  IF p = "Loaded" /\ config.revision # 0 THEN config.revision
  ELSE IF settingsRevision # 0 THEN settingsRevision ELSE 1

LoadState(unreadable, here) ==
  IF unreadable THEN "Unreadable" ELSE IF here THEN "Loaded" ELSE "Missing"

(* LoadProfile, up to the rewrites it asks for.  ownerFits: the room names   *)
(* its headset and baseline, and the tracking system of the calibration.    *)
LoadProfile(unreadable, ownerFits) ==
  LET p == LoadState("config" \in unreadable, config.universe # 0)
      s == LoadState("settings" \in unreadable, settings.here)
      legacy == IF p = "Loaded" THEN config ELSE NoConfig
      settingsRevision == IF s = "Loaded" THEN settings.revision ELSE 0
      armed == IF s = "Loaded" THEN settings.room ELSE legacy.room
      mismatch == RevisionMismatch(p, settingsRevision)
      pending == p = "Loaded" /\ config.revision = 0 /\ settingsRevision = 0
      rewriteProfile == mismatch /\ config.revision = 0
      rewriteSettings ==
        /\ CanRewrite(p, s)
        /\ \/ mismatch \/ pending
           \/ p # "Loaded" /\ settingsRevision = 0
           \/ armed # 0 /\ ~ownerFits
  IN /\ configState' = p /\ settingsState' = s
     /\ profile' = legacy.universe
     /\ users' = IF s = "Loaded" THEN settings.users ELSE legacy.users
     /\ room' = IF mismatch \/ s = "Unreadable" \/ ~ownerFits \/ (p = "Unreadable" /\ s # "Loaded")
                THEN 0 ELSE armed
     /\ migrationPending' = pending
     /\ legacyAtLoad' = (p = "Loaded" /\ config.revision = 0)
     /\ revision' = PlanRevision(p, settingsRevision) + (IF rewriteProfile THEN 1 ELSE 0)
     /\ coupled' = rewriteProfile
     /\ profileDirty' = rewriteProfile /\ settingsDirty' = rewriteSettings
     /\ StartDebounceAnew
     /\ IF rewriteSettings THEN SaveSettings("load") ELSE Save("none", <<>>)

Launch ==
  /\ ~alive /\ alive' = TRUE
  /\ \E unreadable \in SUBSET {"config", "settings"}, ownerFits \in BOOLEAN :
       /\ unread' = unread + Cardinality(unreadable) /\ unread' <= MaxUnreadable
       /\ LoadProfile(unreadable, ownerFits)
  /\ UNCHANGED <<diskVars, universe, faults, relatched>>

Loaded ==
  /\ alive /\ task = "load" /\ todo = <<>>
  /\ migrationPending' = IF failed = {} THEN migrationPending ELSE legacyAtLoad
  /\ relatched' = (relatched \/ (migrationPending' /\ config.revision # 0))
  /\ Save("none", <<>>)
  /\ UNCHANGED <<diskVars, universe, alive, profile, room, users, stateVars, revision, coupled,
                 dirtyVars, faults, unread>>

-----------------------------------------------------------------------------
(* The registry writes.                                                     *)

GateProfileWrite ==
  /\ configState # "Unreadable"
  /\ ~(migrationPending /\ settingsState = "Unreadable")

GateSettingsWriteConfigOnly == configState # "Unreadable" \/ settingsState = "Loaded"

GateSettingsWrite ==
  /\ configState # "Unreadable" \/ settingsState = "Loaded"
  /\ settingsState # "Unreadable"

Writing == todo # <<>> /\ Head(todo) \in {"config", "clear"}

SettingsLand ==
  /\ settings' = [here |-> TRUE, revision |-> revision, users |-> users, room |-> room]
  /\ migrationPending' = FALSE /\ settingsState' = "Loaded" /\ settingsDirty' = FALSE

(* WriteConfigRecord of a legacy user first gives Settings a record.        *)
MigrateSettings ==
  /\ Writing /\ GateProfileWrite /\ migrationPending /\ GateSettingsWrite
  /\ SettingsLand
  /\ UNCHANGED <<config, universe, alive, profile, room, users, configState, legacyAtLoad,
                 revision, coupled, profileDirty, quietAge, dirtyAge, saveVars, boundVars>>

ConfigRecord ==
  IF Head(todo) = "clear" THEN NoConfig
  ELSE [NoConfig EXCEPT !.universe = profile, !.revision = revision]

WriteConfigRecord ==
  /\ Writing /\ GateProfileWrite /\ ~migrationPending
  /\ config' = ConfigRecord
  /\ profileDirty' = FALSE
  /\ configState' = IF Head(todo) = "clear" THEN "Missing" ELSE "Loaded"
  /\ todo' = Tail(todo)
  /\ UNCHANGED <<settings, universe, alive, profile, room, users, settingsState, legacyAtLoad,
                 revision, coupled, settingsDirty, quietAge, dirtyAge, migrationPending, task,
                 failed, boundVars>>

LeftAfterFailedConfig == IF coupled THEN <<>> ELSE Tail(todo)

(* Refused, or the registry fails under it or under its migration.          *)
ConfigFails ==
  /\ Writing
  /\ IF GateProfileWrite /\ (migrationPending => GateSettingsWrite)
     THEN faults < MaxFaults /\ faults' = faults + 1 ELSE UNCHANGED faults
  /\ todo' = LeftAfterFailedConfig
  /\ failed' = {"config"} \cup (IF coupled THEN {"settings"} ELSE {})
  /\ UNCHANGED <<diskVars, universe, alive, profile, room, users, stateVars, revision, coupled,
                 dirtyVars, migrationPending, task, unread, relatched>>

(* The last half of SaveSettings.                                           *)
WriteSettingsRecord ==
  /\ todo = <<"settings">> /\ GateSettingsWrite
  /\ SettingsLand
  /\ todo' = <<>> /\ coupled' = (coupled /\ profileDirty)
  /\ UNCHANGED <<config, universe, alive, profile, room, users, configState, legacyAtLoad,
                 revision, profileDirty, quietAge, dirtyAge, task, failed, boundVars>>

SettingsFail ==
  /\ todo = <<"settings">>
  /\ IF GateSettingsWrite THEN faults < MaxFaults /\ faults' = faults + 1 ELSE UNCHANGED faults
  /\ todo' = <<>> /\ failed' = failed \cup {"settings"}
  /\ coupled' = (coupled /\ HasDirty)
  /\ UNCHANGED <<diskVars, universe, alive, profile, room, users, stateVars, revision,
                 dirtyVars, migrationPending, task, unread, relatched>>

Write == MigrateSettings \/ WriteConfigRecord \/ ConfigFails \/ WriteSettingsRecord \/ SettingsFail

-----------------------------------------------------------------------------
(* Changes of the records, each with the save it asks for.                  *)

Untouched == UNCHANGED <<diskVars, alive, stateVars, migrationPending, boundVars>>

(* The headset re-centers and the delta is applied to calibration and room. *)
(* Nothing is saved before the next due tick.                               *)
ApplyCalibrationDelta ==
  /\ Idle /\ profile = universe /\ universe < MaxUniverses /\ revision < MaxRevision
  /\ universe' = universe + 1
  /\ profile' = universe'
  /\ room' = IF room = universe THEN universe' ELSE room
  /\ AdvanceRevision /\ MarkProfileAndSettings
  /\ Untouched /\ UNCHANGED <<users, saveVars>>

(* The same without a calibration: the room follows, or is switched off.    *)
ReanchorRoom ==
  /\ Idle /\ profile = 0 /\ room = universe /\ room # 0
  /\ universe < MaxUniverses /\ revision < MaxRevision
  /\ universe' = universe + 1 /\ room' = universe'
  /\ AdvanceRevision /\ MarkSettings /\ SaveSettings("room")
  /\ Untouched /\ UNCHANGED <<profile, users>>

DisarmChaperoneAndPersist ==
  /\ Idle /\ room # 0
  /\ universe' \in {universe, universe + 1} /\ universe' <= MaxUniverses
  /\ universe' # universe => profile = 0
  /\ room' = 0
  /\ MarkSettings /\ SaveSettings("disarm")
  /\ Untouched /\ UNCHANGED <<profile, users, revision, coupled>>

(* It re-centers and cannot be followed: the calibration is latched unsafe. *)
LatchUnsafe ==
  /\ Idle /\ profile = universe /\ universe < MaxUniverses
  /\ universe' = universe + 1
  /\ IF room # 0 THEN MarkProfileAndSettings ELSE MarkProfile
  /\ SavePendingChanges("latch")
  /\ Untouched /\ UNCHANGED <<profile, room, users, revision, coupled>>

RecenterWhileAway ==
  /\ ~alive /\ universe < MaxUniverses
  /\ universe' = universe + 1
  /\ UNCHANGED <<diskVars, alive, profile, room, users, stateVars, revision, coupled, dirtyVars,
                 migrationPending, saveVars, boundVars>>

(* FinishCalibration: a room stays only on a baseline seen to be current.   *)
FinishCalibration ==
  /\ Idle /\ revision < MaxRevision
  /\ profile' = universe
  /\ room' \in {0} \cup ({room} \cap {universe})
  /\ AdvanceRevision /\ MarkProfileAndSettings /\ SavePendingChanges("finish")
  /\ Untouched /\ UNCHANGED <<universe, users>>

(* A continuous correction, a timing step, an adopted baseline.             *)
Correct ==
  /\ Idle /\ profile # 0
  /\ MarkProfile \/ (room # 0 /\ MarkProfileAndSettings)
  /\ Untouched /\ UNCHANGED <<universe, profile, room, users, revision, coupled, saveVars>>

SaveProfileFieldEdit ==
  /\ Idle /\ profile # 0
  /\ Save("edit", <<"config">>)
  /\ Untouched /\ UNCHANGED <<universe, profile, room, users, revision, coupled, dirtyVars>>

SaveSetting ==
  /\ Idle
  /\ users' = TRUE
  /\ UNCHANGED dirtyVars
  /\ SaveSettings(IF users THEN "setting" ELSE "first setting")
  /\ Untouched /\ UNCHANGED <<universe, profile, room, revision, coupled>>

(* LoadChaperoneBounds: the old room is switched off first.                 *)
LoadChaperoneBounds ==
  /\ Idle /\ profile \in {0, universe} /\ room # universe
  /\ IF room # 0
     THEN MarkSettings /\ SaveSettings("switch off") /\ UNCHANGED room
     ELSE room' = universe /\ UNCHANGED dirtyVars /\ SaveSettings("room")
  /\ Untouched /\ UNCHANGED <<universe, profile, users, revision, coupled>>

ClearSavedProfile ==
  /\ Idle /\ profile # 0
  /\ UNCHANGED dirtyVars
  /\ IF settingsDirty THEN SaveSettings("flush") ELSE Save("clear", <<"clear">>)
  /\ Untouched /\ UNCHANGED <<universe, profile, room, users, revision, coupled>>

Due == quietAge' > QuietPeriod \/ dirtyAge' > MaxDirtyAge

PersistenceTick ==
  /\ Idle /\ HasDirty
  /\ quietAge' = quietAge + 1 /\ dirtyAge' = dirtyAge + 1
  /\ UNCHANGED <<profileDirty, settingsDirty>>
  /\ IF Due THEN SavePendingChanges("tick") ELSE UNCHANGED saveVars
  /\ Untouched /\ UNCHANGED <<universe, profile, room, users, revision, coupled>>

Quit ==
  /\ Idle
  /\ UNCHANGED dirtyVars
  /\ IF HasDirty THEN SavePendingChanges("quit") ELSE Save("quit", <<>>)
  /\ Untouched /\ UNCHANGED <<universe, profile, room, users, revision, coupled>>

-----------------------------------------------------------------------------
(* What the callers do once their save has returned.                        *)

Returned(for) == alive /\ task \in for /\ todo = <<>>

Kept == UNCHANGED <<diskVars, universe, stateVars, revision, migrationPending, boundVars>>

SavedAsIs ==
  /\ Returned({"disarm", "edit", "setting"})
  /\ Save("none", <<>>)
  /\ Kept /\ UNCHANGED <<alive, profile, room, users, coupled, dirtyVars>>

(* SaveSettingOrRestore.                                                    *)
SettingSaved ==
  /\ Returned({"first setting"})
  /\ users' = ("settings" \notin failed)
  /\ Save("none", <<>>)
  /\ Kept /\ UNCHANGED <<alive, profile, room, coupled, dirtyVars>>

(* SavePendingChanges returns; a tick that failed starts the clocks anew.   *)
PendingSaved ==
  /\ Returned({"tick", "finish", "latch"})
  /\ coupled' = (coupled /\ failed # {})
  /\ IF task = "tick" /\ failed # {} THEN StartDebounceAnew ELSE UNCHANGED <<quietAge, dirtyAge>>
  /\ UNCHANGED <<profileDirty, settingsDirty>>
  /\ Save("none", <<>>)
  /\ Kept /\ UNCHANGED <<alive, profile, room, users>>

RoomSavedForgotten ==
  /\ Returned({"room"})
  /\ UNCHANGED dirtyVars
  /\ Save("none", <<>>)
  /\ Kept /\ UNCHANGED <<alive, profile, room, users, coupled>>

RoomSaved ==
  /\ Returned({"room"})
  /\ IF failed = {} THEN UNCHANGED dirtyVars ELSE MarkSettings
  /\ Save("none", <<>>)
  /\ Kept /\ UNCHANGED <<alive, profile, room, users, coupled>>

SwitchedOff ==
  /\ Returned({"switch off"})
  /\ IF failed = {}
     THEN room' = universe /\ UNCHANGED dirtyVars /\ SaveSettings("room")
     ELSE MarkSettings /\ Save("none", <<>>) /\ UNCHANGED room
  /\ Kept /\ UNCHANGED <<alive, profile, users, coupled>>

Flushed ==
  /\ Returned({"flush"})
  /\ IF failed = {} THEN Save("clear", <<"clear">>) ELSE Save("none", <<>>)
  /\ Kept /\ UNCHANGED <<alive, profile, room, users, coupled, dirtyVars>>

Cleared ==
  /\ Returned({"clear"})
  /\ IF failed = {} THEN profile' = 0 /\ profileDirty' = FALSE ELSE UNCHANGED <<profile, profileDirty>>
  /\ Save("none", <<>>)
  /\ Kept /\ UNCHANGED <<alive, room, users, coupled, settingsDirty, quietAge, dirtyAge>>

SaveReturns ==
  SavedAsIs \/ SettingSaved \/ PendingSaved \/ RoomSaved \/ SwitchedOff \/ Flushed \/ Cleared

(* What is in memory goes with the process.                                 *)
Gone ==
  /\ alive' = FALSE /\ profile' = 0 /\ room' = 0 /\ users' = FALSE
  /\ configState' = "Missing" /\ settingsState' = "Missing" /\ legacyAtLoad' = FALSE
  /\ revision' = 0 /\ coupled' = FALSE /\ migrationPending' = FALSE
  /\ profileDirty' = FALSE /\ settingsDirty' = FALSE /\ StartDebounceAnew
  /\ Save("none", <<>>)
  /\ UNCHANGED <<diskVars, universe, unread, relatched>>

ShutDown == Returned({"quit"}) /\ Gone /\ UNCHANGED faults

Crash == alive /\ faults < MaxFaults /\ faults' = faults + 1 /\ Gone

Next ==
  \/ Launch \/ Loaded \/ Write \/ SaveReturns
  \/ ApplyCalibrationDelta \/ ReanchorRoom \/ DisarmChaperoneAndPersist \/ LatchUnsafe
  \/ RecenterWhileAway \/ FinishCalibration \/ Correct \/ SaveProfileFieldEdit \/ SaveSetting
  \/ LoadChaperoneBounds \/ ClearSavedProfile \/ PersistenceTick \/ Quit \/ ShutDown \/ Crash

Spec == Init /\ [][Next]_vars

(* A running overlay finishes a save it began and keeps ticking, whatever   *)
(* else its thread does between two ticks.                                  *)
FairSpec ==
  Spec /\ WF_vars(Loaded \/ Write \/ SaveReturns \/ ShutDown) /\ SF_vars(PersistenceTick)

-----------------------------------------------------------------------------
(* Properties.                                                              *)

ConfigType ==
  [universe : {0} \cup Universes, revision : Nat, users : BOOLEAN, room : {0} \cup Universes]
SettingsType ==
  [here : BOOLEAN, revision : Nat, users : BOOLEAN, room : {0} \cup Universes]

RecordsTypeOK == config \in ConfigType /\ settings \in SettingsType

ValuesTypeOK ==
  /\ universe \in Universes /\ profile \in {0} \cup Universes /\ room \in {0} \cup Universes
  /\ configState \in RecordLoadState /\ settingsState \in RecordLoadState
  /\ revision \in Nat /\ quietAge \in Nat /\ dirtyAge \in Nat
  /\ todo \in {<<>>, <<"config">>, <<"settings">>, <<"config", "settings">>, <<"clear">>}
  /\ failed \subseteq {"config", "settings"} /\ faults \in Nat /\ unread \in Nat

FlagsTypeOK ==
  /\ alive \in BOOLEAN /\ users \in BOOLEAN /\ legacyAtLoad \in BOOLEAN
  /\ migrationPending \in BOOLEAN /\ coupled \in BOOLEAN
  /\ profileDirty \in BOOLEAN /\ settingsDirty \in BOOLEAN /\ relatched \in BOOLEAN

(* Values are of their types, and the revision of a running overlay is not  *)
(* the 0 that a reader takes for no revision.                               *)
TypeOK == RecordsTypeOK /\ ValuesTypeOK /\ FlagsTypeOK /\ (alive => revision # 0)

(* Every launch so far could read both records, and none set the migration   *)
(* latch of a Config that its rewrite had already given a revision.          *)
Undisturbed == unread = 0 /\ ~relatched

(* While Undisturbed, the overlay never holds a room of one universe beside a *)
(* calibration of another: whatever write failed or was cut off by a crash,  *)
(* the next launch gives the room up rather than restore it onto a playspace *)
(* it was not captured in.                                                  *)
RoomMatchesCalibration == Undisturbed /\ profile # 0 /\ room # 0 => room = profile

(* The two records on disk are told apart by their revisions.              *)
Mismatched == RevisionMismatch(LoadState(FALSE, config.universe # 0), settings.revision)

StaleRoomOnDisk == alive /\ Mismatched /\ settings.room \notin {0, profile}

(* While Undisturbed, a room on disk that a coupled write left behind stays  *)
(* recognisable until Settings is written: no write of Config, and no        *)
(* clearing of it, makes it look current again.                             *)
StaleRoomStaysMarked ==
  [][Undisturbed /\ StaleRoomOnDisk /\ settings' = settings => Mismatched']_vars

(* PersistencePlan.h: "A chaperone captured before a universe rebase must    *)
(* not be restored onto the rebased playspace".                             *)
NoOlderRoom == profile # 0 /\ room # 0 => room >= profile

(* What a launch that can read both records takes the settings from.       *)
UsersSettings == IF settings.here THEN settings.users ELSE config.users

(* The user's settings, once in the registry, are what every later launch   *)
(* finds there: in Config until Settings has them, whatever fails while they *)
(* move and whatever a launch could not read.                               *)
UsersSettingsKept == [][UsersSettings => UsersSettings']_vars

(* With nothing dirty and both records readable, the registry holds what    *)
(* the overlay shows.                                                       *)
CleanMeansSaved ==
  Idle /\ "Unreadable" \notin {configState, settingsState} =>
    /\ profileDirty \/ config.universe = profile
    /\ settingsDirty \/ settings.room = room

(* A changed record is written although changes keep coming: the ceiling on *)
(* the debounce, the retries, and no write held back for ever.              *)
ChangesReachDisk ==
  []<>(alive /\ HasDirty => "Unreadable" \in {configState, settingsState})

-----------------------------------------------------------------------------
(* The inductive invariant behind RoomMatchesCalibration and                *)
(* StaleRoomStaysMarked, proved in PersistenceProof.                        *)

(* The migration latch is set only while Config still is of an older release. *)
MigrationOnlyOfOldConfig == migrationPending => config.revision = 0

(* On disk: Settings is never ahead of a Config with a revision, and two     *)
(* records that go together hold a room of the calibration's universe.      *)
DiskPaired ==
  /\ config.universe = 0 => config.revision = 0
  /\ config.revision # 0 => settings.revision <= config.revision
  /\ ~settings.here => settings.revision = 0 /\ settings.room = 0
  /\ config.universe # 0 /\ ~Mismatched =>
       (IF settings.here THEN settings.room ELSE config.room) \in {0, config.universe}

(* In memory: the room is of the calibration's universe, and so is the room  *)
(* on disk unless Settings is due to be written.                            *)
MemoryPaired ==
  /\ profile # 0 => room \in {0, profile}
  /\ profile # 0 /\ settings.room \notin {0, profile} => settingsDirty
  /\ profile # 0 /\ settings.revision = revision => settings.room \in {0, profile}
  /\ config.universe # 0 => profile # 0
  /\ config.universe # 0 /\ config.revision = revision => profile = config.universe
  /\ config.universe # 0 /\ config.revision = 0 /\ revision = 1 => profile = config.universe

(* The revision in memory is ahead of the one on disk only while a coupled   *)
(* change still has its Config to write.                                    *)
RevisionsOrdered ==
  /\ config.revision <= revision /\ settings.revision <= revision
  /\ config.revision \notin {0, revision} => coupled /\ profileDirty
  /\ profileDirty => profile # 0

(* How far the save under way has come.                                     *)
SaveInOrder ==
  /\ task = "none" => todo = <<>>
  /\ todo \notin {<<>>, <<"settings">>} => profile # 0
  /\ todo = <<"settings">> => ~profileDirty \/ ~coupled
  /\ task \in {"tick", "finish", "latch"} /\ failed = {} /\ profileDirty =>
       todo \in {<<"config">>, <<"config", "settings">>}
  /\ todo = <<"clear">> => task = "clear"
  /\ task = "clear" => ~settingsDirty /\ todo \in {<<>>, <<"clear">>}
  /\ task = "clear" /\ todo = <<>> /\ failed = {} => config.universe = 0
  /\ task \in {"clear", "flush"} => profile # 0
  /\ task = "flush" /\ todo = <<>> /\ failed = {} => ~settingsDirty
  /\ todo = <<"config">> => task # "flush"
  /\ task = "switch off" => profile \in {0, universe}

PairedInv ==
  /\ ~alive => profile = 0 /\ ~migrationPending /\ todo = <<>>
  /\ Undisturbed =>
       /\ DiskPaired /\ MigrationOnlyOfOldConfig
       /\ alive => MemoryPaired /\ RevisionsOrdered /\ SaveInOrder

-----------------------------------------------------------------------------
(* The inductive invariant behind CleanMeansSaved.                          *)

(* The saves under way whose return still has something to set right.       *)
Clearing == task = "clear" /\ todo = <<>> /\ failed = {}
SavingRoom == task = "room" /\ (todo # <<>> \/ failed # {})

ProfileKept ==
  configState # "Unreadable" => profileDirty \/ config.universe = profile \/ Clearing

RoomKept ==
  "Unreadable" \notin {configState, settingsState} =>
    settingsDirty \/ settings.room = room \/ SavingRoom

SavesNamed ==
  /\ todo = <<"clear">> => task = "clear" /\ failed = {}
  /\ task = "clear" => todo \in {<<>>, <<"clear">>}
  /\ Clearing => config.universe = 0
  /\ task = "room" => todo \in {<<>>, <<"settings">>, <<"config", "settings">>}

SavedInv ==
  /\ ~settings.here => settings.room = 0
  /\ alive => ProfileKept /\ RoomKept /\ SavesNamed

(* The one behind UsersSettingsKept.  On disk: only a Config of an older     *)
(* release holds settings, and beside one they are the user's.              *)
OldConfigHasUsers ==
  /\ config.users => config.universe # 0 /\ config.revision = 0
  /\ config.universe # 0 /\ config.revision = 0 => UsersSettings

(* In memory: the only copy waits for its migration, and an overlay that may *)
(* write Settings has the user's.  A first setting that fails is taken back *)
(* only where the registry had none.                                        *)
UsersInMemory ==
  /\ ~settings.here /\ configState # "Unreadable" /\ config.users => migrationPending
  /\ migrationPending => legacyAtLoad
  /\ GateSettingsWrite /\ UsersSettings => users
  /\ GateSettingsWrite /\ legacyAtLoad => users /\ task # "first setting"
  /\ todo # <<>> => "settings" \notin failed
  /\ GateSettingsWrite /\ task = "first setting" /\ (todo # <<>> \/ "settings" \in failed) =>
       ~UsersSettings

UsersInv ==
  /\ OldConfigHasUsers
  /\ alive => UsersInMemory

=============================================================================
