-------------------------- MODULE PersistenceProof --------------------------
(* Proofs about Persistence, for every debounce, every number of universes, *)
(* revisions, failed writes, crashes and unreadable records.                *)
EXTENDS Persistence, FiniteSetTheorems, TLAPS

SavesType == {<<>>, <<"config">>, <<"settings">>, <<"config", "settings">>, <<"clear">>}

(* The heads and tails of the saves there are.                              *)
LEMMA Saves ==
  /\ \A t \in SavesType : t # <<>> => Tail(t) \in SavesType
  /\ Head(<<"config">>) = "config" /\ Tail(<<"config">>) = <<>>
  /\ Head(<<"settings">>) = "settings" /\ Tail(<<"settings">>) = <<>>
  /\ Head(<<"config", "settings">>) = "config"
  /\ Tail(<<"config", "settings">>) = <<"settings">>
  /\ Head(<<"clear">>) = "clear" /\ Tail(<<"clear">>) = <<>>
  <1>1. /\ Head(<<"config">>) = "config" /\ Tail(<<"config">>) = <<>>
        /\ Head(<<"settings">>) = "settings" /\ Tail(<<"settings">>) = <<>>
        /\ Head(<<"clear">>) = "clear" /\ Tail(<<"clear">>) = <<>>
    OBVIOUS
  <1>2. /\ Head(<<"config", "settings">>) = "config"
        /\ Tail(<<"config", "settings">>) = <<"settings">>
    OBVIOUS
  <1> QED
    BY <1>1, <1>2 DEF SavesType

-----------------------------------------------------------------------------
(* Types.                                                                   *)

(* Only three writes touch the registry.                                    *)
LEMMA RecordsWritten ==
  ASSUME [Next]_vars
  PROVE  \/ UNCHANGED diskVars
         \/ MigrateSettings \/ WriteSettingsRecord
         \/ WriteConfigRecord
  <1>1. CASE UNCHANGED vars
    BY <1>1 DEF vars
  <1>2. CASE Launch \/ Loaded \/ RecenterWhileAway \/ ShutDown \/ Crash
    BY <1>2 DEF Launch, Loaded, RecenterWhileAway, ShutDown, Crash, Gone, diskVars
  <1>3. CASE Write
    BY <1>3 DEF Write, ConfigFails, SettingsFail, diskVars
  <1>4. CASE SaveReturns
    BY <1>4 DEF SaveReturns, SavedAsIs, SettingSaved, PendingSaved, RoomSaved, SwitchedOff, Flushed,
       Cleared, Kept, diskVars
  <1>5. CASE \/ ApplyCalibrationDelta \/ ReanchorRoom \/ DisarmChaperoneAndPersist \/ LatchUnsafe
             \/ FinishCalibration \/ Correct \/ SaveProfileFieldEdit \/ SaveSetting
             \/ LoadChaperoneBounds \/ ClearSavedProfile \/ PersistenceTick \/ Quit
    BY <1>5 DEF ApplyCalibrationDelta, ReanchorRoom, DisarmChaperoneAndPersist, LatchUnsafe,
       FinishCalibration, Correct, SaveProfileFieldEdit, SaveSetting, LoadChaperoneBounds,
       ClearSavedProfile, PersistenceTick, Quit, Untouched, diskVars
  <1> QED
    BY <1>1, <1>2, <1>3, <1>4, <1>5 DEF Next

LEMMA RecordsTypeStep ==
  ASSUME TypeOK, [Next]_vars
  PROVE  RecordsTypeOK'
  <1>1. CASE UNCHANGED diskVars
    BY <1>1 DEF TypeOK, RecordsTypeOK, diskVars
  <1>2. CASE MigrateSettings \/ WriteSettingsRecord
    <2>1. /\ config' = config
          /\ settings' = [here |-> TRUE, revision |-> revision, users |-> users, room |-> room]
      BY <1>2 DEF MigrateSettings, WriteSettingsRecord, SettingsLand
    <2>2. users \in BOOLEAN /\ TRUE \in BOOLEAN
      BY Zenon DEF TypeOK, FlagsTypeOK
    <2>3. revision \in Nat /\ room \in {0} \cup Universes
      BY DEF TypeOK, ValuesTypeOK
    <2> QED
      BY <2>1, <2>2, <2>3, Zenon DEF TypeOK, RecordsTypeOK, SettingsType
  <1>3. CASE WriteConfigRecord
    <2>1. /\ settings' = settings
          /\ \/ config' = NoConfig
             \/ config' = [universe |-> profile, revision |-> revision, users |-> FALSE, room |-> 0]
      BY <1>3 DEF WriteConfigRecord, ConfigRecord, NoConfig
    <2>2. NoConfig \in ConfigType
      BY DEF NoConfig, ConfigType
    <2>3. profile \in {0} \cup Universes /\ revision \in Nat
      BY DEF TypeOK, ValuesTypeOK
    <2>4. [universe |-> profile, revision |-> revision, users |-> FALSE, room |-> 0] \in ConfigType
      BY <2>3 DEF ConfigType
    <2>5. config' \in ConfigType
      BY <2>1, <2>2, <2>4
    <2> QED
      BY <2>1, <2>5 DEF TypeOK, RecordsTypeOK
  <1> QED
    BY <1>1, <1>2, <1>3, RecordsWritten

LEMMA InitType == Init => TypeOK
  <1> SUFFICES ASSUME Init PROVE TypeOK
    OBVIOUS
  <1>1. RecordsTypeOK
    <2>1. 1 \in Universes /\ 0 \in {0} \cup Universes /\ 1 \in {0} \cup Universes
      BY BoundsAssumption DEF Universes
    <2>2. NoConfig \in ConfigType
      BY <2>1 DEF NoConfig, ConfigType
    <2>3. NoSettings \in SettingsType
      BY <2>1 DEF NoSettings, SettingsType
    <2>4. ASSUME NEW r \in {0, 1}
          PROVE  /\ [universe |-> 1, revision |-> 0, users |-> TRUE, room |-> r] \in ConfigType
                 /\ [here |-> TRUE, revision |-> 0, users |-> TRUE, room |-> r] \in SettingsType
      BY <2>1 DEF ConfigType, SettingsType
    <2>5. ASSUME NEW u \in {0, 1} PROVE [NoConfig EXCEPT !.universe = u] \in ConfigType
      BY <2>1 DEF NoConfig, ConfigType
    <2> QED
      BY <2>2, <2>3, <2>4, <2>5 DEF Init, RecordsTypeOK
  <1>2. ValuesTypeOK
    BY BoundsAssumption DEF Init, ValuesTypeOK, Universes, RecordLoadState
  <1>3. FlagsTypeOK /\ ~alive
    BY Zenon DEF Init, FlagsTypeOK
  <1> QED
    BY <1>1, <1>2, <1>3 DEF TypeOK

(* What a save that begins, and the debounce, leave in the variables.       *)
LEMMA SaveBegun ==
  ASSUME NEW for, SaveSettings(for) \/ SavePendingChanges(for)
  PROVE  /\ task' = for /\ failed' = {} /\ todo' \in {<<"config">>, <<"settings">>, <<"config", "settings">>}
         /\ profileDirty' => todo' # <<"settings">>
  BY DEF SaveSettings, SavePendingChanges, Save

LEMMA DebounceType ==
  ASSUME TypeOK, \/ MarkProfile \/ MarkSettings \/ MarkProfileAndSettings \/ StartDebounceAnew
                 \/ UNCHANGED dirtyVars
  PROVE  quietAge' \in Nat /\ dirtyAge' \in Nat
  <1>1. CASE StartDebounceAnew \/ UNCHANGED dirtyVars
    BY <1>1 DEF StartDebounceAnew, dirtyVars, TypeOK, ValuesTypeOK
  <1>2. CASE MarkProfile \/ MarkSettings \/ MarkProfileAndSettings
    <2>1. quietAge' = 0 /\ dirtyAge' \in {0, dirtyAge}
      BY <1>2 DEF MarkProfile, MarkSettings, MarkProfileAndSettings, StartDebounce
    <2> QED
      BY <2>1 DEF TypeOK, ValuesTypeOK
  <1> QED
    BY <1>1, <1>2

LEMMA PlanRevisionType ==
  ASSUME RecordsTypeOK, NEW p, NEW r \in Nat
  PROVE  PlanRevision(p, r) \in Nat /\ PlanRevision(p, r) # 0
  BY DEF RecordsTypeOK, ConfigType, PlanRevision

LEMMA TwoRecords == IsFiniteSet({"config", "settings"})
  <1>1. IsFiniteSet({"config"} \cup {"settings"})
    BY FS_Singleton, FS_AddElement
  <1>2. {"config", "settings"} = {"config"} \cup {"settings"}
    OBVIOUS
  <1> QED
    BY <1>1, <1>2

LEMMA ValuesTypeStep ==
  ASSUME TypeOK, [Next]_vars
  PROVE  ValuesTypeOK' /\ (alive' => revision' # 0)
  <1> USE DEF diskVars, stateVars, saveVars, boundVars
  <1>1. CASE UNCHANGED vars
    BY <1>1 DEF vars, dirtyVars, TypeOK, ValuesTypeOK
  <1>2. CASE Launch
    <2>1. PICK unreadable \in SUBSET {"config", "settings"}, ownerFits \in BOOLEAN :
            /\ unread' = unread + Cardinality(unreadable)
            /\ LoadProfile(unreadable, ownerFits)
      BY <1>2 DEF Launch
    <2>2. unread' \in Nat
      <3>1. Cardinality(unreadable) \in Nat
        BY <2>1, TwoRecords, FS_Subset, FS_CardinalityType
      <3> QED
        BY <2>1, <3>1 DEF TypeOK, ValuesTypeOK
    <2>3. /\ configState' \in RecordLoadState /\ settingsState' \in RecordLoadState
      BY <2>1 DEF LoadProfile, LoadState, RecordLoadState
    <2>4. profile' \in {0} \cup Universes /\ room' \in {0} \cup Universes
      BY <2>1 DEF LoadProfile, NoConfig, TypeOK, RecordsTypeOK, ConfigType, SettingsType
    <2>5. revision' \in Nat /\ revision' # 0
      <3> DEFINE p == LoadState("config" \in unreadable, config.universe # 0)
                 r == IF LoadState("settings" \in unreadable, settings.here) = "Loaded"
                      THEN settings.revision ELSE 0
      <3>1. r \in Nat
        BY DEF TypeOK, RecordsTypeOK, SettingsType
      <3>2. revision' \in {PlanRevision(p, r), PlanRevision(p, r) + 1}
        <4>1. \E b \in BOOLEAN : revision' = PlanRevision(p, r) + (IF b THEN 1 ELSE 0)
          BY <2>1, Zenon DEF LoadProfile
        <4> QED
          BY <3>1, <4>1, PlanRevisionType DEF TypeOK
      <3> HIDE DEF p, r
      <3> QED
        BY <3>1, <3>2, PlanRevisionType DEF TypeOK
    <2>6. /\ failed' = {} /\ todo' \in SavesType
          /\ quietAge' = 0 /\ dirtyAge' = 0
      BY <2>1 DEF LoadProfile, SaveSettings, Save, SavesType, StartDebounceAnew
    <2> QED
      BY <1>2, <2>2, <2>3, <2>4, <2>5, <2>6 DEF Launch, TypeOK, ValuesTypeOK, SavesType
  <1>3. CASE Loaded
    BY <1>3 DEF Loaded, Save, dirtyVars, TypeOK, ValuesTypeOK
  <1>4. CASE MigrateSettings \/ WriteSettingsRecord
    <2>1. /\ UNCHANGED <<universe, profile, room, configState, revision, quietAge, dirtyAge, failed,
                        faults, unread, alive>>
          /\ settingsState' = "Loaded" /\ todo' \in {todo, <<>>}
      BY <1>4 DEF MigrateSettings, WriteSettingsRecord, SettingsLand
    <2> QED
      BY <2>1 DEF TypeOK, ValuesTypeOK, RecordLoadState
  <1>5. CASE WriteConfigRecord
    BY <1>5, Saves DEF WriteConfigRecord, Writing, TypeOK, ValuesTypeOK, RecordLoadState, SavesType
  <1>6. CASE ConfigFails
    <2>1. todo' \in SavesType /\ failed' \subseteq {"config", "settings"}
      BY <1>6, Saves DEF ConfigFails, Writing, LeftAfterFailedConfig, TypeOK, ValuesTypeOK, SavesType
    <2>2. faults' \in Nat
      BY <1>6 DEF ConfigFails, TypeOK, ValuesTypeOK
    <2> QED
      BY <1>6, <2>1, <2>2 DEF ConfigFails, dirtyVars, TypeOK, ValuesTypeOK, SavesType
  <1>7. CASE SettingsFail
    <2>1. faults' \in Nat
      BY <1>7 DEF SettingsFail, TypeOK, ValuesTypeOK
    <2> QED
      BY <1>7, <2>1 DEF SettingsFail, dirtyVars, TypeOK, ValuesTypeOK
  <1>8. CASE SaveReturns
    <2>1. /\ UNCHANGED <<universe, configState, settingsState, revision, faults, unread>>
          /\ alive' = alive
      BY <1>8 DEF SaveReturns, SavedAsIs, SettingSaved, PendingSaved, RoomSaved, SwitchedOff, Flushed,
         Cleared, Kept
    <2>2. profile' \in {0, profile} /\ room' \in {universe, room}
      BY <1>8 DEF SaveReturns, SavedAsIs, SettingSaved, PendingSaved, RoomSaved, SwitchedOff, Flushed,
         Cleared, Kept
    <2>3. quietAge' \in Nat /\ dirtyAge' \in Nat
      <3>1. CASE Cleared
        BY <3>1 DEF Cleared, TypeOK, ValuesTypeOK
      <3>2. CASE PendingSaved
        BY <3>2 DEF PendingSaved, StartDebounceAnew, TypeOK, ValuesTypeOK
      <3>3. CASE SavedAsIs \/ SettingSaved \/ Flushed \/ RoomSaved \/ SwitchedOff
        BY <3>3, DebounceType DEF SavedAsIs, SettingSaved, Flushed, RoomSaved, SwitchedOff
      <3> QED
        BY <1>8, <3>1, <3>2, <3>3 DEF SaveReturns
    <2>4. failed' = {} /\ todo' \in SavesType
      BY <1>8 DEF SaveReturns, SavedAsIs, SettingSaved, PendingSaved, RoomSaved, SwitchedOff, Flushed,
         Cleared, Save, SaveSettings, SavesType
    <2> QED
      BY <2>1, <2>2, <2>3, <2>4 DEF TypeOK, ValuesTypeOK, SavesType
  <1>9. CASE \/ ApplyCalibrationDelta \/ ReanchorRoom \/ DisarmChaperoneAndPersist \/ LatchUnsafe
             \/ FinishCalibration \/ Correct \/ SaveProfileFieldEdit \/ SaveSetting
             \/ LoadChaperoneBounds \/ ClearSavedProfile \/ PersistenceTick \/ Quit
    <2>1. UNCHANGED <<alive, configState, settingsState, faults, unread>>
      BY <1>9 DEF ApplyCalibrationDelta, ReanchorRoom, DisarmChaperoneAndPersist, LatchUnsafe,
         FinishCalibration, Correct, SaveProfileFieldEdit, SaveSetting, LoadChaperoneBounds,
         ClearSavedProfile, PersistenceTick, Quit, Untouched
    <2>2. revision' \in {revision, revision + 1}
      BY <1>9 DEF ApplyCalibrationDelta, ReanchorRoom, DisarmChaperoneAndPersist, LatchUnsafe,
         FinishCalibration, Correct, SaveProfileFieldEdit, SaveSetting, LoadChaperoneBounds,
         ClearSavedProfile, PersistenceTick, Quit, AdvanceRevision
    <2>3. universe' \in Universes
      <3>1. CASE DisarmChaperoneAndPersist
        <4>1. universe' \in {universe, universe + 1} /\ universe' <= MaxUniverses
          BY <3>1 DEF DisarmChaperoneAndPersist
        <4> QED
          BY <4>1, BoundsAssumption DEF TypeOK, ValuesTypeOK, Universes
      <3>2. CASE ApplyCalibrationDelta \/ ReanchorRoom \/ LatchUnsafe
        BY <3>2, BoundsAssumption DEF ApplyCalibrationDelta, ReanchorRoom, LatchUnsafe, TypeOK,
           ValuesTypeOK, Universes
      <3>3. CASE \/ FinishCalibration \/ Correct \/ SaveProfileFieldEdit \/ SaveSetting
                 \/ LoadChaperoneBounds \/ ClearSavedProfile \/ PersistenceTick \/ Quit
        <4>1. universe' = universe
          BY <3>3 DEF FinishCalibration, Correct, SaveProfileFieldEdit, SaveSetting,
             LoadChaperoneBounds, ClearSavedProfile, PersistenceTick, Quit
        <4> QED
          BY <4>1 DEF TypeOK, ValuesTypeOK
      <3> QED
        BY <1>9, <3>1, <3>2, <3>3
    <2>4. profile' \in {profile, universe'} /\ room' \in {0, room, universe'}
      BY <1>9 DEF ApplyCalibrationDelta, ReanchorRoom, DisarmChaperoneAndPersist, LatchUnsafe,
         FinishCalibration, Correct, SaveProfileFieldEdit, SaveSetting, LoadChaperoneBounds,
         ClearSavedProfile, PersistenceTick, Quit
    <2>5. quietAge' \in Nat /\ dirtyAge' \in Nat
      <3>1. CASE PersistenceTick
        BY <3>1 DEF PersistenceTick, TypeOK, ValuesTypeOK
      <3>2. CASE ~PersistenceTick
        BY <1>9, <3>2, DebounceType DEF ApplyCalibrationDelta, ReanchorRoom, DisarmChaperoneAndPersist,
           LatchUnsafe, FinishCalibration, Correct, SaveProfileFieldEdit, SaveSetting,
           LoadChaperoneBounds, ClearSavedProfile, Quit
      <3> QED
        BY <3>1, <3>2
    <2>6. \/ failed' = {} /\ todo' \in SavesType
          \/ UNCHANGED saveVars
      <3>1. CASE \/ \E for \in {"room", "disarm", "setting", "first setting", "switch off", "flush"} :
                      SaveSettings(for)
                 \/ \E for \in {"latch", "finish", "tick", "quit"} : SavePendingChanges(for)
        BY <3>1, SaveBegun DEF SavesType
      <3>2. CASE \E for \in {"edit", "clear", "quit"} :
                   Save(for, <<"config">>) \/ Save(for, <<"clear">>) \/ Save(for, <<>>)
        BY <3>2 DEF Save, SavesType
      <3> QED
        BY <1>9, <3>1, <3>2 DEF ApplyCalibrationDelta, ReanchorRoom, DisarmChaperoneAndPersist,
           LatchUnsafe, FinishCalibration, Correct, SaveProfileFieldEdit, SaveSetting,
           LoadChaperoneBounds, ClearSavedProfile, PersistenceTick, Quit
    <2>7. todo' \in SavesType /\ failed' \subseteq {"config", "settings"}
      BY <2>6 DEF TypeOK, ValuesTypeOK, SavesType
    <2>8. revision' \in Nat /\ (alive => revision' # 0)
      BY <2>2 DEF TypeOK, ValuesTypeOK
    <2>9. profile' \in {0} \cup Universes /\ room' \in {0} \cup Universes
      BY <2>3, <2>4 DEF TypeOK, ValuesTypeOK
    <2>10. ValuesTypeOK'
      BY <2>1, <2>3, <2>5, <2>7, <2>8, <2>9 DEF TypeOK, ValuesTypeOK, SavesType
    <2> QED
      BY <2>1, <2>8, <2>10
  <1>10. CASE RecenterWhileAway
    BY <1>10, BoundsAssumption DEF RecenterWhileAway, dirtyVars, TypeOK, ValuesTypeOK, Universes
  <1>11. CASE ShutDown \/ Crash
    BY <1>11 DEF ShutDown, Crash, Gone, Save, StartDebounceAnew, TypeOK, ValuesTypeOK, RecordLoadState
  <1> QED
    BY <1>1, <1>2, <1>3, <1>4, <1>5, <1>6, <1>7, <1>8, <1>9, <1>10, <1>11 DEF Next, Write

LEMMA FlagsTypeStep ==
  ASSUME TypeOK, [Next]_vars
  PROVE  FlagsTypeOK'
  <1>f. /\ alive \in BOOLEAN /\ users \in BOOLEAN /\ legacyAtLoad \in BOOLEAN
        /\ migrationPending \in BOOLEAN /\ coupled \in BOOLEAN
        /\ profileDirty \in BOOLEAN /\ settingsDirty \in BOOLEAN /\ relatched \in BOOLEAN
        /\ TRUE \in BOOLEAN /\ FALSE \in BOOLEAN
    BY Zenon DEF TypeOK, FlagsTypeOK
  <1>1. CASE UNCHANGED vars
    BY <1>1, <1>f, Zenon DEF vars, dirtyVars, stateVars, boundVars, FlagsTypeOK
  <1>2. CASE Launch
    <2>1. PICK unreadable \in SUBSET {"config", "settings"}, ownerFits \in BOOLEAN :
            LoadProfile(unreadable, ownerFits)
      BY <1>2, Zenon DEF Launch
    <2>2. alive' = TRUE /\ relatched' = relatched
      BY <1>2, Zenon DEF Launch
    <2>3. /\ config.users \in BOOLEAN /\ settings.users \in BOOLEAN /\ NoConfig.users \in BOOLEAN
      BY DEF NoConfig, TypeOK, RecordsTypeOK, ConfigType, SettingsType
    <2>4. users' \in BOOLEAN
      BY <2>1, <2>3, Zenon DEF LoadProfile
    <2>6. /\ migrationPending' \in BOOLEAN /\ legacyAtLoad' \in BOOLEAN
          /\ coupled' \in BOOLEAN /\ profileDirty' \in BOOLEAN
      BY <2>1, Zenon DEF LoadProfile
    <2>7. settingsDirty' \in BOOLEAN
      BY <2>1, Zenon DEF LoadProfile
    <2> QED
      BY <2>2, <2>4, <2>6, <2>7, <1>f, Zenon DEF FlagsTypeOK
  <1>3. CASE Loaded
    <2>1. /\ UNCHANGED <<alive, users, legacyAtLoad, coupled, profileDirty, settingsDirty>>
          /\ migrationPending' \in {migrationPending, legacyAtLoad}
      BY <1>3 DEF Loaded, stateVars, dirtyVars
    <2>2. relatched' \in BOOLEAN
      BY <1>3, Zenon DEF Loaded
    <2> QED
      BY <2>1, <2>2, <1>f, Zenon DEF FlagsTypeOK
  <1>4. CASE Write
    <2>1. /\ UNCHANGED <<alive, users, legacyAtLoad, relatched>>
          /\ migrationPending' \in {migrationPending, FALSE}
          /\ profileDirty' \in {profileDirty, FALSE} /\ settingsDirty' \in {settingsDirty, FALSE}
      BY <1>4 DEF Write, MigrateSettings, WriteConfigRecord, ConfigFails, WriteSettingsRecord,
         SettingsFail, SettingsLand, stateVars, dirtyVars, boundVars
    <2>2. coupled' \in {coupled, FALSE}
      <3>1. CASE WriteSettingsRecord
        BY <3>1, <1>f, Zenon DEF WriteSettingsRecord
      <3>2. CASE SettingsFail
        BY <3>2, <1>f, Zenon DEF SettingsFail, HasDirty
      <3>3. CASE MigrateSettings \/ WriteConfigRecord \/ ConfigFails
        BY <3>3 DEF MigrateSettings, WriteConfigRecord, ConfigFails
      <3> QED
        BY <1>4, <3>1, <3>2, <3>3 DEF Write
    <2> QED
      BY <2>1, <2>2, <1>f, Zenon DEF FlagsTypeOK
  <1>5. CASE SaveReturns
    <2>1. /\ UNCHANGED <<alive, legacyAtLoad, migrationPending, relatched>>
      BY <1>5 DEF SaveReturns, SavedAsIs, SettingSaved, PendingSaved, RoomSaved, SwitchedOff, Flushed,
         Cleared, Kept, stateVars, boundVars
    <2>2. users' \in BOOLEAN
      <3>1. CASE SettingSaved
        BY <3>1, Zenon DEF SettingSaved
      <3>2. CASE ~SettingSaved
        <4>1. users' = users
          BY <1>5, <3>2 DEF SaveReturns, SavedAsIs, PendingSaved, RoomSaved, SwitchedOff, Flushed, Cleared
        <4> QED
          BY <4>1, <1>f
      <3> QED
        BY <3>1, <3>2
    <2>3. coupled' \in BOOLEAN
      <3>1. CASE PendingSaved
        BY <3>1, <1>f, Zenon DEF PendingSaved
      <3>2. CASE ~PendingSaved
        <4>1. coupled' = coupled
          BY <1>5, <3>2 DEF SaveReturns, SavedAsIs, SettingSaved, RoomSaved, SwitchedOff, Flushed, Cleared
        <4> QED
          BY <4>1, <1>f
      <3> QED
        BY <3>1, <3>2
    <2>4. /\ profileDirty' \in {profileDirty, TRUE, FALSE}
          /\ settingsDirty' \in {settingsDirty, TRUE, FALSE}
      BY <1>5 DEF SaveReturns, SavedAsIs, SettingSaved, PendingSaved, RoomSaved, SwitchedOff, Flushed,
         Cleared, MarkSettings, dirtyVars
    <2> QED
      BY <2>1, <2>2, <2>3, <2>4, <1>f, Zenon DEF FlagsTypeOK
  <1>6. CASE \/ ApplyCalibrationDelta \/ ReanchorRoom \/ DisarmChaperoneAndPersist \/ LatchUnsafe
             \/ FinishCalibration \/ Correct \/ SaveProfileFieldEdit \/ SaveSetting
             \/ LoadChaperoneBounds \/ ClearSavedProfile \/ PersistenceTick \/ Quit
    <2>1. /\ UNCHANGED <<alive, legacyAtLoad, migrationPending, relatched>>
      BY <1>6 DEF ApplyCalibrationDelta, ReanchorRoom, DisarmChaperoneAndPersist, LatchUnsafe,
         FinishCalibration, Correct, SaveProfileFieldEdit, SaveSetting, LoadChaperoneBounds,
         ClearSavedProfile, PersistenceTick, Quit, Untouched, stateVars, boundVars
    <2>2. users' \in {users, TRUE} /\ coupled' \in {coupled, TRUE}
      BY <1>6 DEF ApplyCalibrationDelta, ReanchorRoom, DisarmChaperoneAndPersist, LatchUnsafe,
         FinishCalibration, Correct, SaveProfileFieldEdit, SaveSetting, LoadChaperoneBounds,
         ClearSavedProfile, PersistenceTick, Quit, AdvanceRevision
    <2>3. /\ profileDirty' \in {profileDirty, TRUE} /\ settingsDirty' \in {settingsDirty, TRUE}
      BY <1>6 DEF ApplyCalibrationDelta, ReanchorRoom, DisarmChaperoneAndPersist, LatchUnsafe,
         FinishCalibration, Correct, SaveProfileFieldEdit, SaveSetting, LoadChaperoneBounds,
         ClearSavedProfile, PersistenceTick, Quit, MarkProfile, MarkSettings, MarkProfileAndSettings,
         dirtyVars
    <2> QED
      BY <2>1, <2>2, <2>3, <1>f, Zenon DEF FlagsTypeOK
  <1>7. CASE RecenterWhileAway
    BY <1>7, <1>f, Zenon DEF RecenterWhileAway, stateVars, dirtyVars, boundVars, FlagsTypeOK
  <1>8. CASE ShutDown \/ Crash
    BY <1>8, <1>f, Zenon DEF ShutDown, Crash, Gone, FlagsTypeOK
  <1> QED
    BY <1>1, <1>2, <1>3, <1>4, <1>5, <1>6, <1>7, <1>8 DEF Next

(* The types of Persistence's variables, and that no running overlay ever   *)
(* writes revision 0.                                                       *)
THEOREM TypeCorrect == Spec => []TypeOK
  <1>1. ASSUME TypeOK, [Next]_vars PROVE TypeOK'
    BY <1>1, RecordsTypeStep, ValuesTypeStep, FlagsTypeStep DEF TypeOK
  <1> QED
    BY <1>1, InitType, PTL DEF Spec

-----------------------------------------------------------------------------
(* The room of the calibration: PairedInv is inductive.                     *)

Paired == DiskPaired /\ MigrationOnlyOfOldConfig /\ MemoryPaired /\ RevisionsOrdered /\ SaveInOrder

(* The fields of the records, and two records that go together.            *)
LEMMA Fields ==
  ASSUME TypeOK
  PROVE  /\ config.universe \in Nat /\ config.revision \in Nat /\ config.room \in Nat
         /\ settings.revision \in Nat /\ settings.room \in Nat
         /\ universe \in Nat \ {0} /\ profile \in Nat /\ room \in Nat /\ revision \in Nat
         /\ alive => revision # 0
  BY BoundsAssumption DEF TypeOK, RecordsTypeOK, ConfigType, SettingsType, ValuesTypeOK, Universes

LEMMA MismatchedIs ==
  /\ Mismatched <=> /\ config.universe # 0
                    /\ IF config.revision # 0 THEN settings.revision # config.revision
                       ELSE settings.revision > 1
  BY DEF Mismatched, RevisionMismatch, LoadState

(* What no write of the registry changes.                                  *)
LEMMA DiskKept ==
  ASSUME DiskPaired, UNCHANGED diskVars
  PROVE  DiskPaired'
  BY DEF DiskPaired, diskVars, Mismatched, RevisionMismatch, LoadState

LEMMA Distinct ==
  /\ <<>> # <<"config">> /\ <<>> # <<"settings">> /\ <<>> # <<"config", "settings">> /\ <<>> # <<"clear">>
  /\ <<"config">> # <<"settings">> /\ <<"config">> # <<"config", "settings">> /\ <<"config">> # <<"clear">>
  /\ <<"settings">> # <<"config", "settings">> /\ <<"settings">> # <<"clear">>
  /\ <<"config", "settings">> # <<"clear">>
  OBVIOUS

LEMMA ChangeDelta ==
  ASSUME TypeOK, Paired, ApplyCalibrationDelta
  PROVE  Paired'
  <1> USE Fields DEF Paired, ApplyCalibrationDelta, Idle, Untouched, diskVars, saveVars, dirtyVars,
        AdvanceRevision, MarkProfileAndSettings
  <1>1. DiskPaired' /\ MigrationOnlyOfOldConfig'
    BY DiskKept DEF MigrationOnlyOfOldConfig
  <1>2. MemoryPaired'
    BY DEF MemoryPaired, RevisionsOrdered
  <1>3. RevisionsOrdered'
    BY DEF MemoryPaired, RevisionsOrdered
  <1>4. SaveInOrder'
    BY Distinct DEF MemoryPaired, RevisionsOrdered, SaveInOrder
  <1> QED
    BY <1>1, <1>2, <1>3, <1>4

LEMMA ChangeReanchor ==
  ASSUME TypeOK, Paired, ReanchorRoom
  PROVE  Paired'
  <1> USE Fields DEF Paired, ReanchorRoom, Idle, Untouched, diskVars, saveVars, dirtyVars,
        AdvanceRevision, MarkSettings, SaveSettings, Save
  <1>1. DiskPaired' /\ MigrationOnlyOfOldConfig'
    BY DiskKept DEF MigrationOnlyOfOldConfig
  <1>2. MemoryPaired'
    BY DEF MemoryPaired, RevisionsOrdered
  <1>3. RevisionsOrdered'
    BY DEF DiskPaired, MemoryPaired, RevisionsOrdered
  <1>4. SaveInOrder'
    BY Distinct DEF MemoryPaired, RevisionsOrdered, SaveInOrder
  <1> QED
    BY <1>1, <1>2, <1>3, <1>4

LEMMA ChangeDisarm ==
  ASSUME TypeOK, Paired, DisarmChaperoneAndPersist
  PROVE  Paired'
  <1> USE Fields DEF Paired, DisarmChaperoneAndPersist, Idle, Untouched, diskVars, saveVars, dirtyVars,
        MarkSettings, SaveSettings, Save
  <1>1. DiskPaired' /\ MigrationOnlyOfOldConfig'
    BY DiskKept DEF MigrationOnlyOfOldConfig
  <1>2. MemoryPaired'
    BY DEF MemoryPaired, RevisionsOrdered
  <1>3. RevisionsOrdered'
    BY DEF MemoryPaired, RevisionsOrdered
  <1>4. SaveInOrder'
    BY Distinct DEF MemoryPaired, RevisionsOrdered, SaveInOrder
  <1> QED
    BY <1>1, <1>2, <1>3, <1>4

LEMMA ChangeLatch ==
  ASSUME TypeOK, Paired, LatchUnsafe
  PROVE  Paired'
  <1> USE Fields DEF Paired, LatchUnsafe, Idle, Untouched, diskVars, saveVars, dirtyVars,
        MarkProfile, MarkProfileAndSettings, SavePendingChanges, SaveSettings, Save
  <1>1. DiskPaired' /\ MigrationOnlyOfOldConfig'
    BY DiskKept DEF MigrationOnlyOfOldConfig
  <1>2. MemoryPaired'
    BY DEF MemoryPaired, RevisionsOrdered
  <1>3. RevisionsOrdered'
    BY DEF MemoryPaired, RevisionsOrdered
  <1>4. SaveInOrder'
    BY Distinct DEF MemoryPaired, RevisionsOrdered, SaveInOrder
  <1> QED
    BY <1>1, <1>2, <1>3, <1>4

LEMMA ChangeFinish ==
  ASSUME TypeOK, Paired, FinishCalibration
  PROVE  Paired'
  <1> USE Fields DEF Paired, FinishCalibration, Idle, Untouched, diskVars, saveVars, dirtyVars,
        AdvanceRevision, MarkProfileAndSettings, SavePendingChanges, SaveSettings, Save
  <1>1. DiskPaired' /\ MigrationOnlyOfOldConfig'
    BY DiskKept DEF MigrationOnlyOfOldConfig
  <1>2. MemoryPaired'
    BY DEF MemoryPaired, RevisionsOrdered
  <1>3. RevisionsOrdered'
    BY DEF MemoryPaired, RevisionsOrdered
  <1>4. SaveInOrder'
    BY Distinct DEF MemoryPaired, RevisionsOrdered, SaveInOrder
  <1> QED
    BY <1>1, <1>2, <1>3, <1>4

LEMMA ChangeCorrect ==
  ASSUME TypeOK, Paired, Correct
  PROVE  Paired'
  <1> USE Fields DEF Paired, Correct, Idle, Untouched, diskVars, saveVars, dirtyVars,
        MarkProfile, MarkProfileAndSettings
  <1>1. DiskPaired' /\ MigrationOnlyOfOldConfig'
    BY DiskKept DEF MigrationOnlyOfOldConfig
  <1>2. MemoryPaired'
    BY DEF MemoryPaired, RevisionsOrdered
  <1>3. RevisionsOrdered'
    BY DEF MemoryPaired, RevisionsOrdered
  <1>4. SaveInOrder'
    BY Distinct DEF MemoryPaired, RevisionsOrdered, SaveInOrder
  <1> QED
    BY <1>1, <1>2, <1>3, <1>4

LEMMA ChangeField ==
  ASSUME TypeOK, Paired, SaveProfileFieldEdit
  PROVE  Paired'
  <1> USE Fields DEF Paired, SaveProfileFieldEdit, Idle, Untouched, diskVars, saveVars, dirtyVars,
        Save
  <1>1. DiskPaired' /\ MigrationOnlyOfOldConfig'
    BY DiskKept DEF MigrationOnlyOfOldConfig
  <1>2. MemoryPaired'
    BY DEF MemoryPaired, RevisionsOrdered
  <1>3. RevisionsOrdered'
    BY DEF MemoryPaired, RevisionsOrdered
  <1>4. SaveInOrder'
    BY Distinct DEF MemoryPaired, RevisionsOrdered, SaveInOrder
  <1> QED
    BY <1>1, <1>2, <1>3, <1>4

LEMMA ChangeSetting ==
  ASSUME TypeOK, Paired, SaveSetting
  PROVE  Paired'
  <1> USE Fields DEF Paired, SaveSetting, Idle, Untouched, diskVars, saveVars, dirtyVars,
        SaveSettings, Save
  <1>1. DiskPaired' /\ MigrationOnlyOfOldConfig'
    BY DiskKept DEF MigrationOnlyOfOldConfig
  <1>2. MemoryPaired'
    BY DEF MemoryPaired, RevisionsOrdered
  <1>3. RevisionsOrdered'
    BY DEF MemoryPaired, RevisionsOrdered
  <1>4. SaveInOrder'
    BY Distinct DEF MemoryPaired, RevisionsOrdered, SaveInOrder
  <1> QED
    BY <1>1, <1>2, <1>3, <1>4

LEMMA ChangeBounds ==
  ASSUME TypeOK, Paired, LoadChaperoneBounds
  PROVE  Paired'
  <1> USE Fields DEF Paired, LoadChaperoneBounds, Idle, Untouched, diskVars, saveVars, dirtyVars,
        MarkSettings, SaveSettings, Save
  <1>1. DiskPaired' /\ MigrationOnlyOfOldConfig'
    BY DiskKept DEF MigrationOnlyOfOldConfig
  <1>2. MemoryPaired'
    BY DEF MemoryPaired, RevisionsOrdered
  <1>3. RevisionsOrdered'
    BY DEF MemoryPaired, RevisionsOrdered
  <1>4. SaveInOrder'
    <2>1. CASE room # 0
      BY <2>1, Distinct DEF MemoryPaired, RevisionsOrdered, SaveInOrder
    <2>2. CASE room = 0
      BY <2>2, Distinct DEF MemoryPaired, RevisionsOrdered, SaveInOrder
    <2> QED
      BY <2>1, <2>2
  <1> QED
    BY <1>1, <1>2, <1>3, <1>4

LEMMA ChangeClear ==
  ASSUME TypeOK, Paired, ClearSavedProfile
  PROVE  Paired'
  <1> USE Fields DEF Paired, ClearSavedProfile, Idle, Untouched, diskVars, saveVars, dirtyVars,
        SaveSettings, Save
  <1>1. DiskPaired' /\ MigrationOnlyOfOldConfig'
    BY DiskKept DEF MigrationOnlyOfOldConfig
  <1>2. MemoryPaired'
    BY DEF MemoryPaired, RevisionsOrdered
  <1>3. RevisionsOrdered'
    BY DEF MemoryPaired, RevisionsOrdered
  <1>4. SaveInOrder'
    BY Distinct DEF MemoryPaired, RevisionsOrdered, SaveInOrder
  <1> QED
    BY <1>1, <1>2, <1>3, <1>4

LEMMA ChangeTick ==
  ASSUME TypeOK, Paired, PersistenceTick
  PROVE  Paired'
  <1> USE Fields DEF Paired, PersistenceTick, Idle, Untouched, diskVars, saveVars, dirtyVars, HasDirty,
        SavePendingChanges, SaveSettings, Save
  <1>1. DiskPaired' /\ MigrationOnlyOfOldConfig'
    BY DiskKept DEF MigrationOnlyOfOldConfig
  <1>2. MemoryPaired'
    BY DEF MemoryPaired, RevisionsOrdered
  <1>3. RevisionsOrdered'
    BY DEF MemoryPaired, RevisionsOrdered
  <1>4. SaveInOrder'
    BY Distinct DEF MemoryPaired, RevisionsOrdered, SaveInOrder
  <1> QED
    BY <1>1, <1>2, <1>3, <1>4

LEMMA ChangeQuit ==
  ASSUME TypeOK, Paired, Quit
  PROVE  Paired'
  <1> USE Fields DEF Paired, Quit, Idle, Untouched, diskVars, saveVars, dirtyVars,
        HasDirty, SavePendingChanges, SaveSettings, Save
  <1>1. DiskPaired' /\ MigrationOnlyOfOldConfig'
    BY DiskKept DEF MigrationOnlyOfOldConfig
  <1>2. MemoryPaired'
    BY DEF MemoryPaired, RevisionsOrdered
  <1>3. RevisionsOrdered'
    BY DEF MemoryPaired, RevisionsOrdered
  <1>4. SaveInOrder'
    BY Distinct DEF MemoryPaired, RevisionsOrdered, SaveInOrder
  <1> QED
    BY <1>1, <1>2, <1>3, <1>4

LEMMA ReturnSavedAsIs ==
  ASSUME TypeOK, Paired, SavedAsIs
  PROVE  Paired'
  <1> USE Fields DEF Paired, SavedAsIs, Returned, Kept, diskVars, stateVars, saveVars, dirtyVars, Save
  <1>1. DiskPaired' /\ MigrationOnlyOfOldConfig'
    BY DiskKept DEF MigrationOnlyOfOldConfig
  <1>2. MemoryPaired'
    BY DEF DiskPaired, MemoryPaired, RevisionsOrdered, SaveInOrder
  <1>3. RevisionsOrdered'
    BY Distinct DEF DiskPaired, MemoryPaired, RevisionsOrdered, SaveInOrder
  <1>4. SaveInOrder'
    BY Distinct DEF MemoryPaired, RevisionsOrdered, SaveInOrder
  <1> QED
    BY <1>1, <1>2, <1>3, <1>4

LEMMA ReturnSettingSaved ==
  ASSUME TypeOK, Paired, SettingSaved
  PROVE  Paired'
  <1> USE Fields DEF Paired, SettingSaved, Returned, Kept, diskVars, stateVars, saveVars, dirtyVars, Save
  <1>1. DiskPaired' /\ MigrationOnlyOfOldConfig'
    BY DiskKept DEF MigrationOnlyOfOldConfig
  <1>2. MemoryPaired'
    BY DEF DiskPaired, MemoryPaired, RevisionsOrdered, SaveInOrder
  <1>3. RevisionsOrdered'
    BY Distinct DEF DiskPaired, MemoryPaired, RevisionsOrdered, SaveInOrder
  <1>4. SaveInOrder'
    BY Distinct DEF MemoryPaired, RevisionsOrdered, SaveInOrder
  <1> QED
    BY <1>1, <1>2, <1>3, <1>4

LEMMA ReturnPendingSaved ==
  ASSUME TypeOK, Paired, PendingSaved
  PROVE  Paired'
  <1> USE Fields DEF Paired, PendingSaved, Returned, Kept, diskVars, stateVars, saveVars, dirtyVars, Save
  <1>1. DiskPaired' /\ MigrationOnlyOfOldConfig'
    BY DiskKept DEF MigrationOnlyOfOldConfig
  <1>2. MemoryPaired'
    BY DEF DiskPaired, MemoryPaired, RevisionsOrdered, SaveInOrder
  <1>3. RevisionsOrdered'
    BY Distinct DEF DiskPaired, MemoryPaired, RevisionsOrdered, SaveInOrder
  <1>4. SaveInOrder'
    BY Distinct DEF MemoryPaired, RevisionsOrdered, SaveInOrder
  <1> QED
    BY <1>1, <1>2, <1>3, <1>4

LEMMA ReturnRoomSaved ==
  ASSUME TypeOK, Paired, RoomSaved
  PROVE  Paired'
  <1> USE Fields DEF Paired, RoomSaved, Returned, Kept, diskVars, stateVars, saveVars, dirtyVars, Save,
      MarkSettings
  <1>1. DiskPaired' /\ MigrationOnlyOfOldConfig'
    BY DiskKept DEF MigrationOnlyOfOldConfig
  <1>2. MemoryPaired'
    BY DEF DiskPaired, MemoryPaired, RevisionsOrdered, SaveInOrder
  <1>3. RevisionsOrdered'
    BY Distinct DEF DiskPaired, MemoryPaired, RevisionsOrdered, SaveInOrder
  <1>4. SaveInOrder'
    BY Distinct DEF MemoryPaired, RevisionsOrdered, SaveInOrder
  <1> QED
    BY <1>1, <1>2, <1>3, <1>4

LEMMA ReturnSwitchedOff ==
  ASSUME TypeOK, Paired, SwitchedOff
  PROVE  Paired'
  <1> USE Fields DEF Paired, SwitchedOff, Returned, Kept, diskVars, stateVars, saveVars, dirtyVars, Save,
      SaveSettings, MarkSettings
  <1>1. DiskPaired' /\ MigrationOnlyOfOldConfig'
    BY DiskKept DEF MigrationOnlyOfOldConfig
  <1>2. MemoryPaired'
    BY DEF DiskPaired, MemoryPaired, RevisionsOrdered, SaveInOrder
  <1>3. RevisionsOrdered'
    BY Distinct DEF DiskPaired, MemoryPaired, RevisionsOrdered, SaveInOrder
  <1>4. SaveInOrder'
    <2>1. CASE failed = {}
      <3>1. UNCHANGED <<profile, coupled, profileDirty>> /\ task' = "room"
        BY <2>1
      <3>2. profileDirty => profile # 0
        BY DEF RevisionsOrdered
      <3>3. IF profileDirty' THEN todo' = <<"config", "settings">> ELSE todo' = <<"settings">>
        BY <2>1
      <3> QED
        BY ONLY <3>1, <3>2, <3>3, Distinct DEF SaveInOrder
    <2>2. CASE failed # {}
      BY <2>2, Distinct DEF MemoryPaired, RevisionsOrdered, SaveInOrder
    <2> QED
      BY <2>1, <2>2
  <1> QED
    BY <1>1, <1>2, <1>3, <1>4

LEMMA ReturnFlushed ==
  ASSUME TypeOK, Paired, Flushed
  PROVE  Paired'
  <1> USE Fields DEF Paired, Flushed, Returned, Kept, diskVars, stateVars, saveVars, dirtyVars, Save
  <1>1. DiskPaired' /\ MigrationOnlyOfOldConfig'
    BY DiskKept DEF MigrationOnlyOfOldConfig
  <1>2. MemoryPaired'
    BY DEF DiskPaired, MemoryPaired, RevisionsOrdered, SaveInOrder
  <1>3. RevisionsOrdered'
    BY Distinct DEF DiskPaired, MemoryPaired, RevisionsOrdered, SaveInOrder
  <1>4. SaveInOrder'
    BY Distinct DEF MemoryPaired, RevisionsOrdered, SaveInOrder
  <1> QED
    BY <1>1, <1>2, <1>3, <1>4

LEMMA ReturnCleared ==
  ASSUME TypeOK, Paired, Cleared
  PROVE  Paired'
  <1> USE Fields DEF Paired, Cleared, Returned, Kept, diskVars, stateVars, saveVars, dirtyVars, Save
  <1>1. DiskPaired' /\ MigrationOnlyOfOldConfig'
    BY DiskKept DEF MigrationOnlyOfOldConfig
  <1>2. MemoryPaired'
    BY DEF DiskPaired, MemoryPaired, RevisionsOrdered, SaveInOrder
  <1>3. RevisionsOrdered'
    BY Distinct DEF DiskPaired, MemoryPaired, RevisionsOrdered, SaveInOrder
  <1>4. SaveInOrder'
    BY Distinct DEF MemoryPaired, RevisionsOrdered, SaveInOrder
  <1> QED
    BY <1>1, <1>2, <1>3, <1>4

(* A record that is written is the one that memory holds.                   *)
LEMMA SettingsLanded ==
  ASSUME TypeOK, Paired, SettingsLand, UNCHANGED <<config, profile, room, revision, profileDirty>>,
         alive, config.revision \in {0, revision},
         config.universe # 0 /\ config.revision = 0 => revision > 1 \/ profile = config.universe
  PROVE  /\ DiskPaired' /\ MigrationOnlyOfOldConfig' /\ MemoryPaired'
         /\ UNCHANGED coupled => RevisionsOrdered'
  <1>1. /\ settings'.here /\ settings'.revision = revision /\ settings'.room = room
        /\ settingsDirty' = FALSE /\ migrationPending' = FALSE
    BY DEF SettingsLand
  <1>2. MigrationOnlyOfOldConfig'
    BY <1>1 DEF MigrationOnlyOfOldConfig
  <1>3. MemoryPaired'
    BY <1>1, Fields DEF Paired, MemoryPaired
  <1>4. UNCHANGED coupled => RevisionsOrdered'
    BY <1>1, Fields DEF Paired, RevisionsOrdered
  <1>5. DiskPaired'
    BY <1>1, Fields DEF Paired, DiskPaired, MemoryPaired, RevisionsOrdered, Mismatched,
         RevisionMismatch, LoadState
  <1> QED
    BY <1>2, <1>3, <1>4, <1>5

LEMMA MigrateStep ==
  ASSUME TypeOK, Paired, alive, MigrateSettings
  PROVE  Paired'
  <1>1. config.revision = 0
    BY DEF MigrateSettings, Paired, MigrationOnlyOfOldConfig
  <1>2. config.universe # 0 => revision > 1 \/ profile = config.universe
    BY <1>1, Fields DEF Paired, MemoryPaired
  <1>3. DiskPaired' /\ MigrationOnlyOfOldConfig' /\ MemoryPaired' /\ RevisionsOrdered'
    BY <1>1, <1>2, SettingsLanded DEF MigrateSettings
  <1>4. SaveInOrder'
    BY DEF MigrateSettings, SettingsLand, saveVars, Paired, SaveInOrder
  <1> QED
    BY <1>3, <1>4 DEF Paired

LEMMA SettingsStep ==
  ASSUME TypeOK, Paired, alive, WriteSettingsRecord
  PROVE  Paired'
  <1>1. ~profileDirty \/ ~coupled
    BY DEF WriteSettingsRecord, Paired, SaveInOrder
  <1>2. config.revision \in {0, revision}
    BY <1>1 DEF Paired, RevisionsOrdered
  <1>3. config.universe # 0 /\ config.revision = 0 => revision > 1 \/ profile = config.universe
    BY Fields DEF Paired, MemoryPaired
  <1>4. DiskPaired' /\ MigrationOnlyOfOldConfig' /\ MemoryPaired'
    BY <1>2, <1>3, SettingsLanded DEF WriteSettingsRecord
  <1>5. RevisionsOrdered'
    BY <1>2, Fields DEF WriteSettingsRecord, SettingsLand, Paired, RevisionsOrdered
  <1>6. SaveInOrder'
    BY Distinct DEF WriteSettingsRecord, SettingsLand, Paired, SaveInOrder
  <1> QED
    BY <1>4, <1>5, <1>6 DEF Paired

LEMMA ConfigStep ==
  ASSUME TypeOK, Paired, alive, WriteConfigRecord
  PROVE  Paired'
  <1>1. \/ /\ todo = <<"clear">> /\ config' = NoConfig /\ todo' = <<>>
        \/ /\ todo = <<"config">> /\ todo' = <<>>
           /\ config' = [universe |-> profile, revision |-> revision, users |-> FALSE, room |-> 0]
        \/ /\ todo = <<"config", "settings">> /\ todo' = <<"settings">>
           /\ config' = [universe |-> profile, revision |-> revision, users |-> FALSE, room |-> 0]
    BY Saves DEF WriteConfigRecord, Writing, ConfigRecord, NoConfig, TypeOK, ValuesTypeOK
  <1>2. /\ UNCHANGED <<settings, universe, alive, profile, room, revision, coupled, settingsDirty,
                      migrationPending, task, failed>>
        /\ profileDirty' = FALSE /\ ~migrationPending
    BY DEF WriteConfigRecord
  <1>3. CASE todo = <<"clear">>
    <2>1. config'.universe = 0 /\ config'.revision = 0 /\ todo' = <<>>
      BY <1>1, <1>3, Distinct DEF NoConfig
    <2>2. DiskPaired' /\ MigrationOnlyOfOldConfig'
      BY <1>2, <2>1 DEF Paired, DiskPaired, MigrationOnlyOfOldConfig, Mismatched, RevisionMismatch, LoadState
    <2>3. MemoryPaired' /\ RevisionsOrdered'
      BY <1>2, <2>1, Fields DEF Paired, MemoryPaired, RevisionsOrdered
    <2>4. SaveInOrder'
      BY <1>2, <1>3, <2>1, Distinct DEF Paired, SaveInOrder
    <2> QED
      BY <2>2, <2>3, <2>4 DEF Paired
  <1>4. CASE todo # <<"clear">>
    <2>1. /\ config'.universe = profile /\ config'.revision = revision /\ config'.room = 0
          /\ \/ todo = <<"config">> /\ todo' = <<>>
             \/ todo = <<"config", "settings">> /\ todo' = <<"settings">>
      BY <1>1, <1>4
    <2>2. profile # 0 /\ revision # 0
      BY <2>1, Distinct, Fields DEF Paired, SaveInOrder
    <2>3. DiskPaired'
      BY <1>2, <2>1, <2>2, Fields DEF Paired, DiskPaired, MemoryPaired, RevisionsOrdered, Mismatched,
         RevisionMismatch, LoadState
    <2>4. MigrationOnlyOfOldConfig' /\ MemoryPaired' /\ RevisionsOrdered'
      BY <1>2, <2>1, <2>2, Fields DEF Paired, MigrationOnlyOfOldConfig, MemoryPaired, RevisionsOrdered
    <2>5. SaveInOrder'
      BY <1>2, <2>1, <2>2, Distinct DEF Paired, SaveInOrder
    <2> QED
      BY <2>3, <2>4, <2>5 DEF Paired
  <1> QED
    BY <1>3, <1>4

LEMMA FailStep ==
  ASSUME TypeOK, Paired, alive, ConfigFails \/ SettingsFail
  PROVE  Paired'
  <1>1. /\ UNCHANGED <<diskVars, universe, alive, profile, room, revision, profileDirty,
                      settingsDirty, migrationPending, task>>
    BY DEF ConfigFails, SettingsFail, dirtyVars
  <1>2. DiskPaired' /\ MigrationOnlyOfOldConfig' /\ MemoryPaired'
    BY <1>1, DiskKept DEF Paired, MigrationOnlyOfOldConfig, MemoryPaired, diskVars
  <1>3. RevisionsOrdered'
    BY <1>1, Fields DEF ConfigFails, SettingsFail, HasDirty, Paired, RevisionsOrdered, diskVars
  <1>4. SaveInOrder'
    <2>1. CASE ConfigFails
      <3>1. failed' # {} /\ UNCHANGED coupled
        BY <2>1 DEF ConfigFails
      <3>2. \/ todo = <<"config", "settings">> /\ todo' = <<"settings">> /\ ~coupled
            \/ todo' = <<>> /\ todo # <<>>
        BY <2>1, Saves, Distinct DEF ConfigFails, Writing, LeftAfterFailedConfig, TypeOK, ValuesTypeOK
      <3> QED
        BY <1>1, <3>1, <3>2, Distinct DEF Paired, SaveInOrder, diskVars
    <2>2. CASE SettingsFail
      <3>1. failed' # {} /\ todo' = <<>> /\ todo = <<"settings">>
        BY <2>2 DEF SettingsFail
      <3> QED
        BY <1>1, <3>1, Distinct DEF Paired, SaveInOrder, diskVars
    <2> QED
      BY <2>1, <2>2
  <1> QED
    BY <1>2, <1>3, <1>4 DEF Paired

LEMMA LoadedStep ==
  ASSUME TypeOK, Paired, Loaded, ~relatched'
  PROVE  Paired'
  <1>1. /\ UNCHANGED <<diskVars, universe, alive, profile, room, revision, coupled, profileDirty,
                      settingsDirty>>
        /\ task' = "none" /\ todo' = <<>> /\ failed' = {} /\ profile' = profile
        /\ ~(migrationPending' /\ config.revision # 0)
    BY DEF Loaded, Save, dirtyVars
  <1>2. DiskPaired' /\ MigrationOnlyOfOldConfig' /\ MemoryPaired' /\ RevisionsOrdered'
    BY <1>1, DiskKept DEF Paired, MigrationOnlyOfOldConfig, MemoryPaired, RevisionsOrdered, diskVars
  <1>3. SaveInOrder'
    BY <1>1, Distinct DEF SaveInOrder
  <1> QED
    BY <1>2, <1>3 DEF Paired

(* What a launch that can read both records makes of them.                  *)
LEMMA LaunchStep ==
  ASSUME TypeOK, DiskPaired, UNCHANGED diskVars, NEW ownerFits \in BOOLEAN, LoadProfile({}, ownerFits)
  PROVE  Paired'
  <1> DEFINE armed == IF settings.here THEN settings.room ELSE IF config.universe # 0 THEN config.room ELSE 0
             first == IF config.revision # 0 THEN config.revision
                      ELSE IF settings.revision # 0 THEN settings.revision ELSE 1
  <1>1. /\ ~settings.here => settings.revision = 0 /\ settings.room = 0
        /\ config.universe = 0 => config.revision = 0
    BY DEF DiskPaired
  <1>2. /\ LoadState("config" \in {}, config.universe # 0) = (IF config.universe # 0 THEN "Loaded" ELSE "Missing")
        /\ LoadState("settings" \in {}, settings.here) = (IF settings.here THEN "Loaded" ELSE "Missing")
    BY DEF LoadState
  <1>3. profile' = config.universe
    BY <1>2 DEF LoadProfile, NoConfig
  <1>4. room' \in {0, armed} /\ (Mismatched => room' = 0)
    BY <1>1, <1>2, MismatchedIs DEF LoadProfile, NoConfig, RevisionMismatch
  <1>5. migrationPending' => config.revision = 0
    BY <1>2 DEF LoadProfile
  <1>6. profileDirty' <=> Mismatched /\ config.revision = 0
    BY <1>1, <1>2, MismatchedIs DEF LoadProfile, RevisionMismatch
  <1>7. coupled' <=> Mismatched /\ config.revision = 0
    BY <1>1, <1>2, MismatchedIs DEF LoadProfile, RevisionMismatch
  <1>8. revision' = first + (IF Mismatched /\ config.revision = 0 THEN 1 ELSE 0)
    BY <1>1, <1>2, MismatchedIs DEF LoadProfile, RevisionMismatch, PlanRevision
  <1>9. Mismatched => settingsDirty'
    BY <1>1, <1>2, MismatchedIs DEF LoadProfile, RevisionMismatch, CanRewrite
  <1>10. /\ failed' = {}
         /\ \/ task' = "load" /\ (IF profileDirty' THEN todo' = <<"config", "settings">> ELSE todo' = <<"settings">>)
            \/ task' = "none" /\ todo' = <<>>
    BY DEF LoadProfile, SaveSettings, Save
  <1>11. config' = config /\ settings' = settings
    BY DEF diskVars
  <1> HIDE DEF armed, first
  <1>12. DiskPaired' /\ MigrationOnlyOfOldConfig'
    BY <1>5, <1>11, DiskKept DEF MigrationOnlyOfOldConfig
  <1>13. MemoryPaired'
    BY <1>3, <1>4, <1>8, <1>9, <1>11, MismatchedIs, Fields DEF DiskPaired, MemoryPaired, armed, first
  <1>14. RevisionsOrdered'
    BY <1>3, <1>6, <1>7, <1>8, <1>11, MismatchedIs, Fields DEF DiskPaired, RevisionsOrdered, first
  <1>15. SaveInOrder'
    BY <1>3, <1>6, <1>10, MismatchedIs, Distinct DEF SaveInOrder
  <1> QED
    BY <1>12, <1>13, <1>14, <1>15 DEF Paired
LEMMA InitPaired == Init => PairedInv
  <1> SUFFICES ASSUME Init PROVE PairedInv
    OBVIOUS
  <1>1. ~alive /\ profile = 0 /\ ~migrationPending /\ todo = <<>>
    BY DEF Init
  <1>2. config.revision = 0 /\ settings.revision = 0 /\ (~settings.here => settings.room = 0)
    BY DEF Init, NoConfig, NoSettings
  <1>3. config.universe # 0 => (IF settings.here THEN settings.room ELSE config.room) \in {0, config.universe}
    BY DEF Init, NoConfig, NoSettings
  <1>4. DiskPaired
    BY <1>2, <1>3 DEF DiskPaired
  <1> QED
    BY <1>1, <1>4 DEF PairedInv, MigrationOnlyOfOldConfig

LEMMA ChangeStep ==
  ASSUME TypeOK, Paired,
         \/ ApplyCalibrationDelta \/ ReanchorRoom \/ DisarmChaperoneAndPersist \/ LatchUnsafe
         \/ FinishCalibration \/ Correct \/ SaveProfileFieldEdit \/ SaveSetting
         \/ LoadChaperoneBounds \/ ClearSavedProfile \/ PersistenceTick \/ Quit
  PROVE  Paired'
  BY ChangeDelta, ChangeReanchor, ChangeDisarm, ChangeLatch, ChangeFinish, ChangeCorrect, ChangeField,
     ChangeSetting, ChangeBounds, ChangeClear, ChangeTick, ChangeQuit

LEMMA ReturnStep ==
  ASSUME TypeOK, Paired, SaveReturns
  PROVE  Paired'
  BY ReturnSavedAsIs, ReturnSettingSaved, ReturnPendingSaved, ReturnRoomSaved, ReturnSwitchedOff,
     ReturnFlushed, ReturnCleared DEF SaveReturns

LEMMA PairedStep ==
  ASSUME TypeOK, PairedInv, [Next]_vars
  PROVE  PairedInv'
  <1>1. CASE UNCHANGED vars
    <2>1. UNCHANGED <<config, settings, universe, alive, profile, room, revision, coupled, profileDirty,
            settingsDirty, migrationPending, task, todo, failed, unread, relatched>>
      BY <1>1 DEF vars, diskVars, dirtyVars, saveVars, boundVars
    <2>2. DiskPaired => DiskPaired'
      BY <1>1, DiskKept DEF vars
    <2>3. MigrationOnlyOfOldConfig => MigrationOnlyOfOldConfig'
      BY <2>1 DEF MigrationOnlyOfOldConfig
    <2>4. /\ MemoryPaired => MemoryPaired'
          /\ RevisionsOrdered => RevisionsOrdered'
          /\ SaveInOrder => SaveInOrder'
      <3>1. MemoryPaired => MemoryPaired'
        BY <2>1 DEF MemoryPaired
      <3>2. RevisionsOrdered => RevisionsOrdered'
        BY <2>1 DEF RevisionsOrdered
      <3>3. SaveInOrder => SaveInOrder'
        BY <2>1 DEF SaveInOrder
      <3> QED
        BY <3>1, <3>2, <3>3
    <2>5. (Undisturbed' => Undisturbed) /\ (alive' => alive) /\ (~alive' => ~alive)
      BY <2>1 DEF Undisturbed
    <2>6. profile = 0 /\ ~migrationPending /\ todo = <<>> => profile' = 0 /\ ~migrationPending' /\ todo' = <<>>
      BY <2>1
    <2> QED
      BY <2>2, <2>3, <2>4, <2>5, <2>6 DEF PairedInv
  <1>2. CASE Launch
    <2>1. PICK unreadable \in SUBSET {"config", "settings"}, ownerFits \in BOOLEAN :
            /\ unread' = unread + Cardinality(unreadable)
            /\ LoadProfile(unreadable, ownerFits)
      BY <1>2 DEF Launch
    <2>2. alive' = TRUE /\ UNCHANGED diskVars /\ relatched' = relatched
      BY <1>2 DEF Launch
    <2>3. ASSUME Undisturbed' PROVE Paired'
      <3>1. IsFiniteSet(unreadable)
        BY <2>1, TwoRecords, FS_Subset
      <3>2. Cardinality(unreadable) \in Nat
        BY <3>1, FS_CardinalityType
      <3>3. unread = 0 /\ Cardinality(unreadable) = 0
        BY <2>1, <2>3, <3>2 DEF Undisturbed, TypeOK, ValuesTypeOK
      <3>4. unreadable = {}
        BY <3>1, <3>3, FS_EmptySet
      <3>5. DiskPaired
        BY <2>2, <2>3, <3>3 DEF PairedInv, Undisturbed
      <3> QED
        BY <2>1, <2>2, <3>4, <3>5, LaunchStep
    <2> QED
      BY <2>2, <2>3 DEF PairedInv, Paired
  <1>3. CASE RecenterWhileAway
    <2>1. /\ UNCHANGED <<diskVars, alive, profile, migrationPending, unread, relatched, config, todo>>
          /\ ~alive
      BY <1>3 DEF RecenterWhileAway, boundVars, diskVars, saveVars
    <2> QED
      BY <2>1, DiskKept DEF PairedInv, Undisturbed, MigrationOnlyOfOldConfig
  <1>4. CASE ShutDown \/ Crash
    <2>1. /\ UNCHANGED <<diskVars, unread, relatched>>
          /\ ~alive' /\ profile' = 0 /\ ~migrationPending' /\ todo' = <<>>
      BY <1>4 DEF ShutDown, Crash, Gone, Save
    <2> QED
      BY <2>1, DiskKept DEF PairedInv, Undisturbed, MigrationOnlyOfOldConfig
  <1>5. CASE \/ Loaded \/ Write \/ SaveReturns
             \/ ApplyCalibrationDelta \/ ReanchorRoom \/ DisarmChaperoneAndPersist \/ LatchUnsafe
             \/ FinishCalibration \/ Correct \/ SaveProfileFieldEdit \/ SaveSetting
             \/ LoadChaperoneBounds \/ ClearSavedProfile \/ PersistenceTick \/ Quit
    <2>1. alive
      <3>1. CASE Write
        BY <3>1 DEF Write, MigrateSettings, WriteConfigRecord, ConfigFails, WriteSettingsRecord,
           SettingsFail, Writing, PairedInv
      <3>2. CASE ~Write
        BY <1>5, <3>2 DEF Loaded, SaveReturns, SavedAsIs, SettingSaved, PendingSaved, RoomSaved,
           SwitchedOff, Flushed, Cleared, Returned, ApplyCalibrationDelta, ReanchorRoom,
           DisarmChaperoneAndPersist, LatchUnsafe, FinishCalibration, Correct, SaveProfileFieldEdit,
           SaveSetting, LoadChaperoneBounds, ClearSavedProfile, PersistenceTick, Quit, Idle
      <3> QED
        BY <3>1, <3>2
    <2>2. alive' = alive
      BY <1>5 DEF Loaded, Write, MigrateSettings, WriteConfigRecord, ConfigFails, WriteSettingsRecord,
         SettingsFail, SaveReturns, SavedAsIs, SettingSaved, PendingSaved, RoomSaved,
         SwitchedOff, Flushed, Cleared, ApplyCalibrationDelta, ReanchorRoom,
         DisarmChaperoneAndPersist, LatchUnsafe, FinishCalibration, Correct, SaveProfileFieldEdit,
         SaveSetting, LoadChaperoneBounds, ClearSavedProfile, PersistenceTick, Quit, Untouched
    <2>3. Undisturbed' => Undisturbed
      <3>1. CASE Loaded
        BY <3>1 DEF Loaded, Undisturbed
      <3>2. CASE ~Loaded
        BY <1>5, <3>2 DEF Write, MigrateSettings, WriteConfigRecord, ConfigFails, WriteSettingsRecord,
           SettingsFail, SaveReturns, SavedAsIs, SettingSaved, PendingSaved, RoomSaved,
           SwitchedOff, Flushed, Cleared, Kept, ApplyCalibrationDelta, ReanchorRoom,
           DisarmChaperoneAndPersist, LatchUnsafe, FinishCalibration, Correct, SaveProfileFieldEdit,
           SaveSetting, LoadChaperoneBounds, ClearSavedProfile, PersistenceTick, Quit, Untouched,
           boundVars, Undisturbed
      <3> QED
        BY <3>1, <3>2
    <2>4. ASSUME Paired, Undisturbed' PROVE Paired'
      <3>1. CASE Loaded
        BY <2>4, <3>1, LoadedStep DEF Undisturbed
      <3>2. CASE Write
        BY <2>1, <2>4, <3>2, MigrateStep, ConfigStep, SettingsStep, FailStep DEF Write
      <3> QED
        BY <1>5, <2>4, <3>1, <3>2, ChangeStep, ReturnStep
    <2> QED
      BY <2>1, <2>2, <2>3, <2>4 DEF PairedInv, Paired
  <1> QED
    BY <1>1, <1>2, <1>3, <1>4, <1>5 DEF Next
(* A write of Config beside a stale room that stays on disk is of a revision *)
(* the room's record does not have.                                         *)
LEMMA StaleStep ==
  ASSUME TypeOK, PairedInv, [Next]_vars, Undisturbed, StaleRoomOnDisk, settings' = settings
  PROVE  Mismatched'
  <1>1. /\ alive /\ Mismatched /\ settings.room \notin {0, profile} /\ Paired
        /\ config.universe # 0 /\ profile # 0
    BY MismatchedIs DEF StaleRoomOnDisk, PairedInv, Paired, MemoryPaired
  <1>2. settingsDirty /\ settings.revision # revision
    BY <1>1 DEF Paired, MemoryPaired
  <1>3. CASE UNCHANGED diskVars
    BY <1>1, <1>3 DEF diskVars, Mismatched, RevisionMismatch, LoadState
  <1>4. CASE MigrateSettings \/ WriteSettingsRecord
    <2>1. settings'.room = room
      BY <1>4 DEF MigrateSettings, WriteSettingsRecord, SettingsLand
    <2> QED
      BY <1>1, <2>1 DEF Paired, MemoryPaired
  <1>5. CASE WriteConfigRecord
    <2>1. Head(todo) # "clear"
      BY <1>1, <1>2, <1>5, Saves, Distinct DEF WriteConfigRecord, Writing, TypeOK,
         ValuesTypeOK, Paired, SaveInOrder
    <2>2. config'.universe = profile /\ config'.revision = revision
      BY <1>5, <2>1 DEF WriteConfigRecord, ConfigRecord, NoConfig
    <2> QED
      BY <1>1, <1>2, <2>2, Fields DEF Mismatched, RevisionMismatch, LoadState
  <1> QED
    BY <1>3, <1>4, <1>5, RecordsWritten

LEMMA PairedAlways == Spec => [](TypeOK /\ PairedInv)
  <1>1. ASSUME TypeOK, PairedInv, [Next]_vars PROVE PairedInv'
    BY <1>1, PairedStep
  <1> QED
    BY <1>1, InitPaired, TypeCorrect, PTL DEF Spec

(* Whatever writes fail and wherever a crash falls, a launch that can read    *)
(* the records never pairs a room with a calibration of another universe.   *)
THEOREM RoomStaysMatched == Spec => []RoomMatchesCalibration
  <1>1. PairedInv /\ TypeOK => RoomMatchesCalibration
    BY DEF PairedInv, MemoryPaired, RoomMatchesCalibration
  <1> QED
    BY <1>1, PairedAlways, PTL

(* No write makes a stale room on disk look current.                        *)
THEOREM StaleRoomRecognised == Spec => StaleRoomStaysMarked
  <1> DEFINE Step == Undisturbed /\ StaleRoomOnDisk /\ settings' = settings => Mismatched'
  <1>1. TypeOK /\ PairedInv /\ [Next]_vars => [Step]_vars
    BY StaleStep
  <1>2. Spec => [][Step]_vars
    BY <1>1, PairedAlways, PTL DEF Spec
  <1> QED
    BY <1>2 DEF StaleRoomStaysMarked

-----------------------------------------------------------------------------
(* What is not dirty is in the registry: SavedInv is inductive.             *)

Saved ==
  (~settings.here => settings.room = 0) /\ ProfileKept /\ RoomKept /\ SavesNamed

LEMMA SavedAtInit == Init => SavedInv
  BY DEF Init, SavedInv, NoSettings

LEMMA SavedLaunch ==
  ASSUME TypeOK, ~settings.here => settings.room = 0, UNCHANGED diskVars,
         NEW unreadable, NEW ownerFits \in BOOLEAN, LoadProfile(unreadable, ownerFits)
  PROVE  Saved'
  <1>1. config' = config /\ settings' = settings
    BY DEF diskVars
  <1>2. /\ failed' = {} /\ task' \in {"load", "none"}
        /\ todo' \in {<<>>, <<"settings">>, <<"config", "settings">>}
    BY DEF LoadProfile, SaveSettings, Save
  <1>3. SavesNamed'
    BY <1>2, Distinct DEF SavesNamed, Clearing
  <1>4. ProfileKept'
    BY <1>1 DEF LoadProfile, LoadState, NoConfig, ProfileKept
  <1>5. RoomKept'
    <2>1. SUFFICES ASSUME configState' # "Unreadable", settingsState' # "Unreadable"
                   PROVE  settingsDirty' \/ settings.room = room'
      BY <1>1 DEF RoomKept
    <2>2. /\ configState' = LoadState("config" \in unreadable, config.universe # 0)
          /\ settingsState' = LoadState("settings" \in unreadable, settings.here)
      BY DEF LoadProfile
    <2>3. CASE settingsState' = "Loaded"
      <3>1. \/ room' = settings.room
            \/ RevisionMismatch(configState', settings.revision)
            \/ settings.room # 0 /\ ~ownerFits
        <4>1. room' \in {0, settings.room}
          BY <2>2, <2>3 DEF LoadProfile
        <4>2. room' # settings.room => RevisionMismatch(configState', settings.revision) \/ ~ownerFits
          BY <2>1, <2>2, <2>3, Zenon DEF LoadProfile
        <4> QED
          BY <4>1, <4>2
      <3>2. \/ RevisionMismatch(configState', settings.revision)
            \/ (settings.room # 0 /\ ~ownerFits)
            => settingsDirty'
        BY <2>1, <2>2, <2>3 DEF LoadProfile, CanRewrite
      <3> QED
        BY <3>1, <3>2
    <2>4. CASE settingsState' = "Missing"
      <3>1. ~settings.here /\ settings.room = 0
        BY <2>2, <2>4 DEF LoadState
      <3>2. CASE configState' = "Loaded"
        <4>1. settingsDirty'
          BY <2>1, <2>2, <2>4, <3>2 DEF LoadProfile, CanRewrite, RevisionMismatch
        <4> QED
          BY <4>1
      <3>3. CASE configState' # "Loaded"
        <4>1. settingsDirty'
          BY <2>1, <2>2, <2>4, <3>3 DEF LoadProfile, CanRewrite
        <4> QED
          BY <4>1
      <3> QED
        BY <3>2, <3>3
    <2> QED
      BY <2>1, <2>2, <2>3, <2>4 DEF LoadState
  <1> QED
    BY <1>1, <1>3, <1>4, <1>5 DEF Saved

LEMMA SavedWrite ==
  ASSUME TypeOK, Saved, alive, Write
  PROVE  Saved'
  <1>1. CASE MigrateSettings \/ WriteSettingsRecord
    <2>1. settings' = [here |-> TRUE, revision |-> revision, users |-> users, room |-> room]
      BY <1>1 DEF MigrateSettings, WriteSettingsRecord, SettingsLand
    <2>2. settings'.here /\ settings'.room = room
      BY <2>1, Zenon
    <2>3. /\ room' = room
          /\ UNCHANGED <<config, profile, configState, profileDirty, task, failed>>
          /\ todo # <<>> /\ (todo' = todo \/ (todo = <<"settings">> /\ todo' = <<>>))
      BY <1>1, Distinct DEF MigrateSettings, WriteSettingsRecord, Writing, saveVars
    <2>4. SavesNamed'
      BY <2>3, Distinct DEF Saved, SavesNamed, Clearing
    <2>5. ProfileKept'
      BY <2>3, Distinct DEF Saved, ProfileKept, SavesNamed, Clearing
    <2>6. RoomKept'
      BY <2>2, <2>3 DEF RoomKept
    <2> QED
      BY <2>2, <2>4, <2>5, <2>6 DEF Saved
  <1>2. CASE WriteConfigRecord
    <2>1. \/ todo = <<"clear">> /\ config'.universe = 0 /\ todo' = <<>>
          \/ todo = <<"config">> /\ config'.universe = profile /\ todo' = <<>>
          \/ todo = <<"config", "settings">> /\ config'.universe = profile /\ todo' = <<"settings">>
      BY <1>2, Saves DEF WriteConfigRecord, Writing, ConfigRecord, NoConfig, TypeOK, ValuesTypeOK
    <2>2. /\ UNCHANGED <<settings, profile, room, settingsState, settingsDirty, task, failed>>
          /\ configState # "Unreadable"
      BY <1>2 DEF WriteConfigRecord, GateProfileWrite
    <2>3. SavesNamed'
      BY <2>1, <2>2, Distinct DEF Saved, SavesNamed, Clearing
    <2>4. ProfileKept'
      BY <2>1, <2>2, Distinct DEF Saved, ProfileKept, SavesNamed, Clearing
    <2>5. RoomKept'
      BY <2>1, <2>2, Distinct DEF Saved, RoomKept, SavingRoom, SavesNamed
    <2> QED
      BY <2>2, <2>3, <2>4, <2>5 DEF Saved
  <1>3. CASE ConfigFails \/ SettingsFail
    <2>1. /\ UNCHANGED <<config, settings, profile, room, configState, settingsState, profileDirty,
                        settingsDirty, task>>
          /\ failed' # {} /\ todo # <<>>
      BY <1>3, Distinct DEF ConfigFails, SettingsFail, Writing, diskVars, stateVars, dirtyVars
    <2>2. \/ todo' = <<>>
          \/ todo = <<"config", "settings">> /\ todo' = <<"settings">>
      BY <1>3, Saves, Distinct DEF ConfigFails, SettingsFail, Writing, LeftAfterFailedConfig,
         TypeOK, ValuesTypeOK
    <2>3. SavesNamed' /\ ProfileKept' /\ RoomKept'
      BY <2>1, <2>2, Distinct DEF Saved, SavesNamed, ProfileKept, RoomKept, SavingRoom, Clearing
    <2> QED
      BY <2>1, <2>3 DEF Saved
  <1> QED
    BY <1>1, <1>2, <1>3 DEF Write

LEMMA SavedReturn ==
  ASSUME TypeOK, Saved, Loaded \/ SaveReturns
  PROVE  Saved'
  <1>1. /\ UNCHANGED <<config, settings, configState, settingsState>>
        /\ todo = <<>>
    BY DEF Loaded, SaveReturns, SavedAsIs, SettingSaved, PendingSaved, RoomSaved, SwitchedOff, Flushed,
       Cleared, Kept, Returned, diskVars, stateVars
  <1>2. CASE Loaded \/ SavedAsIs \/ SettingSaved \/ PendingSaved
    <2>1. /\ task \notin {"clear", "room"} /\ task' = "none" /\ todo' = <<>>
          /\ UNCHANGED <<profile, room, profileDirty, settingsDirty>>
      BY <1>2 DEF Loaded, SavedAsIs, SettingSaved, PendingSaved, Returned, Save, dirtyVars
    <2> QED
      BY <1>1, <2>1, Distinct DEF Saved, SavesNamed, ProfileKept, RoomKept, SavingRoom, Clearing
  <1>3. CASE RoomSaved
    <2>1. /\ task = "room" /\ task' = "none" /\ todo' = <<>>
          /\ UNCHANGED <<profile, room, profileDirty>>
          /\ failed = {} => settingsDirty' = settingsDirty
          /\ failed # {} => settingsDirty' = TRUE
      BY <1>3 DEF RoomSaved, Returned, MarkSettings, Save, dirtyVars
    <2> QED
      BY <1>1, <2>1, Distinct DEF Saved, SavesNamed, ProfileKept, RoomKept, SavingRoom, Clearing
  <1>4. CASE SwitchedOff
    <2>1. /\ task = "switch off" /\ UNCHANGED <<profile, profileDirty>>
          /\ \/ task' = "room" /\ todo' \in {<<"settings">>, <<"config", "settings">>}
             \/ task' = "none" /\ todo' = <<>> /\ settingsDirty' = TRUE /\ room' = room
      BY <1>4 DEF SwitchedOff, Returned, MarkSettings, SaveSettings, Save, dirtyVars
    <2> QED
      BY <1>1, <2>1, Distinct DEF Saved, SavesNamed, ProfileKept, RoomKept, SavingRoom, Clearing
  <1>5. CASE Flushed
    <2>1. /\ task = "flush" /\ UNCHANGED <<profile, room, profileDirty, settingsDirty>>
          /\ \/ task' = "clear" /\ todo' = <<"clear">> /\ failed' = {}
             \/ task' = "none" /\ todo' = <<>>
      BY <1>5 DEF Flushed, Returned, Save, dirtyVars
    <2> QED
      BY <1>1, <2>1, Distinct DEF Saved, SavesNamed, ProfileKept, RoomKept, SavingRoom, Clearing
  <1>6. CASE Cleared
    <2>1. /\ task = "clear" /\ task' = "none" /\ todo' = <<>>
          /\ UNCHANGED <<room, settingsDirty>>
          /\ failed = {} => profile' = 0
          /\ failed # {} => UNCHANGED <<profile, profileDirty>>
      BY <1>6 DEF Cleared, Returned, Save
    <2> QED
      BY <1>1, <2>1, Distinct DEF Saved, SavesNamed, ProfileKept, RoomKept, SavingRoom, Clearing
  <1> QED
    BY <1>2, <1>3, <1>4, <1>5, <1>6 DEF SaveReturns

LEMMA SavedChange ==
  ASSUME TypeOK, Saved,
         \/ ApplyCalibrationDelta \/ ReanchorRoom \/ DisarmChaperoneAndPersist \/ LatchUnsafe
         \/ FinishCalibration \/ Correct \/ SaveProfileFieldEdit \/ SaveSetting
         \/ LoadChaperoneBounds \/ ClearSavedProfile \/ PersistenceTick \/ Quit
  PROVE  Saved'
  <1>1. /\ UNCHANGED <<config, settings, configState, settingsState>>
        /\ task = "none"
    BY DEF ApplyCalibrationDelta, ReanchorRoom, DisarmChaperoneAndPersist, LatchUnsafe,
       FinishCalibration, Correct, SaveProfileFieldEdit, SaveSetting,
       LoadChaperoneBounds, ClearSavedProfile, PersistenceTick, Quit, Idle, Untouched, diskVars,
       stateVars
  <1>2. /\ profileDirty' = TRUE \/ UNCHANGED <<profile, profileDirty>>
        /\ \/ settingsDirty' = TRUE \/ UNCHANGED <<room, settingsDirty>>
           \/ task' = "room" /\ todo' # <<>>
    <2>1. CASE ApplyCalibrationDelta \/ LatchUnsafe \/ FinishCalibration \/ Correct
      BY <2>1 DEF ApplyCalibrationDelta, LatchUnsafe, FinishCalibration, Correct, MarkProfile,
         MarkProfileAndSettings, Untouched
    <2>2. CASE ReanchorRoom \/ DisarmChaperoneAndPersist
      BY <2>2 DEF ReanchorRoom, DisarmChaperoneAndPersist, MarkSettings
    <2>3. CASE LoadChaperoneBounds
      BY <2>3, SaveBegun, Distinct DEF LoadChaperoneBounds, MarkSettings, dirtyVars
    <2>4. CASE SaveProfileFieldEdit \/ SaveSetting \/ ClearSavedProfile \/ PersistenceTick \/ Quit
      BY <2>4 DEF SaveProfileFieldEdit, SaveSetting, ClearSavedProfile, PersistenceTick, Quit, dirtyVars
    <2> QED
      BY <2>1, <2>2, <2>3, <2>4
  <1>3. \/ UNCHANGED saveVars
        \/ /\ task' \notin {"clear", "room"} /\ todo' # <<"clear">>
        \/ task' = "room" /\ todo' \in {<<"settings">>, <<"config", "settings">>}
        \/ task' = "clear" /\ todo' = <<"clear">> /\ failed' = {}
    <2>1. CASE ApplyCalibrationDelta \/ Correct
      BY <2>1 DEF ApplyCalibrationDelta, Correct
    <2>2. CASE LatchUnsafe \/ FinishCalibration \/ PersistenceTick
      BY <2>2, SaveBegun, Distinct DEF LatchUnsafe, FinishCalibration, PersistenceTick
    <2>3. CASE ReanchorRoom \/ DisarmChaperoneAndPersist \/ SaveSetting \/ LoadChaperoneBounds
      BY <2>3, Distinct DEF ReanchorRoom, DisarmChaperoneAndPersist, SaveSetting, LoadChaperoneBounds,
         SaveSettings, Save
    <2>4. CASE SaveProfileFieldEdit
      BY <2>4, Distinct DEF SaveProfileFieldEdit, Save
    <2>5. CASE ClearSavedProfile
      BY <2>5, Distinct DEF ClearSavedProfile, SaveSettings, Save
    <2>6. CASE Quit
      BY <2>6, Distinct DEF Quit, SavePendingChanges, SaveSettings, Save
    <2> QED
      BY <2>1, <2>2, <2>3, <2>4, <2>5, <2>6
  <1>4. SavesNamed'
    BY <1>1, <1>3, Distinct DEF Saved, SavesNamed, Clearing, saveVars
  <1>5. ProfileKept'
    BY <1>1, <1>2 DEF Saved, ProfileKept, Clearing
  <1>6. RoomKept'
    BY <1>1, <1>2 DEF Saved, RoomKept, SavingRoom
  <1> QED
    BY <1>1, <1>4, <1>5, <1>6 DEF Saved

LEMMA SavedStep ==
  ASSUME TypeOK, PairedInv, SavedInv, [Next]_vars
  PROVE  SavedInv'
  <1>1. CASE UNCHANGED vars
    BY <1>1 DEF vars, diskVars, stateVars, dirtyVars, saveVars, SavedInv, ProfileKept, RoomKept,
       SavesNamed, Clearing, SavingRoom
  <1>2. CASE Launch
    <2>1. PICK unreadable \in SUBSET {"config", "settings"}, ownerFits \in BOOLEAN :
            LoadProfile(unreadable, ownerFits)
      BY <1>2 DEF Launch
    <2> QED
      BY <1>2, <2>1, SavedLaunch DEF Launch, SavedInv, Saved
  <1>3. CASE RecenterWhileAway \/ ShutDown \/ Crash
    BY <1>3 DEF RecenterWhileAway, ShutDown, Crash, Gone, diskVars, SavedInv
  <1>4. CASE Write
    <2>1. alive
      BY <1>4, Distinct DEF Write, MigrateSettings, WriteConfigRecord, ConfigFails,
         WriteSettingsRecord, SettingsFail, Writing, PairedInv
    <2> QED
      BY <1>4, <2>1, SavedWrite DEF SavedInv, Saved
  <1>5. CASE Loaded \/ SaveReturns
    BY <1>5, SavedReturn DEF Loaded, SaveReturns, SavedAsIs, SettingSaved, PendingSaved, RoomSaved,
       SwitchedOff, Flushed, Cleared, Returned, SavedInv, Saved
  <1>6. CASE \/ ApplyCalibrationDelta \/ ReanchorRoom \/ DisarmChaperoneAndPersist \/ LatchUnsafe
             \/ FinishCalibration \/ Correct \/ SaveProfileFieldEdit \/ SaveSetting
             \/ LoadChaperoneBounds \/ ClearSavedProfile \/ PersistenceTick \/ Quit
    <2>1. alive
      BY <1>6 DEF ApplyCalibrationDelta, ReanchorRoom, DisarmChaperoneAndPersist, LatchUnsafe,
         FinishCalibration, Correct, SaveProfileFieldEdit, SaveSetting, LoadChaperoneBounds,
         ClearSavedProfile, PersistenceTick, Quit, Idle
    <2> QED
      BY <1>6, <2>1, SavedChange DEF SavedInv, Saved
  <1> QED
    BY <1>1, <1>2, <1>3, <1>4, <1>5, <1>6 DEF Next

(* With nothing dirty and both records readable, what the registry holds is *)
(* what the overlay shows, whichever writes failed and whichever were retried. *)
THEOREM CleanSaved == Spec => []CleanMeansSaved
  <1>1. SavedInv => CleanMeansSaved
    BY DEF SavedInv, ProfileKept, RoomKept, Clearing, SavingRoom, CleanMeansSaved, Idle
  <1>2. TypeOK /\ PairedInv /\ SavedInv /\ [Next]_vars => SavedInv'
    BY SavedStep
  <1> QED
    BY <1>1, <1>2, SavedAtInit, PairedAlways, PTL DEF Spec

-----------------------------------------------------------------------------
(* The user's settings: UsersInv is inductive.                              *)

LEMMA UsersAtInit == Init => UsersInv
  <1> SUFFICES ASSUME Init PROVE UsersInv
    OBVIOUS
  <1>1. ~alive
    BY Zenon DEF Init
  <1>2. CASE config = NoConfig /\ settings = NoSettings
    <2>1. config.universe = 0
      BY <1>2 DEF NoConfig
    <2>2. ~config.users
      BY <1>2, Zenon DEF NoConfig
    <2> QED
      BY <1>1, <2>1, <2>2 DEF UsersInv, OldConfigHasUsers
  <1>3. CASE \E r \in {0, 1} :
               /\ config = [universe |-> 1, revision |-> 0, users |-> TRUE, room |-> r]
               /\ settings = NoSettings
    <2>1. PICK r \in {0, 1} : config = [universe |-> 1, revision |-> 0, users |-> TRUE, room |-> r]
      BY <1>3
    <2>2. config.universe = 1 /\ config.revision = 0
      BY <2>1
    <2>3. config.users
      BY <2>1, Zenon
    <2>4. settings = NoSettings
      BY <1>3
    <2>5. ~settings.here
      BY <2>4, Zenon DEF NoSettings
    <2> QED
      BY <1>1, <2>2, <2>3, <2>5 DEF UsersInv, OldConfigHasUsers, UsersSettings
  <1>4. CASE \E u, r \in {0, 1} :
               /\ config = [NoConfig EXCEPT !.universe = u]
               /\ settings = [here |-> TRUE, revision |-> 0, users |-> TRUE, room |-> r]
    <2>1. PICK u \in {0, 1}, r \in {0, 1} :
            /\ config = [NoConfig EXCEPT !.universe = u]
            /\ settings = [here |-> TRUE, revision |-> 0, users |-> TRUE, room |-> r]
      BY <1>4
    <2>2. config = [universe |-> u, revision |-> 0, users |-> FALSE, room |-> 0]
      BY <2>1 DEF NoConfig
    <2>3. ~config.users
      BY <2>2, Zenon
    <2>4. settings.here /\ settings.users
      BY <2>1, Zenon
    <2> QED
      BY <1>1, <2>3, <2>4, Zenon DEF UsersInv, OldConfigHasUsers, UsersSettings
  <1> QED
    BY <1>2, <1>3, <1>4 DEF Init

(* What a launch reads: the settings it could find, and the latch whenever   *)
(* Config alone holds them.                                                 *)
LEMMA UsersLaunch ==
  ASSUME TypeOK, OldConfigHasUsers, UNCHANGED diskVars,
         NEW unreadable, NEW ownerFits \in BOOLEAN, LoadProfile(unreadable, ownerFits)
  PROVE  UsersInMemory'
  <1>1. config' = config /\ settings' = settings
    BY DEF diskVars
  <1>2. /\ configState' = LoadState("config" \in unreadable, config.universe # 0)
        /\ settingsState' = LoadState("settings" \in unreadable, settings.here)
    BY DEF LoadProfile
  <1>3. /\ failed' = {} /\ task' \in {"load", "none"}
    BY DEF LoadProfile, SaveSettings, Save
  <1>4. legacyAtLoad' <=> configState' = "Loaded" /\ config.revision = 0
    BY <1>2, Zenon DEF LoadProfile
  <1>5. migrationPending' <=> /\ configState' = "Loaded" /\ config.revision = 0
                              /\ (IF settingsState' = "Loaded" THEN settings.revision ELSE 0) = 0
    BY <1>2, Zenon DEF LoadProfile
  <1>6. users' = IF settingsState' = "Loaded" THEN settings.users
                 ELSE (IF configState' = "Loaded" THEN config ELSE NoConfig).users
    BY <1>2, Zenon DEF LoadProfile
  <1>7. configState' = "Loaded" => config.universe # 0
    BY <1>2 DEF LoadState
  <1>8. settingsState' = "Loaded" => settings.here
    BY <1>2 DEF LoadState
  <1>9. ~settings.here /\ configState' # "Unreadable" /\ config.users => migrationPending'
    <2>1. SUFFICES ASSUME ~settings.here, configState' # "Unreadable", config.users
                   PROVE  migrationPending'
      OBVIOUS
    <2>2. config.universe # 0 /\ config.revision = 0
      BY <2>1 DEF OldConfigHasUsers
    <2>3. configState' = "Loaded"
      BY <1>2, <2>1, <2>2 DEF LoadState
    <2> QED
      BY <1>5, <1>8, <2>1, <2>2, <2>3
  <1>10. GateSettingsWrite' /\ UsersSettings' => users'
    <2>1. SUFFICES ASSUME GateSettingsWrite', UsersSettings' PROVE users'
      OBVIOUS
    <2>2. IF settings.here THEN settings.users ELSE config.users
      BY <1>1, <2>1, Zenon DEF UsersSettings
    <2>3. settingsState' # "Unreadable" /\ (configState' # "Unreadable" \/ settingsState' = "Loaded")
      BY <2>1 DEF GateSettingsWrite
    <2>4. CASE settings.here
      <3>1. settingsState' = "Loaded"
        BY <1>2, <2>3, <2>4 DEF LoadState
      <3> QED
        BY <1>6, <2>2, <2>4, <3>1, Zenon
    <2>5. CASE ~settings.here
      <3>1. settingsState' # "Loaded" /\ configState' # "Unreadable" /\ config.users
        BY <1>8, <2>2, <2>3, <2>5
      <3>2. config.universe # 0
        BY <3>1 DEF OldConfigHasUsers
      <3>3. configState' = "Loaded"
        BY <1>2, <3>1, <3>2 DEF LoadState
      <3> QED
        BY <1>6, <3>1, <3>3, Zenon
    <2> QED
      BY <2>4, <2>5
  <1>11. legacyAtLoad' => UsersSettings'
    <2>1. legacyAtLoad' => UsersSettings
      BY <1>4, <1>7 DEF OldConfigHasUsers
    <2>2. UsersSettings' = UsersSettings
      BY <1>1, Zenon DEF UsersSettings
    <2> QED
      BY <2>1, <2>2, Zenon
  <1>12. migrationPending' => legacyAtLoad'
    BY <1>4, <1>5
  <1> QED
    BY <1>1, <1>3, <1>9, <1>10, <1>11, <1>12 DEF UsersInMemory

(* Settings are written from memory, by an overlay that may write them and   *)
(* so has the user's.                                                       *)
LEMMA UsersSettingsWritten ==
  ASSUME TypeOK, OldConfigHasUsers, UsersInMemory, MigrateSettings \/ WriteSettingsRecord
  PROVE  /\ UsersSettings => UsersSettings'
         /\ OldConfigHasUsers' /\ UsersInMemory'
  <1>1. settings' = [here |-> TRUE, revision |-> revision, users |-> users, room |-> room]
    BY DEF MigrateSettings, WriteSettingsRecord, SettingsLand
  <1>2. settings'.here /\ (settings'.users = users)
    BY <1>1, Zenon
  <1>3. UsersSettings' = users
    BY <1>2, Zenon DEF UsersSettings
  <1>4. /\ GateSettingsWrite /\ config' = config /\ users' = users /\ legacyAtLoad' = legacyAtLoad
        /\ ~migrationPending' /\ task' = task /\ failed' = failed
    BY DEF MigrateSettings, WriteSettingsRecord, SettingsLand, saveVars
  <1>5. UsersSettings => users
    BY <1>4 DEF UsersInMemory
  <1>6. UsersSettings => UsersSettings'
    BY <1>3, <1>5, Zenon
  <1>7. OldConfigHasUsers'
    BY <1>4, <1>6, Zenon DEF OldConfigHasUsers
  <1>8. todo # <<>> /\ "settings" \notin failed
    BY Distinct DEF MigrateSettings, WriteSettingsRecord, Writing, UsersInMemory
  <1>9. task' = "first setting" => todo' = <<>>
    <2>1. CASE MigrateSettings
      <3>1. legacyAtLoad
        BY <2>1 DEF MigrateSettings, UsersInMemory
      <3> QED
        BY <1>4, <3>1 DEF UsersInMemory
    <2>2. CASE WriteSettingsRecord
      BY <2>2 DEF WriteSettingsRecord
    <2> QED
      BY <2>1, <2>2
  <1>10. legacyAtLoad' => users' /\ task' # "first setting"
    <2>1. legacyAtLoad => users /\ task # "first setting"
      BY <1>4 DEF UsersInMemory
    <2> QED
      BY <1>4, <2>1, Zenon
  <1>11. UsersSettings' => users'
    BY <1>3, <1>4, Zenon
  <1>12. UsersInMemory'
    BY <1>2, <1>4, <1>8, <1>9, <1>10, <1>11 DEF UsersInMemory
  <1> QED
    BY <1>6, <1>7, <1>12

(* Config is written over its settings only when Settings has them.         *)
LEMMA UsersConfigWritten ==
  ASSUME TypeOK, OldConfigHasUsers, UsersInMemory, alive, WriteConfigRecord
  PROVE  /\ UsersSettings => UsersSettings'
         /\ OldConfigHasUsers' /\ UsersInMemory'
  <1>1. \/ config' = [universe |-> 0, revision |-> 0, users |-> FALSE, room |-> 0]
        \/ config' = [universe |-> profile, revision |-> revision, users |-> FALSE, room |-> 0]
    BY DEF WriteConfigRecord, ConfigRecord, NoConfig
  <1>2. ~config'.users
    <2>1. CASE config' = [universe |-> 0, revision |-> 0, users |-> FALSE, room |-> 0]
      BY <2>1, Zenon
    <2>2. CASE config' = [universe |-> profile, revision |-> revision, users |-> FALSE, room |-> 0]
      BY <2>2, Zenon
    <2> QED
      BY <1>1, <2>1, <2>2
  <1>3. config'.universe = 0 \/ config'.revision # 0
    BY <1>1 DEF TypeOK
  <1>4. /\ UNCHANGED <<settings, users, settingsState, legacyAtLoad, migrationPending, task, failed>>
        /\ ~migrationPending /\ configState # "Unreadable" /\ configState' # "Unreadable"
    BY DEF WriteConfigRecord, GateProfileWrite
  <1>5. OldConfigHasUsers'
    BY <1>2, <1>3 DEF OldConfigHasUsers
  <1>6. UsersSettings => settings.here
    <2>1. ~settings.here => ~config.users
      BY <1>4 DEF UsersInMemory
    <2> QED
      BY <2>1, Zenon DEF UsersSettings
  <1>7. UsersSettings <=> UsersSettings'
    <2>1. settings.here => (UsersSettings <=> UsersSettings')
      BY <1>4, Zenon DEF UsersSettings
    <2>2. ~settings.here => ~UsersSettings'
      BY <1>2, <1>4, Zenon DEF UsersSettings
    <2> QED
      BY <1>6, <2>1, <2>2, Zenon
  <1>8. GateSettingsWrite <=> GateSettingsWrite'
    BY <1>4 DEF GateSettingsWrite
  <1>9. todo # <<>>
    BY DEF WriteConfigRecord, Writing
  <1>10. UsersInMemory'
    BY <1>2, <1>4, <1>7, <1>8, <1>9, Zenon DEF UsersInMemory
  <1> QED
    BY <1>5, <1>7, <1>10, Zenon

(* Everything else leaves the registry, and the gate, as they are.          *)
LEMMA UsersSame ==
  ASSUME UNCHANGED diskVars, configState' = configState, settingsState' = settingsState
  PROVE  /\ UsersSettings' <=> UsersSettings
         /\ GateSettingsWrite' <=> GateSettingsWrite
  <1>1. config' = config /\ settings' = settings
    BY DEF diskVars
  <1>2. UsersSettings' <=> UsersSettings
    BY <1>1, Zenon DEF UsersSettings
  <1>3. GateSettingsWrite' <=> GateSettingsWrite
    BY DEF GateSettingsWrite
  <1> QED
    BY <1>2, <1>3

(* A step that touches neither the registry nor what was loaded keeps        *)
(* UsersInMemory if its save and its settings do.                           *)
LEMMA UsersUntouched ==
  ASSUME UsersInMemory, UNCHANGED diskVars, UNCHANGED stateVars,
         migrationPending' \in {migrationPending, legacyAtLoad},
         migrationPending => migrationPending',
         todo' # <<>> => "settings" \notin failed',
         GateSettingsWrite /\ (UsersSettings \/ legacyAtLoad) /\ users => users',
         task' = "first setting" =>
           /\ GateSettingsWrite => ~legacyAtLoad
           /\ GateSettingsWrite /\ (todo' # <<>> \/ "settings" \in failed') => ~UsersSettings
  PROVE  UsersInMemory'
  <1>1. /\ UNCHANGED <<config, settings, configState, settingsState>> /\ legacyAtLoad' = legacyAtLoad
    BY DEF diskVars, stateVars
  <1>2. /\ UsersSettings' <=> UsersSettings
        /\ GateSettingsWrite' <=> GateSettingsWrite
    BY <1>1, UsersSame
  <1>3. migrationPending' => legacyAtLoad'
    BY <1>1 DEF UsersInMemory
  <1>4. ~settings'.here /\ configState' # "Unreadable" /\ config'.users => migrationPending'
    BY <1>1, Zenon DEF UsersInMemory
  <1>5. /\ GateSettingsWrite' /\ UsersSettings' => users'
        /\ GateSettingsWrite' /\ legacyAtLoad' => users' /\ task' # "first setting"
    BY <1>1, <1>2, Zenon DEF UsersInMemory
  <1>6. GateSettingsWrite' /\ task' = "first setting" /\ (todo' # <<>> \/ "settings" \in failed') =>
          ~UsersSettings'
    BY <1>2, Zenon
  <1> QED
    BY <1>3, <1>4, <1>5, <1>6, Zenon DEF UsersInMemory

LEMMA UsersWrite ==
  ASSUME TypeOK, OldConfigHasUsers, UsersInMemory, alive, Write
  PROVE  OldConfigHasUsers' /\ UsersInMemory'
  <1>1. CASE MigrateSettings \/ WriteSettingsRecord
    BY <1>1, UsersSettingsWritten
  <1>2. CASE WriteConfigRecord
    BY <1>2, UsersConfigWritten
  <1>3. CASE ConfigFails
    <2>1. /\ UNCHANGED diskVars /\ UNCHANGED stateVars
          /\ migrationPending' = migrationPending /\ users' = users /\ task' = task /\ todo # <<>>
          /\ failed' = {"config"} \/ (failed' = {"config", "settings"} /\ todo' = <<>>)
      BY <1>3 DEF ConfigFails, Writing, LeftAfterFailedConfig
    <2>2. "settings" \notin failed' \/ todo' = <<>>
      BY <2>1
    <2>3. UsersInMemory'
      BY <2>1, <2>2, UsersUntouched DEF UsersInMemory
    <2> QED
      BY <2>1, <2>3, Zenon DEF OldConfigHasUsers, UsersSettings, diskVars
  <1>4. CASE SettingsFail
    <2>1. /\ UNCHANGED diskVars /\ UNCHANGED stateVars
          /\ migrationPending' = migrationPending /\ users' = users /\ task' = task /\ todo # <<>>
          /\ todo' = <<>>
      BY <1>4, Distinct DEF SettingsFail
    <2>2. UsersInMemory'
      BY <2>1, UsersUntouched DEF UsersInMemory
    <2> QED
      BY <2>1, <2>2, Zenon DEF OldConfigHasUsers, UsersSettings, diskVars
  <1> QED
    BY <1>1, <1>2, <1>3, <1>4 DEF Write

LEMMA UsersReturn ==
  ASSUME UsersInMemory, Loaded \/ SaveReturns
  PROVE  UsersInMemory'
  <1>1. /\ UNCHANGED diskVars /\ UNCHANGED stateVars
        /\ failed' = {} /\ task' # "first setting"
    BY DEF Loaded, SaveReturns, SavedAsIs, SettingSaved, PendingSaved, RoomSaved, SwitchedOff, Flushed,
       Cleared, Kept, SaveSettings, Save
  <1>2. /\ migrationPending' \in {migrationPending, legacyAtLoad}
        /\ migrationPending => migrationPending'
    <2>1. CASE Loaded
      BY <2>1, Zenon DEF Loaded, UsersInMemory
    <2>2. CASE SaveReturns
      <3>1. migrationPending' = migrationPending
        BY <2>2 DEF SaveReturns, SavedAsIs, SettingSaved, PendingSaved, RoomSaved, SwitchedOff, Flushed,
           Cleared, Kept
      <3> QED
        BY <3>1, Zenon
    <2> QED
      BY <2>1, <2>2
  <1>3. GateSettingsWrite /\ (UsersSettings \/ legacyAtLoad) /\ users => users'
    <2>1. CASE SettingSaved
      BY <2>1, Zenon DEF SettingSaved, Returned, UsersInMemory
    <2>2. CASE ~SettingSaved
      <3>1. users' = users
        BY <2>2 DEF Loaded, SaveReturns, SavedAsIs, PendingSaved, RoomSaved, SwitchedOff, Flushed, Cleared
      <3> QED
        BY <3>1, Zenon
    <2> QED
      BY <2>1, <2>2
  <1> QED
    BY <1>1, <1>2, <1>3, UsersUntouched

LEMMA UsersChange ==
  ASSUME UsersInMemory,
         \/ ApplyCalibrationDelta \/ ReanchorRoom \/ DisarmChaperoneAndPersist \/ LatchUnsafe
         \/ FinishCalibration \/ Correct \/ SaveProfileFieldEdit \/ SaveSetting
         \/ LoadChaperoneBounds \/ ClearSavedProfile \/ PersistenceTick \/ Quit
  PROVE  UsersInMemory'
  <1>1. /\ UNCHANGED diskVars /\ UNCHANGED stateVars /\ migrationPending' = migrationPending
        /\ task = "none"
    BY DEF ApplyCalibrationDelta, ReanchorRoom, DisarmChaperoneAndPersist, LatchUnsafe,
       FinishCalibration, Correct, SaveProfileFieldEdit, SaveSetting, LoadChaperoneBounds,
       ClearSavedProfile, PersistenceTick, Quit, Idle, Untouched
  <1>2. CASE SaveSetting
    <2>1. /\ users' = TRUE /\ failed' = {}
          /\ task' = "first setting" => ~users
      BY <1>2 DEF SaveSetting, SaveSettings, Save
    <2> QED
      BY <1>1, <2>1, UsersUntouched DEF UsersInMemory
  <1>3. CASE ~SaveSetting
    <2>1. users' = users
      BY <1>3 DEF ApplyCalibrationDelta, ReanchorRoom, DisarmChaperoneAndPersist, LatchUnsafe,
         FinishCalibration, Correct, SaveProfileFieldEdit, LoadChaperoneBounds,
         ClearSavedProfile, PersistenceTick, Quit
    <2>2. UNCHANGED saveVars \/ (failed' = {} /\ task' # "first setting")
      <3>1. CASE ApplyCalibrationDelta \/ Correct
        BY <3>1 DEF ApplyCalibrationDelta, Correct, saveVars
      <3>2. CASE LatchUnsafe \/ FinishCalibration \/ PersistenceTick
        BY <3>2 DEF LatchUnsafe, FinishCalibration, PersistenceTick, SavePendingChanges, SaveSettings,
           Save, saveVars
      <3>3. CASE \/ ReanchorRoom \/ DisarmChaperoneAndPersist \/ LoadChaperoneBounds
                 \/ SaveProfileFieldEdit \/ ClearSavedProfile
        BY <3>3 DEF ReanchorRoom, DisarmChaperoneAndPersist, LoadChaperoneBounds,
           SaveProfileFieldEdit, ClearSavedProfile, SaveSettings, Save
      <3>4. CASE Quit
        BY <3>4 DEF Quit, SavePendingChanges, SaveSettings, Save
      <3> QED
        BY <1>3, <3>1, <3>2, <3>3, <3>4
    <2>3. /\ todo' # <<>> => "settings" \notin failed'
          /\ task' # "first setting"
      BY <1>1, <2>2 DEF saveVars, UsersInMemory
    <2> QED
      BY <1>1, <2>1, <2>3, UsersUntouched
  <1> QED
    BY <1>2, <1>3

LEMMA UsersStep ==
  ASSUME TypeOK, PairedInv, UsersInv, [Next]_vars
  PROVE  UsersInv'
  <1>1. CASE Write
    <2>1. alive /\ alive' = alive
      BY <1>1, Distinct DEF Write, MigrateSettings, WriteConfigRecord, ConfigFails,
         WriteSettingsRecord, SettingsFail, Writing, PairedInv
    <2> QED
      BY <1>1, <2>1, UsersWrite DEF UsersInv
  <1>2. CASE ~Write
    <2>1. UNCHANGED diskVars
      BY <1>2, RecordsWritten DEF Write
    <2>2. OldConfigHasUsers'
      BY <2>1, Zenon DEF UsersInv, OldConfigHasUsers, UsersSettings, diskVars
    <2>3. CASE UNCHANGED vars
      <3>1. /\ UNCHANGED <<diskVars, stateVars, alive, migrationPending, users, task, todo, failed>>
        BY <2>3 DEF vars, saveVars
      <3>2. ASSUME UsersInMemory PROVE UsersInMemory'
        BY <3>1, <3>2, UsersUntouched DEF UsersInMemory
      <3> QED
        BY <2>2, <3>1, <3>2 DEF UsersInv
    <2>4. CASE Launch
      <3>1. PICK unreadable \in SUBSET {"config", "settings"}, ownerFits \in BOOLEAN :
              LoadProfile(unreadable, ownerFits)
        BY <2>4 DEF Launch
      <3> QED
        BY <2>1, <2>2, <3>1, UsersLaunch DEF UsersInv
    <2>5. CASE RecenterWhileAway \/ ShutDown \/ Crash
      <3>1. ~alive'
        BY <2>5, Zenon DEF RecenterWhileAway, ShutDown, Crash, Gone
      <3> QED
        BY <2>2, <3>1 DEF UsersInv
    <2>6. CASE Loaded \/ SaveReturns
      <3>1. alive
        BY <2>6 DEF Loaded, SaveReturns, SavedAsIs, SettingSaved, PendingSaved, RoomSaved, SwitchedOff,
           Flushed, Cleared, Returned
      <3> QED
        BY <2>2, <2>6, <3>1, UsersReturn DEF UsersInv
    <2>7. CASE \/ ApplyCalibrationDelta \/ ReanchorRoom \/ DisarmChaperoneAndPersist \/ LatchUnsafe
               \/ FinishCalibration \/ Correct \/ SaveProfileFieldEdit \/ SaveSetting
               \/ LoadChaperoneBounds \/ ClearSavedProfile \/ PersistenceTick \/ Quit
      <3>1. alive
        BY <2>7 DEF ApplyCalibrationDelta, ReanchorRoom, DisarmChaperoneAndPersist, LatchUnsafe,
           FinishCalibration, Correct, SaveProfileFieldEdit, SaveSetting, LoadChaperoneBounds,
           ClearSavedProfile, PersistenceTick, Quit, Idle
      <3> QED
        BY <2>2, <2>7, <3>1, UsersChange DEF UsersInv
    <2> QED
      BY <1>2, <2>3, <2>4, <2>5, <2>6, <2>7 DEF Next
  <1> QED
    BY <1>1, <1>2

(* The user's settings, once in the registry, are what every later launch   *)
(* finds there, whatever fails while they move from Config to Settings and   *)
(* whatever a launch could not read.                                        *)
THEOREM UsersKept == Spec => UsersSettingsKept
  <1>1. TypeOK /\ PairedInv /\ UsersInv /\ [Next]_vars => UsersInv'
    BY UsersStep
  <1>2. TypeOK /\ PairedInv /\ UsersInv /\ [Next]_vars => [UsersSettings => UsersSettings']_vars
    <2> SUFFICES ASSUME TypeOK, PairedInv, UsersInv, [Next]_vars
                 PROVE  UsersSettings => UsersSettings'
      OBVIOUS
    <2>1. CASE UNCHANGED diskVars
      BY <2>1, Zenon DEF UsersSettings, diskVars
    <2>2. CASE MigrateSettings \/ WriteSettingsRecord \/ WriteConfigRecord
      <3>1. alive
        BY <2>2, Distinct DEF MigrateSettings, WriteConfigRecord, WriteSettingsRecord, Writing, PairedInv
      <3> QED
        BY <2>2, <3>1, UsersSettingsWritten, UsersConfigWritten DEF UsersInv
    <2> QED
      BY <2>1, <2>2, RecordsWritten
  <1>3. Spec => [][UsersSettings => UsersSettings']_vars
    BY <1>1, <1>2, UsersAtInit, PairedAlways, PTL DEF Spec
  <1> QED
    BY <1>3 DEF UsersSettingsKept

=============================================================================
