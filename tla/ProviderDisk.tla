---------------------------- MODULE ProviderDisk ----------------------------
(***************************************************************************)
(* The provider and what it keeps on disk: its configuration file and the  *)
(* snapshots of its state.  ProviderSettings and StateSnapshots are put    *)
(* together here: they share the process, the event loop, and the setting  *)
(* that turns snapshots on.  A request for thresholds changes CONFIG,      *)
(* prunes snapshots and only then saves the file; a start reads the file   *)
(* before it looks for a snapshot.                                         *)
(***************************************************************************)
EXTENDS StateSnapshots, SettingsFile

VARIABLES
    config, file, backup, storeHeartbeat, folderUsable, save, heartbeatApart, edits

Settings == INSTANCE ProviderSettings WITH running <- up

settingsState ==
    <<config, file, backup, storeHeartbeat, folderUsable, save, heartbeatApart, edits>>
snapshotState == <<clock, enabled, retention, memory, changed_at, task, files, history>>

diskVars == <<up, settingsState, snapshotState>>

DiskInit == Settings!Init /\ Init

LoopFree == save = Settings!Idle /\ task = Idle

-----------------------------------------------------------------------------
\* The process

\* main: with --restore a snapshot that can be read brings its own frequency.
StartDisk ==
    /\ Settings!StartProvider
    /\ \E keep \in RetentionCounts, on \in BOOLEAN :
          /\ on = config'.enabled
          /\ \/ Start(on, keep, "none") /\ ~heartbeatApart'
             \/ /\ Start(on, keep, "latest")
                /\ heartbeatApart' => files # <<>> /\ files[Newest(files)].complete
             \/ \E second \in DOMAIN files :
                   /\ on
                   /\ StartFrom(keep, second)
                   /\ heartbeatApart' => files[second].complete

\* The process is killed, also in the middle of a save.
CrashDisk == Settings!StopProvider /\ Crash

\* The end of the process on a signal: at once, or with a farewell save.
ShutdownDisk ==
    /\ LoopFree
    /\ Shutdown
    /\ IF up' THEN UNCHANGED settingsState ELSE Settings!StopProvider

-----------------------------------------------------------------------------
\* Requests

\* PUT /api/settings/comms up to the saving of the file: CONFIG, then the pruning.
CommsRequest ==
    /\ LoopFree
    /\ Settings!UpdateCommsSettings
    /\ \E keep \in RetentionCounts, on \in BOOLEAN :
          on = config'.enabled /\ UpdateCommsSettings(keep, on)

ClientRequest ==
    /\ LoopFree
    /\ Settings!UpdateClientSettings
    /\ UNCHANGED snapshotState

\* persist_provider_config begins when nothing is left to prune.
SettingsSaveStep ==
    /\ task = Idle
    /\ \/ Settings!LoadJson
       \/ Settings!CreateBackup \/ Settings!FillBackup
       \/ Settings!TruncateFile \/ Settings!WriteFile
       \/ Settings!ApplySettings
       \/ Settings!SaveFails
    /\ UNCHANGED snapshotState

-----------------------------------------------------------------------------
\* The store and its snapshots

Message ==
    /\ LoopFree
    /\ ReportMessage \/ SaveStateNow
    /\ UNCHANGED settingsState

\* A file is opened only in a folder that can be written; the farewell save is the
\* end of the process.
SnapshotStep ==
    /\ SaveStep
    /\ OpenFile => folderUsable
    /\ IF up' THEN UNCHANGED settingsState ELSE Settings!StopProvider

\* Time, and tools in their threads, whatever the event loop is busy with.
Meanwhile ==
    /\ Tick \/ Change
    /\ UNCHANGED settingsState

\* The operator, and the folder.
Outside ==
    /\ Settings!EditFile \/ Settings!RepairFile \/ Settings!FolderChanges
    /\ UNCHANGED snapshotState

DiskNext ==
    \/ StartDisk \/ CrashDisk \/ ShutdownDisk
    \/ CommsRequest \/ ClientRequest \/ SettingsSaveStep
    \/ Message \/ SnapshotStep \/ Meanwhile
    \/ Outside

DiskSpec == DiskInit /\ [][DiskNext]_diskVars

-----------------------------------------------------------------------------
(* What ProviderSettings promises, under its names there *)

\* A file that was lost in a save can be put back (config.py:628-675).
SettingsInvariant == Settings!SettingsInvariant

\* The store hands out the frequency that CONFIG has, but for a refused request and
\* a restored snapshot (app.py:2028-2042, server.py:176-217).
StoreFollowsConfig == Settings!StoreFollowsConfig

\* Files, backups and failing steps together are one cell that is written
\* atomically (SettingsCell).
SavesAtomically == Settings!SavesAtomically
=============================================================================
