-------------------------- MODULE ProviderSettings --------------------------
(***************************************************************************)
(* The settings of the provider: the configuration file with its backups,  *)
(* CONFIG in memory, and the default heartbeat frequency of the store.     *)
(* The two PUT routes change CONFIG, write the file in place after copying *)
(* it, and only then change the store.  A handler runs through without     *)
(* awaiting anything, so no two of them interleave; but each step of a     *)
(* write can fail, and the process can end between any two.                *)
(***************************************************************************)
EXTENDS SettingsFile

VARIABLES running,           \* the provider's process is alive
          config,            \* provider_config.CONFIG
          file,              \* the configuration file
          backup,            \* its newest backup
          storeHeartbeat,    \* STORE._default_heartbeat_frequency
          folderUsable,      \* the folder for snapshots can be written
          save,              \* where persist_provider_config is, and for what
          heartbeatApart,    \* history: the last request for a heartbeat got a 500,
                             \* or none has been accepted since a snapshot was restored
          edits

vars == <<running, config, file, backup, storeHeartbeat, folderUsable, save,
          heartbeatApart, edits>>

Idle == [at |-> "idle", request |-> "none", raw |-> NoFile]

TypeOK ==
    /\ running \in BOOLEAN
    /\ config \in Contents
    /\ running => config.heartbeat >= 1
    /\ file \in Contents \cup {NoFile}
    /\ backup \in Contents \cup {NoFile}
    /\ storeHeartbeat \in 1 .. MaxValue
    /\ folderUsable \in BOOLEAN
    /\ save \in [at : {"idle", "load", "copy", "copying", "open", "write", "apply"},
                 request : {"none", "comms", "client"}, raw : Contents \cup {NoFile}]
    /\ heartbeatApart \in BOOLEAN
    /\ edits \in 0 .. MaxEdits

-----------------------------------------------------------------------------

AtLeastOne(n) == IF n < 1 THEN 1 ELSE n

\* Persistence is off if the folder for snapshots cannot be used.
PersistenceOn(content) == content.enabled /\ folderUsable

\* A section "tls" that names no certificate and key files ends the start.
TlsLoads(content) == content.tls # "broken"

\* load_config_with_overrides: numbers below one are raised where max(1, ...)
\* says so, and the order of the thresholds is not looked at.
Loaded(content, log) ==
    [content EXCEPT !.heartbeat = AtLeastOne(content.heartbeat),
                    !.enabled = PersistenceOn(content),
                    !.log = log]

\* load_config, at the import of the module.
LoadedAtImport(content) == Loaded(content, content.log)

\* update_comms_thresholds, and what the route checks before it.
AcceptsComms(delayed, significant) ==
    /\ delayed > 0
    /\ delayed < significant
    /\ folderUsable

WithComms(delayed, significant, enabled) ==
    [config EXCEPT !.delayed = delayed, !.significant = significant, !.enabled = enabled]

\* update_default_heartbeat_frequency
WithHeartbeat(heartbeat) == [config EXCEPT !.heartbeat = AtLeastOne(heartbeat)]

\* Seeded error: the file is made from CONFIG alone.
FaultyWrittenWithoutTls(raw) == config

\* What persist_provider_config makes of the parsed file: every key of CONFIG
\* is written over it; the section "tls" stays as it was.
Written(raw) == [config EXCEPT !.tls = raw.tls]

Init ==
    /\ running = FALSE
    /\ file \in InitialFiles
    /\ backup = NoFile
    /\ storeHeartbeat = 1
    /\ folderUsable \in BOOLEAN
    /\ config = LoadedAtImport(file)
    /\ save = Idle
    /\ heartbeatApart = FALSE
    /\ edits = 0

\* main: a file that cannot be parsed ends the start with the exception.  The store
\* takes the frequency of CONFIG, and then, with --restore, that of a snapshot.
StartProvider ==
    /\ ~running
    /\ file # NoFile
    /\ TlsLoads(file)
    /\ running' = TRUE
    /\ \E log \in LogLevels : config' = Loaded(file, log)
    /\ \/ storeHeartbeat' = config'.heartbeat /\ heartbeatApart' = FALSE
       \/ config'.enabled /\ storeHeartbeat' \in 1 .. MaxValue /\ heartbeatApart' = TRUE
    /\ UNCHANGED <<file, backup, folderUsable, save, edits>>

\* The process ends, maybe in the middle of a save.
StopProvider ==
    /\ running
    /\ running' = FALSE
    /\ save' = Idle
    /\ UNCHANGED <<config, file, backup, storeHeartbeat, folderUsable, heartbeatApart, edits>>

\* PUT /api/settings/comms.  The folder is checked by every request, also by
\* one that does not name it; what is refused changes nothing.
UpdateCommsSettings ==
    /\ running
    /\ save = Idle
    /\ \E delayed, significant \in Values, enabled \in BOOLEAN :
          /\ AcceptsComms(delayed, significant)
          /\ config' = WithComms(delayed, significant, enabled)
    /\ save' = [Idle EXCEPT !.at = "load", !.request = "comms"]
    /\ UNCHANGED <<running, file, backup, storeHeartbeat, folderUsable, heartbeatApart, edits>>

\* PUT /api/settings/client
UpdateClientSettings ==
    /\ running
    /\ save = Idle
    /\ \E heartbeat \in Values :
          /\ heartbeat > 0
          /\ config' = WithHeartbeat(heartbeat)
    /\ save' = [Idle EXCEPT !.at = "load", !.request = "client"]
    /\ UNCHANGED <<running, file, backup, storeHeartbeat, folderUsable, heartbeatApart, edits>>

-----------------------------------------------------------------------------
\* persist_provider_config, step by step

SaveStep(from, to) ==
    /\ save.at = from
    /\ save' = [save EXCEPT !.at = to]
    /\ UNCHANGED <<running, config, folderUsable, storeHeartbeat, heartbeatApart, edits>>

\* Seeded error: a file that cannot be parsed counts as empty.
FaultyLoadJsonUnchecked ==
    /\ save.at = "load"
    /\ save' = [save EXCEPT !.at = "copy", !.raw = config]
    /\ UNCHANGED <<running, config, file, backup, storeHeartbeat, folderUsable,
                   heartbeatApart, edits>>

LoadJson ==
    /\ save.at = "load"
    /\ file # NoFile
    /\ save' = [save EXCEPT !.at = "copy", !.raw = file]
    /\ UNCHANGED <<running, config, file, backup, storeHeartbeat, folderUsable,
                   heartbeatApart, edits>>

\* shutil.copy2 creates the backup under a new name, then fills it.
CreateBackup == SaveStep("copy", "copying") /\ backup' = NoFile /\ UNCHANGED file
FillBackup   == SaveStep("copying", "open") /\ backup' = file /\ UNCHANGED file

\* write_text truncates the file when it opens it, then writes.
TruncateFile == SaveStep("open", "write") /\ file' = NoFile /\ UNCHANGED backup
WriteFile    == SaveStep("write", "apply") /\ file' = Written(save.raw) /\ UNCHANGED backup

\* Seeded error: the clients are not told.
FaultyApplySettingsFileOnly ==
    /\ save.at = "apply"
    /\ save' = Idle
    /\ UNCHANGED <<running, config, file, backup, storeHeartbeat, folderUsable,
                   heartbeatApart, edits>>

\* The rest of the handler after the save.
ApplySettings ==
    /\ save.at = "apply"
    /\ save' = Idle
    /\ IF save.request = "client"
       THEN storeHeartbeat' = config.heartbeat /\ heartbeatApart' = FALSE
       ELSE UNCHANGED <<storeHeartbeat, heartbeatApart>>
    /\ UNCHANGED <<running, config, file, backup, folderUsable, edits>>

\* Any step of the save raises: the answer is 500, and CONFIG stays changed.
SaveFails ==
    /\ save.at \in {"load", "copy", "copying", "open", "write"}
    /\ save' = Idle
    /\ heartbeatApart' = (heartbeatApart \/ save.request = "client")
    /\ UNCHANGED <<running, config, file, backup, storeHeartbeat, folderUsable, edits>>

-----------------------------------------------------------------------------
\* Outside the process.  An operator who edits the file while a handler saves
\* is left out: save.at is then not "idle".

EditFile ==
    /\ save = Idle
    /\ edits < MaxEdits
    /\ file # NoFile
    /\ edits' = edits + 1
    /\ \/ \E v \in Values : file' \in {[file EXCEPT !.delayed = v],
                                       [file EXCEPT !.significant = v],
                                       [file EXCEPT !.heartbeat = v]}
       \/ \E b \in BOOLEAN : file' = [file EXCEPT !.enabled = b]
       \/ \E t \in TlsSections : file' = [file EXCEPT !.tls = t]
    /\ UNCHANGED <<running, config, backup, storeHeartbeat, folderUsable, save, heartbeatApart>>

\* The operator puts the newest backup in the place of a file that is lost.
RepairFile ==
    /\ save = Idle
    /\ file = NoFile
    /\ file' = backup
    /\ UNCHANGED <<running, config, backup, storeHeartbeat, folderUsable, save,
                   heartbeatApart, edits>>

FolderChanges ==
    /\ save = Idle
    /\ folderUsable' = ~folderUsable
    /\ UNCHANGED <<running, config, file, backup, storeHeartbeat, save, heartbeatApart, edits>>

Next ==
    \/ StartProvider \/ StopProvider
    \/ UpdateCommsSettings \/ UpdateClientSettings
    \/ LoadJson \/ CreateBackup \/ FillBackup \/ TruncateFile \/ WriteFile
    \/ ApplySettings \/ SaveFails
    \/ EditFile \/ RepairFile \/ FolderChanges

Spec == Init /\ [][Next]_vars

-----------------------------------------------------------------------------
\* Properties

\* A file that was lost in a save can be put back: its newest backup is whole.
\* The file is parsed before it is copied, so a torn one never becomes a backup
\* (config.py:629 and 670).
LostFileHasBackup == file = NoFile => backup # NoFile

\* What a save has read and copied is what it is about to replace: at no step of
\* it would the end of the process cost the settings (config.py:628-675).
SaveHoldsACopy ==
    /\ save.at # "idle" => running
    /\ save.at \in {"copy", "copying", "open"} => file # NoFile /\ save.raw = file
    /\ save.at = "open" => backup = file
    /\ save.at = "write" => file = NoFile /\ save.raw # NoFile /\ backup = save.raw

\* The shape of the state, with a frequency of at least one, and a file that can
\* be put back, also while it is being saved (config.py:306-313, 628-675).
SettingsInvariant == TypeOK /\ LostFileHasBackup /\ SaveHoldsACopy

\* The store hands out the frequency that CONFIG has.  There are two exceptions: the
\* last request to change it was answered with 500 (app.py:2028-2042), and none has
\* been accepted since a snapshot was restored, which brings the frequency it was
\* taken with (server.py:176-217, state.py:1027).
StoreFollowsConfig ==
    (running /\ save.request # "client" /\ ~heartbeatApart)
        => storeHeartbeat = config.heartbeat

\* What a restart finds: the file, or its backup if a save has torn it.
Saved == IF file # NoFile THEN file ELSE backup

Cell == INSTANCE SettingsCell WITH inForce <- config, saved <- Saved, up <- running

\* Files, backups and failing steps together are one cell that is written
\* atomically, with the settings in force and nothing else.
SavesAtomically == Cell!CellSpec

=============================================================================
