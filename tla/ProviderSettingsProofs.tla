----------------------- MODULE ProviderSettingsProofs -----------------------
(***************************************************************************)
(* Proofs about ProviderSettings for every value of its constants: a       *)
(* configuration file that a save has torn can be put back, the store      *)
(* follows CONFIG, and files, backups and failing steps together implement *)
(* the atomic cell of SettingsCell.  They are proved of the instance that  *)
(* ProviderDisk takes, and so of the provider with its snapshots.          *)
(***************************************************************************)
EXTENDS StateSnapshotsProofs

\* What the file can say at first, under the names of the instance.
LEMMA InitialFilesOfSettings ==
    InitialFiles \subseteq Settings!Contents /\ NoFile \notin Settings!Contents
BY InitialFilesAssumption DEF Contents, Values, Settings!Contents, Settings!Values

USE SettingsAssumption, InitialFilesOfSettings

-----------------------------------------------------------------------------
\* Contents: a record that is changed in one key stays one.

LEMMA ChangedContents ==
    ASSUME NEW c \in Settings!Contents
    PROVE  /\ \A v \in Settings!Values : /\ [c EXCEPT !.delayed = v] \in Settings!Contents
                                /\ [c EXCEPT !.significant = v] \in Settings!Contents
                                /\ [c EXCEPT !.heartbeat = v] \in Settings!Contents
           /\ \A b \in BOOLEAN : [c EXCEPT !.enabled = b] \in Settings!Contents
           /\ \A t \in TlsSections : [c EXCEPT !.tls = t] \in Settings!Contents
BY DEF Settings!Contents

LEMMA AtLeastOneValue ==
    ASSUME NEW n \in Settings!Values
    PROVE  /\ Settings!AtLeastOne(n) \in 1 .. MaxValue
           /\ Settings!AtLeastOne(n) \in Settings!Values
BY DEF Settings!AtLeastOne, Settings!Values

LEMMA LoadedContents ==
    ASSUME NEW c \in Settings!Contents, NEW log \in LogLevels, folderUsable \in BOOLEAN
    PROVE  /\ Settings!Loaded(c, log) \in Settings!Contents
           /\ Settings!Loaded(c, log).heartbeat \in 1 .. MaxValue
<1>1. c.heartbeat \in Settings!Values /\ c.enabled \in BOOLEAN
  BY DEF Settings!Contents
<1>2. /\ Settings!AtLeastOne(c.heartbeat) \in 1 .. MaxValue
      /\ Settings!AtLeastOne(c.heartbeat) \in Settings!Values
  BY <1>1, AtLeastOneValue
<1>3. Settings!PersistenceOn(c) \in BOOLEAN
  BY <1>1 DEF Settings!PersistenceOn
<1>4. QED
  BY <1>2, <1>3 DEF Settings!Loaded, Settings!Contents

-----------------------------------------------------------------------------
\* The inductive invariant: SettingsInvariant is inductive as it stands, because
\* SaveHoldsACopy says where the settings are at each step of a save.

LEMMA SettingsInitially == Settings!Init => Settings!SettingsInvariant
<1> SUFFICES ASSUME Settings!Init PROVE Settings!SettingsInvariant
  OBVIOUS
<1>1. file \in Settings!Contents /\ file # NoFile
  BY DEF Settings!Init
<1>2. file.log \in LogLevels
  BY <1>1 DEF Settings!Contents
<1>3. config \in Settings!Contents
  BY <1>1, <1>2, LoadedContents DEF Settings!Init, Settings!LoadedAtImport
<1>4. save = Settings!Idle /\ save.at = "idle"
  BY DEF Settings!Init, Settings!Idle
<1>5. save \in [at : {"idle", "load", "copy", "copying", "open", "write", "apply"},
               request : {"none", "comms", "client"}, raw : Settings!Contents \cup {NoFile}]
  BY <1>4 DEF Settings!Idle
<1>6. Settings!TypeOK
  <2>1. up \in BOOLEAN /\ ~up /\ heartbeatApart \in BOOLEAN
    BY DEF Settings!Init
  <2>2. storeHeartbeat \in 1 .. MaxValue /\ edits \in 0 .. MaxEdits
    BY DEF Settings!Init
  <2>3. /\ file \in Settings!Contents \cup {NoFile}
        /\ backup \in Settings!Contents \cup {NoFile}
    BY <1>1 DEF Settings!Init
  <2>4. folderUsable \in BOOLEAN
    BY DEF Settings!Init
  <2>5. QED
    BY <1>3, <1>5, <2>1, <2>2, <2>3, <2>4 DEF Settings!TypeOK
<1>7. QED
  BY <1>1, <1>4, <1>6 DEF Settings!SettingsInvariant, Settings!LostFileHasBackup,
     Settings!SaveHoldsACopy

\* A save in a known place: what a step makes of the record.
SaveState ==
    [at : {"idle", "load", "copy", "copying", "open", "write", "apply"},
     request : {"none", "comms", "client"}, raw : Settings!Contents \cup {NoFile}]

LEMMA SettingsPreserved ==
    ASSUME Settings!SettingsInvariant, [Settings!Next]_Settings!vars
    PROVE  Settings!SettingsInvariant'
<1> USE DEF Settings!SettingsInvariant
<1>0. Settings!Idle \in SaveState /\ Settings!Idle.at = "idle"
  BY DEF Settings!Idle, SaveState
<1>1. CASE Settings!StartProvider
  <2>1. PICK log \in LogLevels : config' = Settings!Loaded(file, log)
    BY <1>1 DEF Settings!StartProvider
  <2>2. config' \in Settings!Contents /\ config'.heartbeat \in 1 .. MaxValue
    BY <1>1, <2>1, LoadedContents DEF Settings!StartProvider, Settings!TypeOK
  <2>3. /\ up' \in BOOLEAN /\ heartbeatApart' \in BOOLEAN
        /\ config'.heartbeat >= 1
        /\ storeHeartbeat' \in 1 .. MaxValue
    <3>1. up' \in BOOLEAN /\ heartbeatApart' \in BOOLEAN
      BY <1>1 DEF Settings!StartProvider
    <3>2. storeHeartbeat' = config'.heartbeat \/ storeHeartbeat' \in 1 .. MaxValue
      BY <1>1 DEF Settings!StartProvider
    <3>3. QED
      BY <2>2, <3>1, <3>2
  <2>4. UNCHANGED <<file, backup, folderUsable, save, edits>>
    BY <1>1 DEF Settings!StartProvider
  <2>5. Settings!TypeOK'
    BY <2>2, <2>3, <2>4 DEF Settings!TypeOK
  <2>6. QED
    BY <1>1, <2>5 DEF Settings!StartProvider, Settings!LostFileHasBackup,
       Settings!SaveHoldsACopy
<1>2. CASE Settings!StopProvider
  <2>1. Settings!TypeOK'
    BY <1>2, <1>0 DEF Settings!StopProvider, Settings!TypeOK, SaveState
  <2>2. QED
    BY <1>2, <1>0, <2>1 DEF Settings!StopProvider, Settings!LostFileHasBackup,
       Settings!SaveHoldsACopy
<1>3. CASE Settings!UpdateCommsSettings
  <2>1. PICK delayed \in Settings!Values, significant \in Settings!Values, isOn \in BOOLEAN :
           config' = Settings!WithComms(delayed, significant, isOn)
    BY <1>3 DEF Settings!UpdateCommsSettings
  <2>2. config' \in Settings!Contents /\ config'.heartbeat = config.heartbeat
    BY <2>1 DEF Settings!TypeOK, Settings!WithComms, Settings!Contents
  <2>3. save' \in SaveState /\ save'.at = "load"
    BY <1>3, <1>0 DEF Settings!UpdateCommsSettings, SaveState
  <2>4. Settings!TypeOK'
    BY <1>3, <2>2, <2>3 DEF Settings!UpdateCommsSettings, Settings!TypeOK, SaveState
  <2>5. QED
    BY <1>3, <2>3, <2>4 DEF Settings!UpdateCommsSettings,
       Settings!LostFileHasBackup, Settings!SaveHoldsACopy
<1>4. CASE Settings!UpdateClientSettings
  <2>1. PICK heartbeat \in Settings!Values : config' = Settings!WithHeartbeat(heartbeat)
    BY <1>4 DEF Settings!UpdateClientSettings
  <2>2. /\ Settings!AtLeastOne(heartbeat) \in 1 .. MaxValue
        /\ Settings!AtLeastOne(heartbeat) \in Settings!Values
    BY AtLeastOneValue
  <2>3. config' \in Settings!Contents /\ config'.heartbeat >= 1
    BY <2>1, <2>2 DEF Settings!TypeOK, Settings!WithHeartbeat, Settings!Contents
  <2>4. save' \in SaveState /\ save'.at = "load"
    BY <1>4, <1>0 DEF Settings!UpdateClientSettings, SaveState
  <2>5. Settings!TypeOK'
    BY <1>4, <2>3, <2>4 DEF Settings!UpdateClientSettings, Settings!TypeOK,
       SaveState
  <2>6. QED
    BY <1>4, <2>4, <2>5 DEF Settings!UpdateClientSettings,
       Settings!LostFileHasBackup, Settings!SaveHoldsACopy
<1>5. CASE Settings!LoadJson
  <2>1. /\ save' \in SaveState
        /\ save'.at = "copy" /\ save'.raw = file
    BY <1>5 DEF Settings!LoadJson, Settings!TypeOK, SaveState
  <2>2. Settings!TypeOK'
    BY <1>5, <2>1 DEF Settings!LoadJson, Settings!TypeOK, SaveState
  <2>3. QED
    BY <1>5, <2>1, <2>2 DEF Settings!LoadJson, Settings!LostFileHasBackup,
       Settings!SaveHoldsACopy
<1>6. CASE Settings!CreateBackup
  <2>1. /\ save' \in SaveState
        /\ save'.at = "copying" /\ save'.raw = save.raw
    BY <1>6 DEF Settings!CreateBackup, Settings!SaveStep, Settings!TypeOK, SaveState
  <2>2. Settings!TypeOK'
    BY <1>6, <2>1 DEF Settings!CreateBackup, Settings!SaveStep, Settings!TypeOK,
       SaveState
  <2>3. QED
    BY <1>6, <2>1, <2>2 DEF Settings!CreateBackup, Settings!SaveStep,
       Settings!LostFileHasBackup, Settings!SaveHoldsACopy
<1>7. CASE Settings!FillBackup
  <2>1. /\ save' \in SaveState
        /\ save'.at = "open" /\ save'.raw = save.raw
    BY <1>7 DEF Settings!FillBackup, Settings!SaveStep, Settings!TypeOK, SaveState
  <2>2. Settings!TypeOK'
    BY <1>7, <2>1 DEF Settings!FillBackup, Settings!SaveStep, Settings!TypeOK,
       SaveState
  <2>3. QED
    BY <1>7, <2>1, <2>2 DEF Settings!FillBackup, Settings!SaveStep,
       Settings!LostFileHasBackup, Settings!SaveHoldsACopy
<1>8. CASE Settings!TruncateFile
  <2>1. /\ save' \in SaveState
        /\ save'.at = "write" /\ save'.raw = save.raw
    BY <1>8 DEF Settings!TruncateFile, Settings!SaveStep, Settings!TypeOK, SaveState
  <2>2. Settings!TypeOK'
    BY <1>8, <2>1 DEF Settings!TruncateFile, Settings!SaveStep, Settings!TypeOK,
       SaveState
  <2>3. QED
    BY <1>8, <2>1, <2>2 DEF Settings!TruncateFile, Settings!SaveStep,
       Settings!LostFileHasBackup, Settings!SaveHoldsACopy
<1>9. CASE Settings!WriteFile
  <2>1. /\ save' \in SaveState
        /\ save'.at = "apply"
    BY <1>9 DEF Settings!WriteFile, Settings!SaveStep, Settings!TypeOK, SaveState
  <2>2. save.raw \in Settings!Contents
    BY <1>9 DEF Settings!WriteFile, Settings!SaveStep, Settings!TypeOK,
       Settings!SaveHoldsACopy
  <2>3. file' \in Settings!Contents
    BY <1>9, <2>2 DEF Settings!WriteFile, Settings!Written, Settings!TypeOK,
       Settings!Contents
  <2>4. Settings!TypeOK'
    BY <1>9, <2>1, <2>3 DEF Settings!WriteFile, Settings!SaveStep, Settings!TypeOK,
       SaveState
  <2>5. QED
    BY <1>9, <2>1, <2>3, <2>4 DEF Settings!WriteFile, Settings!SaveStep,
       Settings!LostFileHasBackup, Settings!SaveHoldsACopy
<1>10. CASE Settings!ApplySettings
  <2>1. config.heartbeat \in 1 .. MaxValue
    BY <1>10 DEF Settings!ApplySettings, Settings!SaveHoldsACopy, Settings!TypeOK,
       Settings!Contents, Settings!Values
  <2>2. Settings!TypeOK'
    BY <1>10, <1>0, <2>1 DEF Settings!ApplySettings, Settings!TypeOK, SaveState
  <2>3. QED
    BY <1>10, <1>0, <2>2 DEF Settings!ApplySettings, Settings!LostFileHasBackup,
       Settings!SaveHoldsACopy
<1>11. CASE Settings!SaveFails
  <2>1. Settings!TypeOK'
    BY <1>11, <1>0 DEF Settings!SaveFails, Settings!TypeOK, SaveState
  <2>2. QED
    BY <1>11, <1>0, <2>1 DEF Settings!SaveFails, Settings!LostFileHasBackup,
       Settings!SaveHoldsACopy
<1>12. CASE Settings!EditFile
  <2>1. file \in Settings!Contents
    BY <1>12 DEF Settings!EditFile, Settings!TypeOK
  <2>2. file' \in Settings!Contents
    BY <1>12, <2>1, ChangedContents DEF Settings!EditFile
  <2>3. Settings!TypeOK'
    BY <1>12, <2>2 DEF Settings!EditFile, Settings!TypeOK
  <2>4. QED
    BY <1>12, <1>0, <2>2, <2>3 DEF Settings!EditFile, Settings!LostFileHasBackup,
       Settings!SaveHoldsACopy
<1>13. CASE Settings!RepairFile
  <2>1. Settings!TypeOK'
    BY <1>13 DEF Settings!RepairFile, Settings!TypeOK
  <2>2. QED
    BY <1>13, <1>0, <2>1 DEF Settings!RepairFile, Settings!LostFileHasBackup,
       Settings!SaveHoldsACopy
<1>14. CASE Settings!FolderChanges
  <2>1. Settings!TypeOK'
    BY <1>14 DEF Settings!FolderChanges, Settings!TypeOK
  <2>2. QED
    BY <1>14, <1>0, <2>1 DEF Settings!FolderChanges, Settings!LostFileHasBackup,
       Settings!SaveHoldsACopy
<1>15. CASE UNCHANGED Settings!vars
  BY <1>15 DEF Settings!vars, Settings!TypeOK, Settings!LostFileHasBackup,
     Settings!SaveHoldsACopy
<1>16. QED
  BY <1>1, <1>2, <1>3, <1>4, <1>5, <1>6, <1>7, <1>8, <1>9, <1>10, <1>11, <1>12,
     <1>13, <1>14, <1>15 DEF Settings!Next

\* Whatever fails or ends in the middle of a save, the file or its newest backup
\* holds the settings (config.py:628-675).
THEOREM SettingsKept == Settings!Spec => []Settings!SettingsInvariant
<1>1. Settings!Init => Settings!SettingsInvariant
  BY SettingsInitially
<1>2. Settings!SettingsInvariant /\ [Settings!Next]_Settings!vars
         => Settings!SettingsInvariant'
  BY SettingsPreserved
<1>3. QED
  BY <1>1, <1>2, PTL DEF Settings!Spec

-----------------------------------------------------------------------------
\* The store and CONFIG.

LEMMA StoreFollowsPreserved ==
    ASSUME Settings!SettingsInvariant, Settings!StoreFollowsConfig,
           [Settings!Next]_Settings!vars
    PROVE  Settings!StoreFollowsConfig'
<1> USE DEF Settings!StoreFollowsConfig
<1>0. Settings!Idle.request = "none"
  BY DEF Settings!Idle
<1>1. CASE Settings!StartProvider
  BY <1>1 DEF Settings!StartProvider
<1>2. CASE Settings!StopProvider
  BY <1>2 DEF Settings!StopProvider
<1>3. CASE Settings!UpdateCommsSettings
  <2>1. config'.heartbeat = config.heartbeat
    BY <1>3 DEF Settings!UpdateCommsSettings, Settings!WithComms,
       Settings!SettingsInvariant, Settings!TypeOK, Settings!Contents
  <2>2. save.request = "none"
    BY <1>3, <1>0 DEF Settings!UpdateCommsSettings
  <2>3. QED
    BY <1>3, <2>1, <2>2 DEF Settings!UpdateCommsSettings
<1>4. CASE Settings!UpdateClientSettings
  <2>1. save'.request = "client"
    BY <1>4 DEF Settings!UpdateClientSettings, Settings!Idle
  <2>2. QED
    BY <2>1
<1>5. CASE \/ Settings!LoadJson \/ Settings!CreateBackup \/ Settings!FillBackup
           \/ Settings!TruncateFile \/ Settings!WriteFile
  <2>1. UNCHANGED <<up, config, storeHeartbeat, heartbeatApart>>
    BY <1>5 DEF Settings!LoadJson, Settings!CreateBackup, Settings!FillBackup,
       Settings!TruncateFile, Settings!WriteFile, Settings!SaveStep
  <2>2. save'.request = save.request
    BY <1>5 DEF Settings!LoadJson, Settings!CreateBackup, Settings!FillBackup,
       Settings!TruncateFile, Settings!WriteFile, Settings!SaveStep,
                Settings!SettingsInvariant, Settings!TypeOK
  <2>3. QED
    BY <2>1, <2>2
<1>6. CASE Settings!ApplySettings
  <2>1. CASE save.request = "client"
    BY <1>6, <2>1 DEF Settings!ApplySettings
  <2>2. CASE save.request # "client"
    BY <1>6, <2>2 DEF Settings!ApplySettings
  <2>3. QED
    BY <2>1, <2>2
<1>7. CASE Settings!SaveFails
  BY <1>7 DEF Settings!SaveFails
<1>8. CASE Settings!EditFile
  BY <1>8 DEF Settings!EditFile
<1>9. CASE Settings!RepairFile
  BY <1>9 DEF Settings!RepairFile
<1>10. CASE Settings!FolderChanges
  BY <1>10 DEF Settings!FolderChanges
<1>11. CASE UNCHANGED Settings!vars
  BY <1>11 DEF Settings!vars
<1>12. QED
  BY <1>1, <1>2, <1>3, <1>4, <1>5, <1>6, <1>7, <1>8, <1>9, <1>10, <1>11 DEF
     Settings!Next

\* The frequency that the store hands out is that of CONFIG, unless the request
\* to change it was answered with 500 (app.py:2028-2042).
THEOREM StoreFollows == Settings!Spec => []Settings!StoreFollowsConfig
<1>1. Settings!Init => Settings!StoreFollowsConfig
  BY DEF Settings!Init, Settings!StoreFollowsConfig
<1>2. Settings!SettingsInvariant /\ Settings!StoreFollowsConfig /\ [Settings!Next]_Settings!vars
         => Settings!StoreFollowsConfig'
  BY StoreFollowsPreserved
<1>3. QED
  BY <1>1, <1>2, SettingsKept, PTL DEF Settings!Spec

-----------------------------------------------------------------------------
\* The refinement: every step maps to a step of the cell or changes nothing of it.

LEMMA CellInitially == Settings!Init => Settings!Cell!CellInit
<1> SUFFICES ASSUME Settings!Init PROVE Settings!Cell!CellInit
  OBVIOUS
<1>1. Settings!SettingsInvariant
  BY SettingsInitially
<1>2. file \in Settings!Contents /\ file # NoFile
  BY DEF Settings!Init
<1>3. Settings!Saved \in Settings!Contents
  BY <1>2 DEF Settings!Saved
<1>4. config \in Settings!Contents
  BY <1>1 DEF Settings!SettingsInvariant, Settings!TypeOK
<1>5. up = FALSE /\ edits = 0
  BY DEF Settings!Init
<1>6. QED
  BY <1>3, <1>4, <1>5 DEF Settings!Cell!CellInit

LEMMA CellStep ==
    ASSUME Settings!SettingsInvariant, [Settings!Next]_Settings!vars
    PROVE  [Settings!Cell!CellNext]_Settings!Cell!cellVars
<1> USE DEF Settings!SettingsInvariant
<1> DEFINE Stutters == UNCHANGED <<config, Settings!Saved, up, edits>>
<1>0. Stutters => [Settings!Cell!CellNext]_Settings!Cell!cellVars
  BY DEF Settings!Cell!cellVars
<1>1. CASE Settings!StartProvider
  <2>1. PICK log \in LogLevels : config' = Settings!Loaded(file, log)
    BY <1>1 DEF Settings!StartProvider
  <2>2. /\ ~up /\ up' = TRUE
        /\ Settings!Saved = file /\ Settings!Saved' = Settings!Saved /\ edits' = edits
        /\ file \in Settings!Contents
    BY <1>1 DEF Settings!StartProvider, Settings!Saved, Settings!TypeOK
  <2> DEFINE isOn == Settings!PersistenceOn(file)
  <2>3. isOn \in {FALSE, file.enabled}
    BY <1>1, <2>2 DEF Settings!PersistenceOn, Settings!TypeOK, Settings!Contents
  <2>4. config' = [file EXCEPT !.enabled = isOn, !.log = log,
                      !.heartbeat = IF file.heartbeat < 1 THEN 1 ELSE file.heartbeat]
    BY <2>1, <2>2 DEF Settings!Loaded, Settings!AtLeastOne, Settings!Contents
  <2>5. Settings!Cell!Start
    BY <2>2, <2>3, <2>4 DEF Settings!Cell!Start
  <2>6. QED
    BY <2>5 DEF Settings!Cell!CellNext
<1>2. CASE Settings!StopProvider
  <2>1. Settings!Cell!Stop
    BY <1>2 DEF Settings!StopProvider, Settings!Saved, Settings!Cell!Stop
  <2>2. QED
    BY <2>1 DEF Settings!Cell!CellNext
<1>3. CASE Settings!UpdateCommsSettings
  <2>1. PICK delayed \in Settings!Values, significant \in Settings!Values, isOn \in BOOLEAN :
           /\ Settings!AcceptsComms(delayed, significant)
           /\ config' = Settings!WithComms(delayed, significant, isOn)
    BY <1>3 DEF Settings!UpdateCommsSettings
  <2>2. /\ config' \in Settings!Contents
        /\ config'.delayed = delayed /\ config'.significant = significant
        /\ config'.enabled = isOn
    BY <2>1 DEF Settings!TypeOK, Settings!WithComms, Settings!Contents
  <2>3. delayed \in 1 .. (significant - 1)
    BY <2>1 DEF Settings!AcceptsComms, Settings!Values
  <2>4. Settings!Cell!AcceptedComms(config, config')
    BY <2>1, <2>2, <2>3 DEF Settings!WithComms, Settings!Cell!AcceptedComms
  <2>5. Settings!Cell!Request
    BY <1>3, <2>2, <2>4 DEF Settings!UpdateCommsSettings, Settings!Saved,
       Settings!Cell!Request
  <2>6. QED
    BY <2>5 DEF Settings!Cell!CellNext
<1>4. CASE Settings!UpdateClientSettings
  <2>1. PICK heartbeat \in Settings!Values :
           heartbeat > 0 /\ config' = Settings!WithHeartbeat(heartbeat)
    BY <1>4 DEF Settings!UpdateClientSettings
  <2>2. Settings!AtLeastOne(heartbeat) = heartbeat
    BY <2>1 DEF Settings!AtLeastOne, Settings!Values
  <2>3. config' \in Settings!Contents /\ config'.heartbeat = heartbeat
    BY <2>1, <2>2 DEF Settings!TypeOK, Settings!WithHeartbeat, Settings!Contents
  <2>4. Settings!Cell!AcceptedClient(config, config')
    BY <2>1, <2>2, <2>3 DEF Settings!WithHeartbeat, Settings!Values,
       Settings!Cell!AcceptedClient
  <2>5. Settings!Cell!Request
    BY <1>4, <2>3, <2>4 DEF Settings!UpdateClientSettings, Settings!Saved,
       Settings!Cell!Request
  <2>6. QED
    BY <2>5 DEF Settings!Cell!CellNext
<1>5. CASE \/ Settings!LoadJson \/ Settings!ApplySettings
           \/ Settings!SaveFails \/ Settings!FolderChanges
  <2>1. Stutters
    BY <1>5 DEF Settings!LoadJson, Settings!ApplySettings, Settings!SaveFails,
       Settings!FolderChanges, Settings!Saved
  <2>2. QED
    BY <1>0, <2>1
<1>6. CASE Settings!CreateBackup \/ Settings!FillBackup
  <2>1. file # NoFile
    BY <1>6 DEF Settings!CreateBackup, Settings!FillBackup, Settings!SaveStep,
       Settings!SaveHoldsACopy
  <2>2. Stutters
    BY <1>6, <2>1 DEF Settings!CreateBackup, Settings!FillBackup, Settings!SaveStep,
       Settings!Saved
  <2>3. QED
    BY <1>0, <2>2
<1>7. CASE Settings!TruncateFile
  <2>1. file # NoFile /\ backup = file
    BY <1>7 DEF Settings!TruncateFile, Settings!SaveStep, Settings!SaveHoldsACopy
  <2>2. Stutters
    BY <1>7, <2>1 DEF Settings!TruncateFile, Settings!SaveStep, Settings!Saved
  <2>3. QED
    BY <1>0, <2>2
<1>8. CASE Settings!WriteFile
  <2>1. up /\ Settings!Saved = save.raw
    BY <1>8 DEF Settings!WriteFile, Settings!SaveStep, Settings!SaveHoldsACopy,
       Settings!Saved
  <2>2. file' = [config EXCEPT !.tls = Settings!Saved.tls]
    BY <1>8, <2>1 DEF Settings!WriteFile, Settings!Written
  <2>3. Settings!Saved \in Settings!Contents
    BY <1>8, <2>1 DEF Settings!WriteFile, Settings!SaveStep,
       Settings!SaveHoldsACopy, Settings!TypeOK
  <2>4. file' \in Settings!Contents
    BY <2>2, <2>3 DEF Settings!TypeOK, Settings!Contents
  <2>5. Settings!Saved' = [config EXCEPT !.tls = Settings!Saved.tls]
    BY <2>2, <2>4 DEF Settings!Saved
  <2>6. Settings!Cell!Save
    BY <1>8, <2>1, <2>5 DEF Settings!WriteFile, Settings!SaveStep,
       Settings!Cell!Save
  <2>7. QED
    BY <2>6 DEF Settings!Cell!CellNext
<1>9. CASE Settings!EditFile
  <2>1. file \in Settings!Contents
    BY <1>9 DEF Settings!EditFile, Settings!TypeOK
  <2>2. file' \in Settings!Contents
    BY <1>9, <2>1, ChangedContents DEF Settings!EditFile
  <2>3. Settings!Saved' \in Settings!Contents
    BY <2>2 DEF Settings!Saved
  <2>4. Settings!Cell!OperatorEdit
    BY <1>9, <2>3 DEF Settings!EditFile, Settings!Cell!OperatorEdit
  <2>5. QED
    BY <2>4 DEF Settings!Cell!CellNext
<1>10. CASE Settings!RepairFile
  <2>1. backup # NoFile
    BY <1>10 DEF Settings!RepairFile, Settings!LostFileHasBackup
  <2>2. Stutters
    BY <1>10, <2>1 DEF Settings!RepairFile, Settings!Saved
  <2>3. QED
    BY <1>0, <2>2
<1>11. CASE UNCHANGED Settings!vars
  <2>1. Stutters
    BY <1>11 DEF Settings!vars, Settings!Saved
  <2>2. QED
    BY <1>0, <2>1
<1>12. QED
  BY <1>1, <1>2, <1>3, <1>4, <1>5, <1>6, <1>7, <1>8, <1>9, <1>10, <1>11 DEF
     Settings!Next

\* Files, backups and failing steps together are one cell that is written
\* atomically, with the settings in force and nothing else (config.py:628-675).
THEOREM SettingsImplementCell == Settings!Spec => Settings!SavesAtomically
<1>1. Settings!Init => Settings!Cell!CellInit
  BY CellInitially
<1>2. Settings!SettingsInvariant /\ [Settings!Next]_Settings!vars
         => [Settings!Cell!CellNext]_Settings!Cell!cellVars
  BY CellStep
<1>3. QED
  BY <1>1, <1>2, SettingsKept, PTL DEF Settings!Spec, Settings!SavesAtomically,
     Settings!Cell!CellSpec

-----------------------------------------------------------------------------
(* The provider with its snapshots: DiskUsesBoth carries all of it over *)

\* No step of a save, no request that changes CONFIG and prunes snapshots before it
\* saves, and no end of the process costs the settings (config.py:628-675).
THEOREM DiskKeepsSettings == DiskSpec => []SettingsInvariant
BY DiskUsesBoth, SettingsKept, PTL DEF SettingsInvariant

\* The store hands out the frequency of CONFIG, but for a refused request and a
\* restored snapshot (app.py:2028-2042, server.py:176-217).
THEOREM DiskStoreFollows == DiskSpec => []StoreFollowsConfig
BY DiskUsesBoth, StoreFollows, PTL DEF StoreFollowsConfig

\* The provider's file is a cell that is written atomically, whatever else is
\* saved, pruned or restored beside it (config.py:628-675).
THEOREM DiskSavesAtomically == DiskSpec => SavesAtomically
BY DiskUsesBoth, SettingsImplementCell, PTL DEF SavesAtomically
=============================================================================
