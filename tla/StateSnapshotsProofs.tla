------------------------- MODULE StateSnapshotsProofs -------------------------
(***************************************************************************)
(* Proofs about StateSnapshots, for any interval, retention, clock and     *)
(* number of changes: what the last finished save wrote can be restored,   *)
(* whatever is pruned, and the autosave timer runs while something has not *)
(* been saved.  The argument is about the names: a save is named after the *)
(* second it was begun in, so that no snapshot is newer than the one being *)
(* written, and pruning, however little it keeps, keeps the newest.        *)
(***************************************************************************)
EXTENDS ProviderDisk, FiniteSetTheorems, TLAPS

\* Snapshots bear names of seconds that have been.
FilesArePast ==
    /\ files \in [DOMAIN files -> Snapshot]
    /\ \A s \in DOMAIN files : s \in Seconds /\ s <= clock

Saving == task.step # "idle" /\ task.kind # "settings"

\* A save is the latest there is.  Until it is written it counts as cut short;
\* from then on its snapshot is intact, and no report has come in since.
SaveIsLatest ==
    /\ task.step \in {"open", "write"} => task.kind # "settings"
    /\ Saving => task.name <= clock /\ \A s \in DOMAIN files : s <= task.name
    /\ task.step = "write" => cut_short /\ task.name \in DOMAIN files
    /\ Saving /\ task.step = "prune" =>
          task.name \in DOMAIN files /\ files[task.name].complete /\ ~unsaved

\* Pruning leaves the newest snapshot.
NewestIsKept ==
    /\ task.step \in {"idle", "open", "write"} => task.stale = {}
    /\ task.stale # {} =>
          /\ Newest(files) \in DOMAIN files \ task.stale
          /\ \A s \in DOMAIN files : s <= Newest(files)

DiskInv ==
    /\ SnapshotsInvariant
    /\ UnsavedIsTimed
    /\ FilesArePast
    /\ SaveIsLatest
    /\ NewestIsKept

-----------------------------------------------------------------------------
(* The newest snapshot *)

Later == {pair \in Nat \X Nat : pair[1] < pair[2]}

LEMMA LaterIsWellFounded == IsWellFoundedOn(Later, Nat)
BY NatLessThanWellFounded, Zenon DEF OpToRel, Later

\* There is a latest one of some seconds.
LEMMA LatestExists ==
  ASSUME NEW S \in SUBSET Seconds, S # {}
  PROVE  Max(S) \in S /\ \A s \in S : s <= Max(S)
<1> DEFINE Left == {MaxClock - s : s \in S}
<1>1. Left \subseteq Nat /\ Left # {}
  <2>1. \A s \in Seconds : MaxClock - s \in Nat
    BY SnapshotsAssumption DEF Seconds
  <2>2. \A s \in S : s \in Seconds
    OBVIOUS
  <2> QED BY <2>1, <2>2
<1>2. PICK left \in Left : \A other \in Left : ~ (<<other, left>> \in Later)
  <2>1. IsWellFoundedOn(Later, Nat)
    BY LaterIsWellFounded
  <2> HIDE DEF Left
  <2> QED BY ONLY <1>1, <2>1, WFMin, Zenon
<1>3. PICK latest \in S : left = MaxClock - latest
  BY <1>2
<1>4. ASSUME NEW s \in S PROVE latest >= s
  <2>1. <<MaxClock - s, left>> \notin Later /\ MaxClock - s \in Nat /\ left \in Nat
    BY <1>1, <1>2
  <2>2. ~ (MaxClock - s < left)
    BY <2>1 DEF Later
  <2>3. s \in Int /\ latest \in Int /\ MaxClock \in Int
    BY SnapshotsAssumption DEF Seconds
  <2> QED BY <1>3, <2>2, <2>3
<1>5. \E x \in S : \A y \in S : x >= y
  BY <1>4
<1>6. Max(S) \in S /\ \A y \in S : Max(S) >= y
  BY <1>5 DEF Max
<1> QED BY <1>6 DEF Seconds

\* ... and only one.
LEMMA LatestIsUnique ==
  ASSUME NEW S \in SUBSET Seconds, NEW s \in S, \A t \in S : t <= s
  PROVE  Max(S) = s
<1>1. Max(S) \in S /\ s <= Max(S)
  BY LatestExists
<1>2. Max(S) <= s
  BY <1>1
<1>3. Max(S) \in Int /\ s \in Int
  <2>1. Max(S) \in Seconds /\ s \in Seconds
    BY <1>1
  <2> QED BY <2>1 DEF Seconds
<1> QED BY <1>1, <1>2, <1>3

\* prune_snapshot_files keeps the newest of at least one.
LEMMA StaleIsNotNewest ==
  ASSUME NEW snapshots, DOMAIN snapshots \subseteq Seconds, DOMAIN snapshots # {},
         NEW keep \in RetentionCounts
  PROVE  /\ Stale(snapshots, keep) \subseteq DOMAIN snapshots
         /\ Newest(snapshots) \in DOMAIN snapshots \ Stale(snapshots, keep)
         /\ \A s \in DOMAIN snapshots : s <= Newest(snapshots)
<1>1. /\ Newest(snapshots) \in DOMAIN snapshots
      /\ \A s \in DOMAIN snapshots : s <= Newest(snapshots)
  BY LatestExists DEF Newest
<1>2. {t \in DOMAIN snapshots : t > Newest(snapshots)} = {}
  BY <1>1 DEF Seconds
<1>3. ~ (Cardinality({}) >= keep)
  BY FS_EmptySet DEF RetentionCounts
<1>4. Newest(snapshots) \notin Stale(snapshots, keep)
  BY <1>2, <1>3 DEF Stale
<1> QED BY <1>1, <1>4 DEF Stale

-----------------------------------------------------------------------------
(* What the steps do to the folder *)

\* The invariant but for the types and the timer.
FolderInv ==
    /\ FilesArePast
    /\ SaveIsLatest
    /\ NewestIsKept
    /\ LastSaveRestorable

\* No snapshots and the empty function are the same.
LEMMA NoFiles ==
  ASSUME files \in [DOMAIN files -> Snapshot]
  PROVE  files = <<>> <=> DOMAIN files = {}
<1>1. DOMAIN <<>> = {} /\ <<>> \in [{} -> Snapshot]
  OBVIOUS
<1>2. ASSUME DOMAIN files = {} PROVE files = <<>>
  BY <1>1, <1>2
<1> QED BY <1>1, <1>2

LEMMA FilesAreSeconds ==
  ASSUME FilesArePast
  PROVE  DOMAIN files \in SUBSET Seconds
BY DEF FilesArePast

\* Nothing is written, whatever else goes on.
LEMMA FolderUntouched ==
  ASSUME FolderInv, clock \in Int, clock' \in Int, clock <= clock', MaxClock \in Int,
         UNCHANGED <<task, files, cut_short, unsaved, last_completed>>,
         task.name \in Seconds
  PROVE  FolderInv'
<1>1. FilesArePast'
  BY DEF FolderInv, FilesArePast, Seconds
<1>2. SaveIsLatest'
  BY DEF FolderInv, SaveIsLatest, Saving, Seconds
<1>3. NewestIsKept' /\ LastSaveRestorable'
  BY DEF FolderInv, NewestIsKept, LastSaveRestorable
<1> QED BY <1>1, <1>2, <1>3 DEF FolderInv

\* The event loop has nothing to do with the folder any more.
LEMMA FolderLeft ==
  ASSUME FolderInv, task' = Idle, UNCHANGED <<clock, files, cut_short, last_completed>>
  PROVE  FolderInv'
<1>1. task'.step = "idle" /\ task'.stale = {} /\ task'.kind = "none"
  BY DEF Idle
<1>2. SaveIsLatest' /\ NewestIsKept'
  BY <1>1 DEF SaveIsLatest, Saving, NewestIsKept
<1> QED BY <1>2 DEF FolderInv, FilesArePast, LastSaveRestorable

\* A save begins: the snapshots there are have earlier names, or the same.
LEMMA SaveBegins ==
  ASSUME FolderInv, clock \in Int, NEW kind \in {"autosave", "manual", "shutdown"},
         NEW version, task' = SaveOf(kind, version),
         UNCHANGED <<clock, files, cut_short, last_completed>>
  PROVE  FolderInv'
<1>1. /\ task'.step = "open" /\ task'.stale = {} /\ task'.kind = kind
      /\ task'.name = clock
  BY DEF SaveOf
<1>2. SaveIsLatest' /\ NewestIsKept'
  BY <1>1 DEF FolderInv, FilesArePast, SaveIsLatest, Saving, NewestIsKept
<1> QED BY <1>2 DEF FolderInv, FilesArePast, LastSaveRestorable

\* A smaller retention prunes.
LEMMA PruningBegins ==
  ASSUME FolderInv, NEW keep \in RetentionCounts,
         task' = [Idle EXCEPT !.kind = "settings", !.step = "prune",
                              !.stale = Stale(files, keep)],
         UNCHANGED <<clock, files, cut_short, last_completed>>
  PROVE  FolderInv'
<1>1. /\ task'.step = "prune" /\ task'.stale = Stale(files, keep)
      /\ task'.kind = "settings"
  BY DEF Idle
<1>2. SaveIsLatest'
  BY <1>1 DEF SaveIsLatest, Saving
<1>3. NewestIsKept'
  <2>1. ASSUME Stale(files, keep) # {} PROVE DOMAIN files # {}
    BY <2>1 DEF Stale
  <2>2. ASSUME Stale(files, keep) # {}
        PROVE  /\ Newest(files) \in DOMAIN files \ Stale(files, keep)
               /\ \A s \in DOMAIN files : s <= Newest(files)
    BY <2>1, <2>2, FilesAreSeconds, StaleIsNotNewest DEF FolderInv
  <2> QED BY <1>1, <2>2 DEF NewestIsKept
<1> QED BY <1>2, <1>3 DEF FolderInv, FilesArePast, LastSaveRestorable

LEMMA WrittenIs ==
  ASSUME files \in [DOMAIN files -> Snapshot], NEW name, NEW complete \in BOOLEAN,
         NEW version \in Versions
  PROVE  LET after == Written(name, complete, version) IN
         /\ after \in [DOMAIN files \cup {name} -> Snapshot]
         /\ DOMAIN after = DOMAIN files \cup {name}
         /\ after[name] = [complete |-> complete, version |-> version]
         /\ \A s \in DOMAIN files : s # name => after[s] = files[s]
<1>1. [complete |-> complete, version |-> version] \in Snapshot
  BY DEF Snapshot
<1> QED BY <1>1 DEF Written

LEMMA OpenFileFolder ==
  ASSUME FolderInv, TypeOK, OpenFile
  PROVE  FolderInv'
<1>1. /\ task.name \in Seconds /\ task.version \in Versions /\ task.step = "open"
      /\ task \in Task
  BY DEF TypeOK, Task, OpenFile
<1>2. /\ task' \in Task /\ task'.step = "write" /\ task'.kind = task.kind
      /\ task'.name = task.name /\ task'.stale = {} /\ Saving
  BY <1>1 DEF OpenFile, Task, FolderInv, SaveIsLatest, NewestIsKept, Saving
<1>3. /\ files' \in [DOMAIN files \cup {task.name} -> Snapshot]
      /\ DOMAIN files' = DOMAIN files \cup {task.name}
  BY <1>1, WrittenIs DEF OpenFile, FolderInv, FilesArePast
<1>4. FilesArePast'
  BY <1>1, <1>2, <1>3 DEF OpenFile, FolderInv, FilesArePast, SaveIsLatest
<1>5. SaveIsLatest'
  <2>1. clock' = clock /\ cut_short'
    BY DEF OpenFile
  <2>2. task.name <= clock /\ \A s \in DOMAIN files : s <= task.name
    BY <1>2 DEF FolderInv, SaveIsLatest
  <2>3. task.name <= task.name
    BY <1>1 DEF Seconds
  <2>4. \A s \in DOMAIN files' : s <= task.name
    BY <1>3, <2>2, <2>3
  <2> QED BY <1>2, <1>3, <2>1, <2>2, <2>4 DEF SaveIsLatest, Saving
<1>6. NewestIsKept' /\ LastSaveRestorable'
  BY <1>2 DEF OpenFile, NewestIsKept, LastSaveRestorable
<1> QED BY <1>4, <1>5, <1>6 DEF FolderInv

LEMMA FinishFileFolder ==
  ASSUME FolderInv, TypeOK, FinishFile
  PROVE  FolderInv'
<1>1. /\ task.name \in Seconds /\ task.version \in Versions /\ task.step = "write"
      /\ task \in Task /\ task.kind # "settings" /\ task.name \in DOMAIN files
      /\ task.name <= clock /\ \A s \in DOMAIN files : s <= task.name
  BY DEF TypeOK, Task, FinishFile, FolderInv, SaveIsLatest, Saving
<1>2. /\ task'.step = "prune" /\ task'.kind = task.kind /\ task'.name = task.name
      /\ task'.stale = Stale(files, retention)
  BY <1>1 DEF FinishFile, Task
<1>3. /\ files' \in [DOMAIN files -> Snapshot]
      /\ DOMAIN files' = DOMAIN files
      /\ files'[task.name] = [complete |-> TRUE, version |-> task.version]
  <2>1. DOMAIN files \cup {task.name} = DOMAIN files
    BY <1>1
  <2>2. /\ files' \in [DOMAIN files \cup {task.name} -> Snapshot]
        /\ DOMAIN files' = DOMAIN files \cup {task.name}
        /\ files'[task.name] = [complete |-> TRUE, version |-> task.version]
    <3>1. files \in [DOMAIN files -> Snapshot] /\ files' = Written(task.name, TRUE, task.version)
      BY DEF FinishFile, FolderInv, FilesArePast
    <3>2. TRUE \in BOOLEAN /\ task.version \in Versions
      BY <1>1
    <3>3. /\ Written(task.name, TRUE, task.version) \in [DOMAIN files \cup {task.name} -> Snapshot]
          /\ DOMAIN Written(task.name, TRUE, task.version) = DOMAIN files \cup {task.name}
          /\ Written(task.name, TRUE, task.version)[task.name]
                = [complete |-> TRUE, version |-> task.version]
      BY <3>1, <3>2, WrittenIs
    <3> QED BY <3>1, <3>3
  <2> QED BY <2>1, <2>2
<1>4. Newest(files') = task.name
  BY <1>1, <1>3, FilesAreSeconds, LatestIsUnique DEF FolderInv, Newest
<1>5. FilesArePast'
  BY <1>3 DEF FinishFile, FolderInv, FilesArePast
<1>6. SaveIsLatest'
  <2>1. clock' = clock /\ unsaved' = FALSE
    BY DEF FinishFile
  <2>2. files'[task'.name].complete = TRUE
    BY <1>2, <1>3
  <2>3. /\ task'.name <= clock' /\ task'.name \in DOMAIN files'
        /\ \A s \in DOMAIN files' : s <= task'.name
    BY <1>1, <1>2, <1>3, <2>1
  <2>4. task'.step \notin {"open", "write"}
    BY <1>2
  <2> QED BY <2>1, <2>2, <2>3, <2>4 DEF SaveIsLatest
<1>7. NewestIsKept'
  <2>1. Newest(files) = task.name
    BY <1>1, FilesAreSeconds, LatestIsUnique DEF FolderInv, Newest
  <2>2. retention \in RetentionCounts /\ DOMAIN files # {}
    BY <1>1 DEF TypeOK, RetentionCounts
  <2>3. Newest(files) \in DOMAIN files \ Stale(files, retention)
    BY <2>2, FilesAreSeconds, StaleIsNotNewest DEF FolderInv
  <2> QED BY <1>1, <1>2, <1>3, <1>4, <2>1, <2>3 DEF NewestIsKept
<1>8. LastSaveRestorable'
  <2>1. files' # <<>>
    BY <1>1, <1>3
  <2> QED BY <1>3, <1>4, <2>1 DEF FinishFile, LastSaveRestorable
<1> QED BY <1>5, <1>6, <1>7, <1>8 DEF FolderInv

LEMMA PruneOneFolder ==
  ASSUME FolderInv, TypeOK, PruneOne
  PROVE  FolderInv'
<1>1. task \in Task /\ task.stale \in SUBSET Seconds /\ task.stale # {}
  BY DEF TypeOK, Task, PruneOne
<1> DEFINE gone == Max(task.stale)
<1>2. gone \in task.stale
  BY <1>1, LatestExists
<1> HIDE DEF gone
<1>3. /\ Newest(files) \in DOMAIN files \ task.stale
      /\ \A s \in DOMAIN files : s <= Newest(files)
      /\ Newest(files) # gone
  BY <1>1, <1>2 DEF FolderInv, NewestIsKept
<1>4. /\ task'.step = "prune" /\ task'.kind = task.kind /\ task'.name = task.name
      /\ task'.stale = task.stale \ {gone}
  BY <1>1 DEF PruneOne, Task, gone
<1>5. /\ files' \in [DOMAIN files' -> Snapshot]
      /\ DOMAIN files' \subseteq DOMAIN files
      /\ DOMAIN files \ {gone} \subseteq DOMAIN files'
      /\ \A s \in DOMAIN files' : files'[s] = files[s]
  <2>1. CASE files' = files
    BY <2>1 DEF FolderInv, FilesArePast
  <2>2. CASE files' = [s \in DOMAIN files \ {gone} |-> files[s]]
    BY <2>2 DEF FolderInv, FilesArePast
  <2> QED BY <2>1, <2>2 DEF PruneOne, gone
<1>6. Newest(files') = Newest(files) /\ Newest(files) \in DOMAIN files'
  <2>1. DOMAIN files' \in SUBSET Seconds
    BY <1>5, FilesAreSeconds DEF FolderInv
  <2>2. Newest(files) \in DOMAIN files' /\ \A s \in DOMAIN files' : s <= Newest(files)
    BY <1>3, <1>5
  <2> QED BY <2>1, <2>2, LatestIsUnique DEF Newest
<1>7. FilesArePast'
  BY <1>5 DEF PruneOne, FolderInv, FilesArePast, process, history
<1>8. SaveIsLatest'
  <2>1. ASSUME Saving PROVE task.name # gone
    <3>1. task.name \in DOMAIN files /\ \A s \in DOMAIN files : s <= task.name
      BY <2>1 DEF FolderInv, SaveIsLatest, PruneOne
    <3>2. Newest(files) = task.name
      BY <3>1, FilesAreSeconds, LatestIsUnique DEF FolderInv, Newest
    <3> QED BY <1>3, <3>2
  <2> QED BY <1>4, <1>5, <2>1
          DEF PruneOne, FolderInv, SaveIsLatest, Saving, process, history
<1>9. NewestIsKept'
  BY <1>3, <1>4, <1>5, <1>6 DEF NewestIsKept
<1>10. LastSaveRestorable'
  <2>1. files' # <<>>
    BY <1>6
  <2> QED BY <1>5, <1>6, <2>1 DEF PruneOne, FolderInv, LastSaveRestorable, process, history
<1> QED BY <1>7, <1>8, <1>9, <1>10 DEF FolderInv

-----------------------------------------------------------------------------
(* The types and the timer *)

LEMMA Numbers ==
  /\ MaxClock \in Nat /\ MaxChanges \in Nat
  /\ 0 \in Seconds /\ 0 \in Versions
  /\ Seconds \subseteq Int /\ Never \notin Seconds
  /\ 1 \in RetentionCounts
BY SnapshotsAssumption DEF Seconds, Versions, Never, RetentionCounts

LEMMA IdleIsTask == Idle \in Task
BY Numbers DEF Idle, Task

LEMMA SaveOfIsTask ==
  ASSUME clock \in Seconds, NEW kind \in {"autosave", "manual", "shutdown"},
         NEW version \in Versions
  PROVE  SaveOf(kind, version) \in Task
BY DEF SaveOf, Task

\* What becomes of a snapshot's contents when it is read is a version.
LEMMA ImportedIsVersion ==
  ASSUME TypeOK, NEW second \in DOMAIN files
  PROVE  Imported(second) \in Versions
BY Numbers DEF TypeOK, Imported, Snapshot

LEMMA TickTypes ==
  ASSUME TypeOK, Tick
  PROVE  TypeOK' /\ clock' \in Int /\ clock <= clock'
<1>1. clock' \in Seconds /\ clock' = clock + 1 /\ clock \in Int
  BY SnapshotsAssumption DEF TypeOK, Tick, Seconds
<1> QED BY <1>1, Numbers DEF TypeOK, Tick, process, history

LEMMA NextVersion ==
  ASSUME changes \in Versions, changes < MaxChanges
  PROVE  changes + 1 \in Versions
BY SnapshotsAssumption DEF Versions

LEMMA ChangeTypes ==
  ASSUME TypeOK, Change
  PROVE  TypeOK'
BY NextVersion DEF TypeOK, Change

LEMMA ReportMessageTypes ==
  ASSUME TypeOK, ReportMessage
  PROVE  TypeOK' /\ changed_at' # Never
<1>1. changes + 1 \in Versions /\ clock \in Seconds
  BY NextVersion DEF TypeOK, ReportMessage
<1>2. ChangedSince \in Seconds
  BY DEF TypeOK, ChangedSince
<1>3. task' \in Task
  BY <1>1, IdleIsTask, SaveOfIsTask DEF ReportMessage
<1>4. changed_at' \in Seconds /\ changed_at' # Never
  BY <1>2, Numbers DEF ReportMessage
<1>5. up' /\ changes' = changes + 1 /\ memory' = changes + 1
  BY DEF ReportMessage
<1> QED BY <1>1, <1>3, <1>4, <1>5 DEF TypeOK, ReportMessage

LEMMA SaveStateNowTypes ==
  ASSUME TypeOK, SaveStateNow
  PROVE  TypeOK'
<1>1. task' \in Task
  BY SaveOfIsTask DEF TypeOK, SaveStateNow
<1> QED BY <1>1 DEF TypeOK, SaveStateNow, history

\* While a save goes on, the process runs.
LEMMA BusyIsUp ==
  ASSUME TypeOK, task.step # "idle"
  PROVE  up /\ task \in Task
BY DEF TypeOK, Idle

LEMMA OpenFileTypes ==
  ASSUME TypeOK, FolderInv, OpenFile
  PROVE  TypeOK'
<1>1. up /\ task \in Task
  BY BusyIsUp DEF OpenFile
<1>2. task' \in Task
  BY <1>1 DEF OpenFile, Task
<1>3. /\ files' \in [DOMAIN files \cup {task.name} -> Snapshot]
      /\ DOMAIN files' = DOMAIN files \cup {task.name}
  BY <1>1, WrittenIs DEF OpenFile, FolderInv, FilesArePast, Task
<1>4. DOMAIN files' \subseteq Seconds /\ \A s \in DOMAIN files' : files'[s] \in Snapshot
  BY <1>1, <1>3 DEF TypeOK, Task
<1>5. up' /\ cut_short' \in BOOLEAN
  BY <1>1 DEF OpenFile
<1> QED BY <1>2, <1>4, <1>5 DEF TypeOK, OpenFile

LEMMA FinishFileTypes ==
  ASSUME TypeOK, FolderInv, FinishFile
  PROVE  TypeOK'
<1>1. up /\ task \in Task
  BY BusyIsUp DEF FinishFile
<1>2. Stale(files, retention) \in SUBSET Seconds
  BY DEF TypeOK, Stale
<1>3. task' \in Task
  BY <1>1, <1>2 DEF FinishFile, Task
<1>4. /\ files' \in [DOMAIN files \cup {task.name} -> Snapshot]
      /\ DOMAIN files' = DOMAIN files \cup {task.name}
  BY <1>1, WrittenIs DEF FinishFile, FolderInv, FilesArePast, Task
<1>5. DOMAIN files' \subseteq Seconds /\ \A s \in DOMAIN files' : files'[s] \in Snapshot
  BY <1>1, <1>4 DEF TypeOK, Task
<1>6. last_completed' \in Versions
  BY <1>1 DEF FinishFile, Task
<1>7. up' /\ cut_short' = FALSE /\ unsaved' = FALSE /\ gave_up' = FALSE
  BY <1>1 DEF FinishFile
<1> QED BY <1>3, <1>5, <1>6, <1>7 DEF TypeOK, FinishFile

LEMMA PruneOneTypes ==
  ASSUME TypeOK, PruneOne
  PROVE  TypeOK'
<1>1. up /\ task \in Task
  BY BusyIsUp DEF PruneOne
<1>2. task' \in Task
  BY <1>1 DEF PruneOne, Task
<1>3. DOMAIN files' \subseteq Seconds /\ \A s \in DOMAIN files' : files'[s] \in Snapshot
  BY DEF TypeOK, PruneOne
<1>4. up'
  BY <1>1 DEF PruneOne, process
<1> QED BY <1>2, <1>3, <1>4 DEF TypeOK, PruneOne, history

LEMMA EndedTypes ==
  ASSUME TypeOK, NEW saved \in BOOLEAN, Ended(saved), task.step # "idle"
  PROVE  TypeOK'
<1>1. up /\ task \in Task
  BY BusyIsUp
<1>2. task' \in Task /\ task' = Idle
  BY IdleIsTask DEF Ended
<1>3. changed_at' \in Seconds \cup {Never}
  BY DEF TypeOK, Ended, TimerAfter
<1>4. memory' \in Versions
  BY Numbers DEF TypeOK, Ended
<1>5. up' \in BOOLEAN /\ unsaved' \in BOOLEAN /\ gave_up' \in BOOLEAN
  BY DEF TypeOK, Ended
<1>6. ~up' => memory' = 0 /\ changed_at' = Never /\ ~unsaved'
  BY DEF Ended
<1> QED BY <1>2, <1>3, <1>4, <1>5, <1>6 DEF TypeOK, Ended

LEMMA UpdateCommsSettingsTypes ==
  ASSUME TypeOK, NEW keep \in RetentionCounts, NEW on \in BOOLEAN,
         UpdateCommsSettings(keep, on)
  PROVE  TypeOK'
<1>1. Stale(files, keep) \in SUBSET Seconds
  BY DEF TypeOK, Stale
<1>2. task' \in Task
  BY <1>1, IdleIsTask DEF UpdateCommsSettings, Idle, Task
<1>3. up' /\ retention' \in 1..MaxRetention /\ enabled' \in BOOLEAN
  BY DEF UpdateCommsSettings, RetentionCounts
<1> QED BY <1>2, <1>3 DEF TypeOK, UpdateCommsSettings, history

LEMMA GoneTypes ==
  ASSUME TypeOK, Gone
  PROVE  TypeOK'
BY Numbers, IdleIsTask DEF TypeOK, Gone

LEMMA ShutdownTypes ==
  ASSUME TypeOK, Shutdown
  PROVE  TypeOK'
<1>1. CASE enabled
  <2>1. task' \in Task
    BY <1>1, SaveOfIsTask DEF TypeOK, Shutdown
  <2>2. up'
    BY <1>1 DEF Shutdown
  <2> QED BY <1>1, <2>1, <2>2 DEF TypeOK, Shutdown, history
<1>2. CASE ~enabled
  BY <1>2, GoneTypes DEF Shutdown
<1> QED BY <1>1, <1>2

LEMMA StartTypes ==
  ASSUME TypeOK, FolderInv, NEW keep \in RetentionCounts, NEW on \in BOOLEAN,
         NEW option, Start(on, keep, option)
  PROVE  TypeOK'
<1>1. memory' \in Versions
  <2>1. CASE ~on \/ option = "none" \/ files = <<>>
    BY <2>1, Numbers DEF Start
  <2>2. CASE ~ (~on \/ option = "none" \/ files = <<>>)
    <3>1. DOMAIN files \in SUBSET Seconds /\ DOMAIN files # {}
      BY <2>2, NoFiles DEF FolderInv, FilesArePast
    <3>2. Newest(files) \in DOMAIN files
      BY <3>1, LatestExists DEF Newest
    <3> QED BY <2>2, <3>2, ImportedIsVersion DEF Start
  <2> QED BY <2>1, <2>2
<1>2. up' /\ enabled' \in BOOLEAN /\ retention' \in 1..MaxRetention /\ gave_up' \in BOOLEAN
  BY DEF Start, RetentionCounts
<1> QED BY <1>1, <1>2 DEF TypeOK, Start

LEMMA StartFromTypes ==
  ASSUME TypeOK, NEW keep \in RetentionCounts, NEW second \in DOMAIN files,
         StartFrom(keep, second)
  PROVE  TypeOK'
<1>1. memory' \in Versions
  BY ImportedIsVersion DEF StartFrom
<1>2. up' /\ enabled' \in BOOLEAN /\ retention' \in 1..MaxRetention /\ gave_up' \in BOOLEAN
  BY DEF StartFrom, RetentionCounts
<1> QED BY <1>1, <1>2 DEF TypeOK, StartFrom

-----------------------------------------------------------------------------
(* Every step *)

LEMMA DiskInvParts == DiskInv <=> TypeOK /\ FolderInv /\ UnsavedIsTimed
BY DEF DiskInv, SnapshotsInvariant, FolderInv

LEMMA DiskInvInit == Init => DiskInv
<1> SUFFICES ASSUME Init PROVE DiskInv
  OBVIOUS
<1>1. task = Idle /\ task \in Task
  BY IdleIsTask DEF Init
<1>2. task.step = "idle" /\ task.stale = {} /\ task.kind = "none"
  BY <1>1 DEF Idle
<1>3. files = <<>> /\ DOMAIN files = {}
  BY DEF Init
<1>4. TypeOK
  <2>1. retention \in 1..MaxRetention
    BY Numbers DEF Init, RetentionCounts
  <2>2. clock \in Seconds /\ memory \in Versions /\ changes \in Versions
    BY Numbers DEF Init
  <2>3. /\ up \in BOOLEAN /\ enabled \in BOOLEAN
        /\ cut_short \in BOOLEAN /\ unsaved \in BOOLEAN /\ gave_up \in BOOLEAN
    BY DEF Init
  <2>4. last_completed = Nothing /\ changed_at = Never /\ memory = 0 /\ ~unsaved
    BY DEF Init
  <2> QED BY <1>1, <1>3, <2>1, <2>2, <2>3, <2>4 DEF TypeOK
<1>5. FilesArePast
  BY <1>3 DEF FilesArePast
<1>6. SaveIsLatest /\ NewestIsKept
  BY <1>2 DEF SaveIsLatest, Saving, NewestIsKept
<1>7. LastSaveRestorable /\ UnsavedIsTimed
  BY DEF Init, LastSaveRestorable, UnsavedIsTimed
<1> QED BY <1>4, <1>5, <1>6, <1>7, DiskInvParts DEF FolderInv

\* A step that does not touch the timer, the reports or the folder.
LEMMA TickKeeps == DiskInv /\ Tick => DiskInv'
<1> SUFFICES ASSUME DiskInv, Tick PROVE DiskInv'
  OBVIOUS
<1>1. TypeOK /\ FolderInv /\ UnsavedIsTimed
  BY DiskInvParts
<1>2. TypeOK' /\ clock' \in Int /\ clock <= clock'
  BY <1>1, TickTypes
<1>3. clock \in Int /\ task.name \in Seconds /\ MaxClock \in Int
  BY <1>1, Numbers DEF TypeOK, Task
<1>4. FolderInv'
  BY <1>1, <1>2, <1>3, FolderUntouched DEF Tick, process, history
<1>5. UnsavedIsTimed'
  BY <1>1 DEF UnsavedIsTimed, Tick, process, history
<1> QED BY <1>2, <1>4, <1>5 DEF DiskInv, SnapshotsInvariant, FolderInv

\* Steps of the process, or of nobody, that leave the folder and the task alone.
LEMMA QuietKeeps ==
  ASSUME DiskInv,
         \/ Change
         \/ UNCHANGED vars
         \/ \E keep \in RetentionCounts, on \in BOOLEAN, option \in {"none", "latest"} :
               Start(on, keep, option)
         \/ \E keep \in RetentionCounts, second \in DOMAIN files : StartFrom(keep, second)
  PROVE  DiskInv'
<1>1. TypeOK /\ FolderInv /\ UnsavedIsTimed
  BY DiskInvParts
<1>2. TypeOK'
  <2>1. CASE Change
    BY <1>1, <2>1, ChangeTypes
  <2>2. CASE UNCHANGED vars
    BY <1>1, <2>2 DEF TypeOK, vars, process, history
  <2>3. CASE \E keep \in RetentionCounts, on \in BOOLEAN, option \in {"none", "latest"} :
                Start(on, keep, option)
    BY <1>1, <2>3, StartTypes
  <2>4. CASE \E keep \in RetentionCounts, second \in DOMAIN files : StartFrom(keep, second)
    BY <1>1, <2>4, StartFromTypes
  <2> QED BY <2>1, <2>2, <2>3, <2>4
<1>3. UNCHANGED <<clock, task, files, cut_short, unsaved, last_completed, changed_at>>
  BY DEF Change, vars, process, history, Start, StartFrom
<1>4. clock \in Int /\ task.name \in Seconds /\ MaxClock \in Int /\ clock <= clock
  BY <1>1, Numbers DEF TypeOK, Task
<1>5. FolderInv'
  BY <1>1, <1>3, <1>4, FolderUntouched
<1>6. UnsavedIsTimed'
  <2>1. gave_up' = gave_up \/ ~up
    BY DEF Change, vars, process, history, Start, StartFrom
  <2>2. ~up => ~unsaved
    BY <1>1 DEF TypeOK
  <2> QED BY <1>1, <1>3, <2>1, <2>2 DEF UnsavedIsTimed
<1> QED BY <1>2, <1>5, <1>6 DEF DiskInv, SnapshotsInvariant, FolderInv

LEMMA ReportMessageKeeps == DiskInv /\ ReportMessage => DiskInv'
<1> SUFFICES ASSUME DiskInv, ReportMessage PROVE DiskInv'
  OBVIOUS
<1>1. TypeOK /\ FolderInv
  BY DiskInvParts
<1>2. TypeOK' /\ changed_at' # Never
  BY <1>1, ReportMessageTypes
<1>3. FolderInv'
  <2>1. UNCHANGED <<clock, files, cut_short, last_completed>> /\ clock \in Int
    BY <1>1, Numbers DEF ReportMessage, TypeOK
  <2>2. task' = SaveOf("autosave", changes + 1) \/ task' = Idle
    BY DEF ReportMessage
  <2> QED BY <1>1, <2>1, <2>2, SaveBegins, FolderLeft
<1> QED BY <1>2, <1>3 DEF DiskInv, SnapshotsInvariant, FolderInv, UnsavedIsTimed

LEMMA SaveStateNowKeeps == DiskInv /\ SaveStateNow => DiskInv'
<1> SUFFICES ASSUME DiskInv, SaveStateNow PROVE DiskInv'
  OBVIOUS
<1>1. TypeOK /\ FolderInv /\ UnsavedIsTimed
  BY DiskInvParts
<1>2. TypeOK'
  BY <1>1, SaveStateNowTypes
<1>3. FolderInv'
  <2>1. UNCHANGED <<clock, files, cut_short, last_completed>> /\ clock \in Int
    BY <1>1, Numbers DEF SaveStateNow, TypeOK, history
  <2> QED BY <1>1, <2>1, SaveBegins DEF SaveStateNow
<1>4. UnsavedIsTimed'
  BY <1>1 DEF UnsavedIsTimed, SaveStateNow, history
<1> QED BY <1>2, <1>3, <1>4 DEF DiskInv, SnapshotsInvariant, FolderInv

\* The file operations.
LEMMA FileStepKeeps == DiskInv /\ (OpenFile \/ FinishFile \/ PruneOne) => DiskInv'
<1> SUFFICES ASSUME DiskInv, OpenFile \/ FinishFile \/ PruneOne PROVE DiskInv'
  OBVIOUS
<1>1. TypeOK /\ FolderInv /\ UnsavedIsTimed
  BY DiskInvParts
<1>2. TypeOK' /\ FolderInv'
  BY <1>1, OpenFileTypes, OpenFileFolder, FinishFileTypes, FinishFileFolder,
     PruneOneTypes, PruneOneFolder
<1>3. UnsavedIsTimed'
  <2>1. CASE OpenFile
    BY <1>1, <2>1 DEF UnsavedIsTimed, OpenFile
  <2>2. CASE FinishFile
    BY <2>2 DEF UnsavedIsTimed, FinishFile
  <2>3. CASE PruneOne
    BY <1>1, <2>3 DEF UnsavedIsTimed, PruneOne, history
  <2> QED BY <2>1, <2>2, <2>3
<1> QED BY <1>2, <1>3 DEF DiskInv, SnapshotsInvariant, FolderInv

\* An autosave that succeeded leaves nothing unsaved, one that failed gives up.
LEMMA EndedKeeps == DiskInv /\ (EndOfSave \/ SaveFails) => DiskInv'
<1> SUFFICES ASSUME DiskInv, EndOfSave \/ SaveFails PROVE DiskInv'
  OBVIOUS
<1>1. TypeOK /\ FolderInv /\ UnsavedIsTimed
  BY DiskInvParts
<1>2. PICK saved \in BOOLEAN :
         /\ Ended(saved)
         /\ task.step # "idle"
         /\ saved => task.step = "prune"
  BY DEF EndOfSave, SaveFails
<1>3. TypeOK'
  BY <1>1, <1>2, EndedTypes
<1>4. FolderInv'
  BY <1>1, <1>2, FolderLeft DEF Ended
<1>5. UnsavedIsTimed'
  <2>1. CASE task.kind = "autosave"
    <3>1. saved => ~unsaved
      BY <1>1, <1>2, <2>1 DEF FolderInv, SaveIsLatest, Saving
    <3> QED BY <1>2, <2>1, <3>1 DEF Ended, UnsavedIsTimed
  <2>2. CASE task.kind = "shutdown"
    BY <1>2, <2>2 DEF Ended, UnsavedIsTimed
  <2>3. CASE task.kind \notin {"autosave", "shutdown"}
    BY <1>1, <1>2, <2>3 DEF Ended, UnsavedIsTimed, TimerAfter
  <2> QED BY <2>1, <2>2, <2>3
<1> QED BY <1>3, <1>4, <1>5 DEF DiskInv, SnapshotsInvariant, FolderInv

LEMMA UpdateCommsSettingsKeeps ==
  ASSUME DiskInv, NEW keep \in RetentionCounts, NEW on \in BOOLEAN,
         UpdateCommsSettings(keep, on)
  PROVE  DiskInv'
<1>1. TypeOK /\ FolderInv /\ UnsavedIsTimed
  BY DiskInvParts
<1>2. TypeOK'
  BY <1>1, UpdateCommsSettingsTypes
<1>3. UNCHANGED <<clock, files, cut_short, last_completed, changed_at, unsaved, gave_up>>
  BY DEF UpdateCommsSettings, history
<1>4. FolderInv'
  <2>1. CASE keep < Cardinality(DOMAIN files)
    BY <1>1, <1>3, <2>1, PruningBegins DEF UpdateCommsSettings
  <2>2. CASE ~ (keep < Cardinality(DOMAIN files))
    BY <1>1, <1>3, <2>2, FolderLeft DEF UpdateCommsSettings
  <2> QED BY <2>1, <2>2
<1>5. UnsavedIsTimed'
  BY <1>1, <1>3 DEF UnsavedIsTimed
<1> QED BY <1>2, <1>4, <1>5 DEF DiskInv, SnapshotsInvariant, FolderInv

LEMMA ShutdownKeeps == DiskInv /\ (Shutdown \/ Crash) => DiskInv'
<1> SUFFICES ASSUME DiskInv, Shutdown \/ Crash PROVE DiskInv'
  OBVIOUS
<1>1. TypeOK /\ FolderInv /\ UnsavedIsTimed
  BY DiskInvParts
<1>2. TypeOK'
  BY <1>1, ShutdownTypes, GoneTypes DEF Crash
<1>3. \/ Gone
      \/ /\ task' = SaveOf("shutdown", memory)
         /\ UNCHANGED <<clock, files, cut_short, last_completed, changed_at, unsaved, gave_up>>
  BY DEF Shutdown, Crash, history
<1>4. FolderInv'
  <2>1. clock \in Int
    BY <1>1, Numbers DEF TypeOK
  <2> QED BY <1>1, <1>3, <2>1, SaveBegins, FolderLeft DEF Gone
<1>5. UnsavedIsTimed'
  BY <1>1, <1>3 DEF UnsavedIsTimed, Gone
<1> QED BY <1>2, <1>4, <1>5 DEF DiskInv, SnapshotsInvariant, FolderInv

LEMMA DiskInvStep == DiskInv /\ [Next]_vars => DiskInv'
<1> SUFFICES ASSUME DiskInv, [Next]_vars PROVE DiskInv'
  OBVIOUS
<1>1. CASE Tick
  BY <1>1, TickKeeps
<1>2. CASE Change \/ UNCHANGED vars
  BY <1>2, QuietKeeps
<1>3. CASE ReportMessage
  BY <1>3, ReportMessageKeeps
<1>4. CASE SaveStateNow
  BY <1>4, SaveStateNowKeeps
<1>5. CASE SaveStep
  BY <1>5, FileStepKeeps, EndedKeeps DEF SaveStep
<1>6. CASE ProcessStep
  <2>1. CASE Shutdown \/ Crash
    BY <2>1, ShutdownKeeps
  <2>2. CASE \E keep \in RetentionCounts, on \in BOOLEAN : UpdateCommsSettings(keep, on)
    BY <2>2, UpdateCommsSettingsKeeps
  <2>3. CASE \E keep \in RetentionCounts, on \in BOOLEAN, option \in {"none", "latest"} :
                Start(on, keep, option)
    BY <2>3, QuietKeeps
  <2>4. CASE \E keep \in RetentionCounts, second \in DOMAIN files : StartFrom(keep, second)
    BY <2>4, QuietKeeps
  <2> QED BY <1>6, <2>1, <2>2, <2>3, <2>4 DEF ProcessStep
<1> QED BY <1>1, <1>2, <1>3, <1>4, <1>5, <1>6 DEF Next

LEMMA DiskInvAlways == Spec => []DiskInv
BY DiskInvInit, DiskInvStep, PTL DEF Spec

-----------------------------------------------------------------------------
(* The properties *)

\* The type invariant, and what --restore finds: the newest snapshot, which no
\* pruning removes, is the last one written in full, or a torn one after it.
THEOREM SnapshotsInvariantAlways == Spec => []SnapshotsInvariant
<1>1. DiskInv => SnapshotsInvariant
  BY DEF DiskInv
<1> QED BY <1>1, DiskInvAlways, PTL

\* While a report is in memory only, the autosave timer runs, or an autosave has
\* failed.
THEOREM UnsavedIsTimedAlways == Spec => []UnsavedIsTimed
<1>1. DiskInv => UnsavedIsTimed
  BY DEF DiskInv
<1> QED BY <1>1, DiskInvAlways, PTL

IntactStep ==
    \A s \in DOMAIN files :
        files[s].complete =>
            \/ s \in DOMAIN files' /\ files'[s].complete
            \/ \E t \in DOMAIN files' : t > s /\ files'[t].complete
            \/ task.step = "open" /\ task.name = s
            \/ task.kind = "settings"

\* Pruning after a save takes only snapshots earlier than the one just written.
LEMMA PruneOneIntact ==
  ASSUME DiskInv, PruneOne, NEW s \in DOMAIN files, files[s].complete
  PROVE  \/ s \in DOMAIN files' /\ files'[s].complete
         \/ \E t \in DOMAIN files' : t > s /\ files'[t].complete
         \/ task.kind = "settings"
<1>1. TypeOK /\ FolderInv
  BY DiskInvParts
<1> DEFINE gone == Max(task.stale)
<1>2. gone \in task.stale
  <2>1. task.stale \in SUBSET Seconds /\ task.stale # {}
    BY <1>1 DEF TypeOK, Task, PruneOne
  <2> QED BY <2>1, LatestExists
<1> HIDE DEF gone
<1>3. files' = files \/ files' = [t \in DOMAIN files \ {gone} |-> files[t]]
  BY DEF PruneOne, gone
<1>4. CASE files' = files \/ s # gone
  BY <1>3, <1>4
<1>5. CASE /\ files' = [t \in DOMAIN files \ {gone} |-> files[t]]
           /\ s = gone
           /\ task.kind # "settings"
  <2>1. /\ task.name \in DOMAIN files /\ files[task.name].complete
        /\ \A t \in DOMAIN files : t <= task.name
    BY <1>1, <1>5 DEF FolderInv, SaveIsLatest, Saving, PruneOne
  <2>2. Newest(files) = task.name
    BY <1>1, <2>1, FilesAreSeconds, LatestIsUnique DEF FolderInv, Newest
  <2>3. task.name # s
    BY <1>1, <1>2, <1>5, <2>2 DEF FolderInv, NewestIsKept
  <2>4. task.name > s
    <3>1. task.name \in Int /\ s \in Int /\ s <= task.name
      BY <1>1, <2>1, FilesAreSeconds, Numbers DEF FolderInv
    <3> QED BY <2>3, <3>1
  <2>5. task.name \in DOMAIN files' /\ files'[task.name] = files[task.name]
    BY <1>5, <2>1, <2>3
  <2> QED BY <2>1, <2>4, <2>5
<1> QED BY <1>3, <1>4, <1>5

LEMMA IntactEachStep == DiskInv /\ [Next]_vars => [IntactStep]_vars
<1> SUFFICES ASSUME DiskInv, [Next]_vars, NEW s \in DOMAIN files, files[s].complete
             PROVE  \/ s \in DOMAIN files' /\ files'[s].complete
                    \/ \E t \in DOMAIN files' : t > s /\ files'[t].complete
                    \/ task.step = "open" /\ task.name = s
                    \/ task.kind = "settings"
  BY DEF IntactStep
<1>1. CASE UNCHANGED files
  BY <1>1
<1>2. CASE OpenFile
  <2>1. s \in DOMAIN files' /\ (s # task.name => files'[s] = files[s])
    BY <1>2 DEF OpenFile, Written
  <2> QED BY <1>2, <2>1 DEF OpenFile
<1>3. CASE FinishFile
  <2>1. /\ s \in DOMAIN files'
        /\ files'[s] = files[s] \/ files'[s] = [complete |-> TRUE, version |-> task.version]
    BY <1>3 DEF FinishFile, Written
  <2>2. files'[s] = files[s] \/ files'[s].complete = TRUE
    BY <2>1
  <2> QED BY <2>1, <2>2
<1>4. CASE PruneOne
  BY <1>4, PruneOneIntact
<1>5. UNCHANGED files \/ OpenFile \/ FinishFile \/ PruneOne
  <2>1. Ended(TRUE) \/ Ended(FALSE) => UNCHANGED files
    BY DEF Ended
  <2> QED BY <2>1 DEF Next, Tick, Change, ReportMessage, SaveStateNow, SaveStep, EndOfSave,
                 SaveFails, ProcessStep, Shutdown, Crash, Gone, UpdateCommsSettings,
                 Start, StartFrom, vars
<1> QED BY <1>1, <1>2, <1>3, <1>4, <1>5

\* An intact snapshot goes only when a later one is intact, but for the two
\* exceptions that IntactGivesWayToLater names.
THEOREM IntactGivesWayToLaterAlways == Spec => IntactGivesWayToLater
<1>1. DiskInv /\ [Next]_vars => [IntactStep]_vars
  BY IntactEachStep
<1>2. Spec => [][IntactStep]_vars
  BY <1>1, DiskInvAlways, PTL DEF Spec
<1>3. [IntactStep]_vars <=> [\A s \in DOMAIN files :
           files[s].complete =>
               \/ s \in DOMAIN files' /\ files'[s].complete
               \/ \E t \in DOMAIN files' : t > s /\ files'[t].complete
               \/ task.step = "open" /\ task.name = s
               \/ task.kind = "settings"]_vars
  BY DEF IntactStep
<1> QED BY <1>2, <1>3, PTL DEF IntactGivesWayToLater

-----------------------------------------------------------------------------
(* ProviderDisk: the settings and the snapshots on one disk *)

LEMMA DiskStepIsSettingsStep ==
  ASSUME TypeOK, [DiskNext]_diskVars
  PROVE  [Settings!Next]_Settings!vars
<1>1. UNCHANGED <<up, settingsState>> => UNCHANGED Settings!vars
  BY DEF settingsState, Settings!vars
<1>2. CASE StartDisk \/ CrashDisk \/ CommsRequest \/ ClientRequest
  BY <1>2 DEF StartDisk, CrashDisk, CommsRequest, ClientRequest, Settings!Next
<1>3. CASE SettingsSaveStep \/ Outside
  BY <1>3 DEF SettingsSaveStep, Outside, Settings!Next
<1>4. CASE ShutdownDisk \/ SnapshotStep
  <2>1. CASE Settings!StopProvider
    BY <2>1 DEF Settings!Next
  <2>2. CASE up' /\ UNCHANGED settingsState
    <3>1. CASE UNCHANGED up
      BY <1>1, <2>2, <3>1
    <3>2. CASE EndOfSave \/ SaveFails
      <4>1. up
        BY <3>2, BusyIsUp DEF EndOfSave, SaveFails
      <4>2. up \in BOOLEAN /\ up' \in BOOLEAN
        BY <3>2 DEF TypeOK, EndOfSave, SaveFails, Ended
      <4> QED BY <1>1, <2>2, <4>1, <4>2
    <3>3. ShutdownDisk => UNCHANGED up
      BY <2>2 DEF ShutdownDisk, Shutdown, Gone
    <3>4. SnapshotStep => UNCHANGED up \/ EndOfSave \/ SaveFails
      BY DEF SnapshotStep, SaveStep, OpenFile, FinishFile, PruneOne
    <3> QED BY <1>4, <3>1, <3>2, <3>3, <3>4
  <2> QED BY <1>4, <2>1, <2>2 DEF ShutdownDisk, SnapshotStep
<1>5. CASE Message \/ Meanwhile
  BY <1>1, <1>5 DEF Message, Meanwhile, ReportMessage, SaveStateNow, Tick, Change, process
<1>6. CASE UNCHANGED diskVars
  BY <1>1, <1>6 DEF diskVars
<1> QED BY <1>2, <1>3, <1>4, <1>5, <1>6 DEF DiskNext

LEMMA DiskStepIsSnapshotsStep ==
  ASSUME [DiskNext]_diskVars
  PROVE  [Next]_vars
<1>1. UNCHANGED <<up, snapshotState>> => UNCHANGED vars
  BY DEF snapshotState, vars, process
<1>2. CASE StartDisk
  BY <1>2 DEF StartDisk, Next, ProcessStep
<1>3. CASE CrashDisk \/ ShutdownDisk
  BY <1>3 DEF CrashDisk, ShutdownDisk, Next, ProcessStep
<1>4. CASE CommsRequest
  BY <1>4 DEF CommsRequest, Next, ProcessStep
<1>5. CASE SnapshotStep \/ Message \/ Meanwhile
  BY <1>5 DEF SnapshotStep, Message, Meanwhile, Next
<1>6. CASE ClientRequest
  BY <1>1, <1>6 DEF ClientRequest, Settings!UpdateClientSettings
<1>7. CASE SettingsSaveStep
  BY <1>1, <1>7 DEF SettingsSaveStep, Settings!LoadJson, Settings!CreateBackup,
                    Settings!FillBackup, Settings!TruncateFile, Settings!WriteFile,
                    Settings!ApplySettings, Settings!SaveFails, Settings!SaveStep
<1>8. CASE Outside
  BY <1>1, <1>8 DEF Outside, Settings!EditFile, Settings!RepairFile, Settings!FolderChanges
<1>9. CASE UNCHANGED diskVars
  BY <1>1, <1>9 DEF diskVars
<1> QED BY <1>2, <1>3, <1>4, <1>5, <1>6, <1>7, <1>8, <1>9 DEF DiskNext

\* The provider with both on its disk uses the file as ProviderSettings says and the
\* snapshots as StateSnapshots says, so that what each promises holds of the whole
\* (app.py:1822-1981, server.py:163-222).
THEOREM DiskUsesBoth == DiskSpec => Settings!Spec /\ Spec
<1>1. DiskInit => Settings!Init /\ Init
  BY DEF DiskInit
<1>2. DiskSpec => Spec
  <2>1. [DiskNext]_diskVars => [Next]_vars
    BY DiskStepIsSnapshotsStep
  <2> QED BY <1>1, <2>1, PTL DEF DiskSpec, Spec
<1>3. TypeOK /\ [DiskNext]_diskVars => [Settings!Next]_Settings!vars
  BY DiskStepIsSettingsStep
<1>4. SnapshotsInvariant => TypeOK
  BY DEF SnapshotsInvariant
<1> QED BY <1>1, <1>2, <1>3, <1>4, SnapshotsInvariantAlways, PTL DEF DiskSpec, Settings!Spec

\* What can be restored can be restored, what is not saved is timed, and what is
\* intact gives way to something later only, although requests change CONFIG and
\* prune, the file is torn, and the folder comes and goes (state_persistence.py:97-190).
THEOREM DiskKeepsSnapshots ==
    DiskSpec => []SnapshotsInvariant /\ []UnsavedIsTimed /\ IntactGivesWayToLater
BY DiskUsesBoth, SnapshotsInvariantAlways, UnsavedIsTimedAlways, IntactGivesWayToLaterAlways, PTL
=============================================================================
