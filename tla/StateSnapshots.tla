---------------------------- MODULE StateSnapshots ----------------------------
(***************************************************************************)
(* Snapshots of the provider's state (opamp_provider/state_persistence.py) *)
(* and what makes and reads them: the autosave timer, the operator's "save *)
(* now", the farewell save and the change of retention in app.py, and      *)
(* --restore in server.py.                                                 *)
(*                                                                         *)
(* A snapshot's name is the second it was begun in; its contents are the   *)
(* version of the store that export_persisted_state returned, 0 being the  *)
(* empty store; what import_persisted_state alters in a record is no part  *)
(* of the version.  A save keeps the event loop busy, but MCP tools in     *)
(* their threads may change the store meanwhile, and the process may be    *)
(* killed between any two file operations.  The clock does not go back and *)
(* the folder stays the same.                                              *)
(***************************************************************************)
EXTENDS Integers, FiniteSets, FiniteSetsExt

CONSTANTS
    Interval,      \* autosave_interval_seconds_since_change
    MaxRetention,  \* bound: largest retention_count
    MaxClock,      \* bound: seconds
    MaxChanges     \* bound: versions of the store

ASSUME SnapshotsAssumption ==
    /\ Interval \in Nat \ {0}
    /\ MaxRetention \in Nat \ {0}
    /\ MaxClock \in Nat
    /\ MaxChanges \in Nat

VARIABLES
    clock,
    up,             \* the provider process runs
    enabled,        \* CONFIG.state_persistence.enabled
    retention,      \* CONFIG.state_persistence.retention_count
    memory,         \* version of STORE
    changed_at,     \* _LAST_AUTOSAVE_ELIGIBLE_CHANGE_AT
    task,           \* the save or pruning the event loop is busy with
    files,          \* second in the name -> snapshot
    \* what happened so far
    changes,        \* number of versions so far
    last_completed, \* version written by the last save that was not cut short
    cut_short,      \* a later save had opened its file and did not finish
    unsaved,        \* an agent reported something since the last finished save
    gave_up         \* an autosave failed since then

process == <<up, enabled, retention, memory, changed_at, task>>
history == <<changes, last_completed, cut_short, unsaved, gave_up>>
vars == <<clock, process, files, history>>

Never == -1
Nothing == -1

Seconds == 0..MaxClock
Versions == 0..MaxChanges
Snapshot == [complete: BOOLEAN, version: Versions]
Task ==
    [kind: {"none", "autosave", "manual", "shutdown", "settings"},
     step: {"idle", "open", "write", "prune"},
     name: Seconds, version: Versions, stale: SUBSET Seconds]
Idle == [kind |-> "none", step |-> "idle", name |-> 0, version |-> 0, stale |-> {}]

-----------------------------------------------------------------------------
(* Naming and pruning *)

\* What the settings and the configuration file are checked for.
RetentionCounts == 1..MaxRetention

Newest(snapshots) == Max(DOMAIN snapshots)

\* Seeded error: the sorting is the wrong way round.
FaultyStaleOldestFirst(snapshots, keep) ==
    {s \in DOMAIN snapshots : Cardinality({t \in DOMAIN snapshots : t < s}) >= keep}

\* Seeded error: one snapshot too many is pruned.
FaultyStaleOneMore(snapshots, keep) ==
    {s \in DOMAIN snapshots : Cardinality({t \in DOMAIN snapshots : t > s}) >= keep - 1}

\* prune_snapshot_files: all but the latest names.
Stale(snapshots, keep) ==
    {s \in DOMAIN snapshots : Cardinality({t \in DOMAIN snapshots : t > s}) >= keep}

Written(name, complete, version) ==
    [s \in DOMAIN files \cup {name} |->
        IF s = name THEN [complete |-> complete, version |-> version] ELSE files[s]]

-----------------------------------------------------------------------------
Init ==
    /\ clock = 0
    /\ up = FALSE
    /\ enabled = FALSE
    /\ retention = 1
    /\ memory = 0
    /\ changed_at = Never
    /\ task = Idle
    /\ files = <<>>
    /\ changes = 0
    /\ last_completed = Nothing
    /\ cut_short = FALSE
    /\ unsaved = FALSE
    /\ gave_up = FALSE

Tick ==
    /\ clock < MaxClock
    /\ clock' = clock + 1
    /\ UNCHANGED <<process, files, history>>

-----------------------------------------------------------------------------
(* The store changes *)

\* Heartbeats, operators and tools: changes the timer does not see.
Change ==
    /\ up
    /\ changes < MaxChanges
    /\ changes' = changes + 1
    /\ memory' = changes + 1
    /\ UNCHANGED <<clock, up, enabled, retention, changed_at, task, files,
                   last_completed, cut_short, unsaved, gave_up>>

SaveOf(kind, version) ==
    [kind |-> kind, step |-> "open", name |-> clock, version |-> version, stale |-> {}]

ChangedSince == IF changed_at = Never THEN clock ELSE changed_at

\* A message that is more than a heartbeat: the store changes, and an autosave
\* begins when the first such change since the last one is old enough.
ReportMessage ==
    /\ up /\ task = Idle
    /\ changes < MaxChanges
    /\ changes' = changes + 1
    /\ memory' = changes + 1
    /\ changed_at' = ChangedSince
    /\ task' = IF enabled /\ clock - ChangedSince >= Interval
               THEN SaveOf("autosave", changes + 1) ELSE Idle
    /\ unsaved' = TRUE
    /\ UNCHANGED <<clock, up, enabled, retention, files, last_completed,
                   cut_short, gave_up>>

-----------------------------------------------------------------------------
(* Saving *)

SaveStateNow ==
    /\ up /\ task = Idle
    /\ enabled
    /\ task' = SaveOf("manual", memory)
    /\ UNCHANGED <<clock, up, enabled, retention, memory, changed_at, files,
                   history>>

\* write_text truncates a snapshot of the same name before it writes.
OpenFile ==
    /\ task.step = "open"
    /\ files' = Written(task.name, FALSE, task.version)
    /\ task' = [task EXCEPT !.step = "write"]
    /\ cut_short' = TRUE
    /\ UNCHANGED <<clock, up, enabled, retention, memory, changed_at, changes,
                   last_completed, unsaved, gave_up>>

FinishFile ==
    /\ task.step = "write"
    /\ files' = Written(task.name, TRUE, task.version)
    /\ task' = [task EXCEPT !.step = "prune", !.stale = Stale(files, retention)]
    /\ last_completed' = task.version
    /\ cut_short' = FALSE
    /\ unsaved' = FALSE
    /\ gave_up' = FALSE
    /\ UNCHANGED <<clock, up, enabled, retention, memory, changed_at, changes>>

\* Stale snapshots go one by one, latest first; one that cannot be removed stays.
PruneOne ==
    /\ task.step = "prune"
    /\ task.stale # {}
    /\ task' = [task EXCEPT !.stale = @ \ {Max(task.stale)}]
    /\ files' \in {files, [s \in DOMAIN files \ {Max(task.stale)} |-> files[s]]}
    /\ UNCHANGED <<clock, up, enabled, retention, memory, changed_at, history>>

\* Seeded error: every save clears the timer, whether or not it succeeded.
FaultyTimerAfter(kind) == Never

\* Only an autosave clears the timer, also when it has failed.
TimerAfter(kind) == IF kind = "autosave" THEN Never ELSE changed_at

\* The handler is done with the save; the farewell is the last thing a process does.
Ended(saved) ==
    /\ up' = (task.kind # "shutdown")
    /\ task' = Idle
    /\ changed_at' = IF task.kind = "shutdown" THEN Never ELSE TimerAfter(task.kind)
    /\ memory' = IF task.kind = "shutdown" THEN 0 ELSE memory
    /\ unsaved' = (unsaved /\ task.kind # "shutdown")
    /\ gave_up' = (gave_up \/ (~saved /\ task.kind = "autosave"))
    /\ UNCHANGED <<clock, enabled, retention, files, changes, last_completed,
                   cut_short>>

EndOfSave == task.step = "prune" /\ task.stale = {} /\ Ended(TRUE)

\* The folder or the file cannot be written; the exception is only logged.
SaveFails == task.step \in {"open", "write"} /\ Ended(FALSE)

-----------------------------------------------------------------------------
(* Settings, end and start of the process *)

\* A smaller retention prunes at once.
UpdateCommsSettings(keep, on) ==
    /\ up /\ task = Idle
    /\ retention' = keep
    /\ enabled' = on
    /\ task' = IF keep < Cardinality(DOMAIN files)
               THEN [Idle EXCEPT !.kind = "settings", !.step = "prune",
                                 !.stale = Stale(files, keep)]
               ELSE Idle
    /\ UNCHANGED <<clock, up, memory, changed_at, files, history>>

Gone ==
    /\ up' = FALSE
    /\ task' = Idle
    /\ memory' = 0
    /\ changed_at' = Never
    /\ unsaved' = FALSE
    /\ UNCHANGED <<clock, enabled, retention, files, changes, last_completed,
                   cut_short, gave_up>>

\* _finalize_server saves once more if persistence is enabled.
Shutdown ==
    /\ up /\ task = Idle
    /\ IF enabled
       THEN /\ task' = SaveOf("shutdown", memory)
            /\ UNCHANGED <<clock, up, enabled, retention, memory, changed_at,
                           files, history>>
       ELSE Gone

Crash == up /\ Gone

\* What a snapshot leaves in the store: a file that cannot be parsed, nothing.
Imported(second) == IF files[second].complete THEN files[second].version ELSE 0

\* server.main: without --restore, with persistence disabled, and without any
\* snapshot the store starts empty.
Start(on, keep, option) ==
    /\ ~up
    /\ up' = TRUE
    /\ enabled' = on
    /\ retention' = keep
    /\ memory' = CASE ~on \/ option = "none" \/ files = <<>> -> 0
                   [] OTHER -> Imported(Newest(files))
    /\ gave_up' = FALSE
    /\ UNCHANGED <<clock, changed_at, task, files, changes, last_completed,
                   cut_short, unsaved>>

\* --restore with the path of a snapshot.
StartFrom(keep, second) ==
    /\ ~up
    /\ up' = TRUE
    /\ enabled' = TRUE
    /\ retention' = keep
    /\ memory' = Imported(second)
    /\ gave_up' = FALSE
    /\ UNCHANGED <<clock, changed_at, task, files, changes, last_completed,
                   cut_short, unsaved>>

-----------------------------------------------------------------------------
SaveStep == OpenFile \/ FinishFile \/ PruneOne \/ EndOfSave \/ SaveFails

ProcessStep ==
    \/ Shutdown
    \/ Crash
    \/ \E keep \in RetentionCounts :
          \/ \E on \in BOOLEAN : UpdateCommsSettings(keep, on)
          \/ \E on \in BOOLEAN, option \in {"none", "latest"} : Start(on, keep, option)
          \/ \E second \in DOMAIN files : StartFrom(keep, second)

Next == Tick \/ Change \/ ReportMessage \/ SaveStateNow \/ SaveStep \/ ProcessStep

Spec == Init /\ [][Next]_vars

-----------------------------------------------------------------------------
(* What the snapshots promise *)

\* Type invariant.  A process that is down holds nothing and is busy with nothing.
TypeOK ==
    /\ clock \in Seconds
    /\ up \in BOOLEAN /\ enabled \in BOOLEAN
    /\ retention \in 1..MaxRetention
    /\ memory \in Versions /\ changes \in Versions
    /\ changed_at \in Seconds \cup {Never}
    /\ task \in Task
    /\ DOMAIN files \subseteq Seconds
    /\ \A s \in DOMAIN files : files[s] \in Snapshot
    /\ last_completed \in Versions \cup {Nothing}
    /\ cut_short \in BOOLEAN /\ unsaved \in BOOLEAN /\ gave_up \in BOOLEAN
    /\ ~up => memory = 0 /\ changed_at = Never /\ task = Idle /\ ~unsaved

\* `provider --restore` brings back exactly what the last finished save wrote,
\* whatever was pruned, overwritten or changed in the settings since, unless a
\* later save was cut short: then it finds that one's torn file first, and starts
\* empty although older snapshots are intact.
LastSaveRestorable ==
    last_completed # Nothing /\ ~cut_short =>
        files # <<>> /\ files[Newest(files)] = [complete |-> TRUE, version |-> last_completed]

\* The shape of the state, and a restorable last save (state_persistence.py:97-190).
SnapshotsInvariant == TypeOK /\ LastSaveRestorable

\* An intact snapshot goes only when a later one is intact.  There are two
\* exceptions: a second save within one second truncates the snapshot it
\* replaces, and a smaller retention_count counts torn files too, so that it may
\* keep one of those and remove the intact ones.
IntactGivesWayToLater ==
    [][\A s \in DOMAIN files :
           files[s].complete =>
               \/ s \in DOMAIN files' /\ files'[s].complete
               \/ \E t \in DOMAIN files' : t > s /\ files'[t].complete
               \/ task.step = "open" /\ task.name = s
               \/ task.kind = "settings"]_vars

\* The autosave timer runs while a report is in memory only, so that a later
\* report will save it; only an autosave that failed stops it too early, as it
\* clears the timer like one that succeeded.
UnsavedIsTimed == unsaved => changed_at # Never \/ gave_up
=============================================================================
