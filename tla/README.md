# Verification of fluent-bit-opamp

TLA+ modules, TLC configurations and TLAPS proofs about the OpAMP provider, the
consumer (supervisor), what they do together, and the agent broker. Paths are relative to the
repository root; every definition that stands for code names its lines in
`PROJECT.json` under `map`.

Contents: [the system](#the-system) · [modules](#modules) · [runs](#runs) ·
[proofs](#proofs) · [where code and documentation disagree](#where-code-and-documentation-disagree) ·
[not modelled](#what-is-not-modelled) · [plan](#plan)

## The system

### Provider (`provider/src/opamp_provider`)

One asyncio event loop runs the OpAMP handlers, the web API and the UI. MCP
tools run in worker threads. All of them share one `ClientStore` (`state.py`),
whose methods each take the store's lock.

| Component | State | Operations | Hard behaviour | Correct when |
| --- | --- | --- | --- | --- |
| Client store (`state.py`) | `_clients`, `_pending_approvals`, `_blocked_agents`, `_pending_instance_uid_replacements`, default heartbeat; in each record the command queue, next actions, requested configuration, last sequence number | upsert from a message, stage/approve/block, queue/take/mark a command, issue/pop an identification, rekey a record for a reissued UID, settings, remove, purge | callers combine several methods, so every order of methods must be safe; command objects are shared with handlers that hold them across an `await` | a command sits in one queue, leaves it in order and is not lost by rekeying; records are stored under their own id; every agent is asked for its full state unless an approval took its first message over |
| OpAMP endpoint (`opamp_http`, `opamp_websocket` in `app.py`) | locals of each handler, `_WEBSOCKET_CLIENTS` | blocked → authentication → approval → upsert → take command → build reply → mark sent → reply (HTTP) or reply → mark sent (WebSocket) | interleaves with tools between any two store calls, with everything else during the write to a WebSocket; at most once over HTTP, at least once over a WebSocket | a queued command is marked exactly when a reply carried it; an identification goes into one reply; blocked agents get nothing; nobody is admitted without a reason |
| Web API, UI | `CONFIG` | delete, queue, next actions, heartbeat, identify, approvals, settings | settings are written to `CONFIG`, file and store one after the other | the three agree after a failure |
| MCP tools (`mcptool/`) | none | query agents, queue a custom command | worker threads | as the store |
| Commands (`commands.py`, `command_queue.py`, `command_implementations/`) | registry built at start | validate payloads, build command records | dynamic discovery | what is queued can be built |
| State persistence (`state_persistence.py`, `export_`/`import_persisted_state`) | snapshot files, autosave timer | save, prune, restore | crash while writing, names of one-second resolution, restore of old fields | the last save is found; a restored store is one the store's invariants hold of, and every restored agent is asked for its full state |
| Authentication (`auth.py`) | key cache | decide on a request | expiry, unreachable keys, refusals that look different on the two channels | a consumer that renews its token gets through again |
| Configuration (`config.py`) | `CONFIG`, the file and its backups | load, update, persist | partial failure, end of the process between two steps of a save | file and backup together change atomically, the store follows `CONFIG` |

### Consumer (`consumer/src/opamp_consumer`)

| Component | State | Operations | Hard behaviour | Correct when |
| --- | --- | --- | --- | --- |
| Message building and sending (`client_message_builder.py`, `abstract_client.py`, `client_transport.py`) | reporting flags, sequence number | build, send over WebSocket with fallback to HTTP, handle the reply | flags are cleared and the number is spent before the message is sent; the fallback repeats a message the provider may have handled | what was lost is noticed or repeated |
| Full-update controllers (`full_update_controller/`) | count, or time of the last full update | `update_sent` | the only repair when a request for full state is itself lost | the provider's record catches up |
| Runtime (`client_mixins.py`, `client_bootstrap.py`, `shutdowncommand.py`) | agent process, `allow_heartbeat` | launch, restart, terminate, heartbeat loop, shutdown, semaphore file, finalizer | replies handled twice, commands inside the goodbye, a daemon thread racing the exit | one agent at most, none left behind, a stop request is honoured |
| Authorization (`abstract_client.py`) | cached token | get, refresh after 401 | expiry, one retry | a message is sent at most twice, with a fresh token the second time |
| Custom handlers, configuration, Fluent Bit and Fluentd clients | lookup table | dispatch a custom message, parse files | dynamic import, a lookup emptied by a miss, replies handled twice | a handler in the folder is found, none runs where they are forbidden |

### Agent broker (`agent_broker/opamp_broker`)

Sessions keyed by Slack thread (`session/manager.py`), a sweeper that says goodbye
and deletes idle ones (`session/sweeper.py`), handlers that run the conversation
graph (`graph/nodes.py`, `planner/`) and call the provider's MCP tools
(`mcp/`). Hard: expiry is decided before the awaits it is acted on after; all
handlers share one MCP session id and one tool cache, and several may discover
tools at once. Correct when no session that was used since is expired, every message is
answered, and the tools in the cache can be called – which they cannot always, see
[below](#where-code-and-documentation-disagree).

### How they interact

Consumer → provider: one `AgentToServer` message at a time, over HTTP or a fresh
WebSocket each, answered by one `ServerToAgent` with at most one command.
Operators and tools → provider: web API and MCP. Provider → consumer: only in
replies. Broker → provider: MCP. Operator → consumer: the file
`OpAMPSupervisor.signal`, Ctrl-C. Provider ↔ disk: snapshots, configuration.

The other directories hold no behaviour of the system: `proto/` (the protocol and
generated code), `scripts/`, `mcp/` (client configuration), `dist/`, `docs/`,
`config/`, `shared/` (UUIDs, constants).

## Modules

### `ClientStore` – the store

One action per method that changes the store, each a single step because the
method holds the lock. `clients`, `pending_approvals`, `blocked_agents`,
`replacements`, `default_heartbeat` are the five fields of `ClientStore`.
A `CommandRecord` is shared by the queue and the handler that took it, so
`command_objects` is a heap: queues hold positions in it, `MarkCommandSent`
changes an object, and `dispatching` holds the objects handlers have in hand.
`minted` and `handed_out` say which replacement UIDs exist and which have been
popped, so that only those are presented by agents. A record keeps what the
methods read: id, last sequence number (`MIN_INTEGER` when there is none),
commands, next actions, requested configuration, heartbeat, pending
identification. Descriptions, health, timestamps and the event history are left
out. `UpsertFromAgentMsg` is the whole method: rekeying, sequence check, queueing
of the force-resync command and storing.

`ReservedStep` stands for `queue_force_resync` and `add_event`, which have no
caller that passes an arbitrary id today.

### `OpampEndpoint` – the endpoint on top of the store

EXTENDS `ClientStore`. `HttpHandlers` and `WebSocketHandlers` are handlers serving
one message after another; `handlers[h]` are the local variables of the Python
function, `running` is the handler that has the event loop. A handler's steps are
one store call each: `Accept` (upsert), `TakeCommand` (`next_pending_command`),
`TakeIdentification`, `TakeNextAction` (HTTP only), `Reply` (mark and send). Between
them only `ToolRequest` – a worker thread – can run; during the phase `replying` of
a WebSocket handler, its `await websocket.send`, anything can. `Holders` is what
`mark_command_sent` finds when it looks the record object's *current* id up.
`vetted` and `addressed` record why a client is admitted.

`UsesStoreProperly == Spec`: the endpoint implements the store's specification, so
what is proved of the store under arbitrary callers holds under this one. The store
is the abstract specification here, and its state is the endpoint's own, so the
refinement mapping is the identity: `EndpointUsesStoreProperly` proves it, and the run
`endpoint` checks the store's properties on the endpoint itself.

Two simplifications. A handler whose reply carries nothing of the command it took
does not mark it (`_has_dispatched_command_payload`, `app.py:1014`); here every command
taken is carried, and that a command cannot stay unsent on that account is `EveryCommandSent`
in `CustomCommands`, where replies are built from payloads. And the provider's `CONFIG`
is here only as `human_in_loop`.

### `AgentSession` – reporting across a lossy network

One consumer against the provider's `check_sequence_num`. Sequence numbers become
*ages*: how many messages the consumer has built since (`behind` for the record's
`message_id`, `age` for a message under way); `Gap` is `message_id != current + 1`
in these terms. Contents become *whether a section is the one last put into a
message* (`delivered`, `latest`). `Heartbeat` builds a message and clears the
flags, `GiveUp` is the fallback from WebSocket to HTTP or the end of `send`,
`HandleRequest` is the provider's handler, `ReceiveReply` the consumer's handling
and counting. `late` is a request the consumer has stopped waiting for.

### `ConsumerRuntime` – supervisor and agent process

The supervisor does one thing at a time, so its control is the sequence `todo` of
the steps still to take; a reply pushes `restart` or `shutdown` in front. `Report`
pushes them twice, because `send` handles the reply and `_heartbeat_loop` does so
again. `Finalize` starts the daemon thread of `__del__`, and `Exit` may cut it off
at any point. A killed process is assumed to die, and a turn's polls have no effect
on this state. `Interrupt` is one Ctrl-C; a second one is left out. The process lock is left out
too: it is reentrant, and who restarts an agent gives up waiting for it after 30 seconds
(`client_mixins.py:470`).

### `StateSnapshots` – snapshots on disk

`files` maps the second in a snapshot's name to its contents: a version of the store
and whether the file is complete. A save is a `task` of the event loop: `OpenFile`
(`write_text` truncates), `FinishFile`, one `PruneOne` per stale file, `EndOfSave`, and
`SaveFails` wherever a file operation may raise. It is begun by `ReportMessage`
(autosave), `SaveStateNow`, `Shutdown` and, for pruning only, `UpdateCommsSettings`.
`Crash` can come between any two steps, `Change` (tools in their threads) too; `Start`
and `StartFrom` are `main` with its three ways of `--restore`. `changed_at` is
`_LAST_AUTOSAVE_ELIGIBLE_CHANGE_AT`. `last_completed`, `cut_short`, `unsaved` and
`gave_up` are history the properties speak of.

### `BrokerSessions` – conversations of the broker

One event loop: a step goes from one await that can suspend to the next, and
`SessionManager`'s lock is never held across one. `sessions` maps a thread to whether
it has been idle for longer than the timeout. `Receive` is a handler up to the graph,
`GraphReturns` / `GraphRaises` what follows. The sweeper's pass works on a list:
`sweeper.due` are the listed sessions found idle and not visited yet, and because the
code reads `last_activity_at` when it visits one, `Used` takes the thread off; a session
that a shutdown deleted meanwhile (`removed`) is another object, so it stays on. Each
signal starts a `Shutdown` task with its own copy, and the first to finish ends `main`.
`late` is history. The three uses of a session – mention, direct message, slash command –
are one action.

The discovery of tools at start, which the broker awaits first, is in `BrokerConversation`.

### `RestoredStore` – the store over a restart of the provider

EXTENDS `ClientStore` with `ExportPersistedState` and `ImportPersistedState`. `Restore`
starts the provider with the last snapshot, from which an earlier version of the
program may have left fields out (`Lacking`), `StartEmpty` without one. `auth_value` is
never exported, so `MissingFields` is never empty and *every* record with a proper UID is
asked for its full state. A pending identification comes back as the bytes of its hex text: `Misread`
is that conversion. Handlers do not survive a restart, what agents were told does
(`handed_out`).

### `SettingsCell` and `ProviderSettings` – the provider's settings

`SettingsCell` is the abstract specification: settings in force, settings saved, requests
that are accepted or not, a save that is atomic. `ProviderSettings` has `CONFIG`, the
file, its newest backup, the store's heartbeat frequency, and a save as the code takes
it: `LoadJson` (parse what is there), `CreateBackup`, `FillBackup`, `TruncateFile`, `WriteFile`,
`ApplySettings`; `SaveFails` raises at any of them and `StopProvider` may come between
any two. `StartProvider` is `main` up to the end of `--restore`: a snapshot may bring a
frequency of its own (`heartbeatApart`). `SavesAtomically == Cell!CellSpec`, with `Cell == INSTANCE SettingsCell WITH inForce <-
config, saved <- Saved, up <- running`, where `Saved` is the file or, when a save has torn it,
its backup. `Contents` has one key for those that are treated alike.

### `ProviderDisk` – settings and snapshots of one provider

EXTENDS `StateSnapshots` and takes `ProviderSettings` as an instance, with `running <- up`: both share
the process and the event loop, and `enabled` and the retention of `StateSnapshots` are settings
of the file. A step is one step of each or one of either: `StartDisk` reads the file, then
the snapshot; `CommsRequest` changes `CONFIG` and prunes, and only when nothing is left to prune does
`SettingsSaveStep` begin with the file; a save of either kind has the loop for itself (`LoopFree`);
`CrashDisk` ends both wherever they are; a snapshot is opened only where the folder can be
written. A request that a failing save answers with 500 has pruned already. `SettingsFile` has
what the file can say, for all modules that read it.

### `AgentAuthorization` – tokens

One consumer, one provider, an identity provider (IdP) and perhaps a gateway that checks
tokens. `setup` is any combination of both sides' settings. `Send` is `send()`,
`ResolveOwnHeader`, `ResolveCachedHeader` and `RefreshIdpHeader` the three ways to a header,
`RequestAnswered` the provider's decision and what the consumer makes of it (a refusal
has a status over HTTP and is an ordinary message over a WebSocket). `barred` is what the store
says of the agent: over HTTP a block is found before the token is looked at, a missing
approval after it; over a WebSocket the token comes first. `RequestLost` is an
answer that never comes, with or without the message having been handled.

### `BrokerConversation` – the graph, the planner and the MCP client

A task is a message or `main`, which discovers tools first. `task[t]` is where it is: planning,
`initialize` and `list` of a discovery, the `call`, done with a reply. `mcpSession` and
`cachedTools` are the one client's; `SendRequest` reads the session id when the request
is sent, `ResponseBegins` stores the one in the headers before the body has come, and
`RefusalBegins` that of a refusal, which the client takes before it looks at the status.
`RefusalIds` says which ids a refusal may bring: none; or, for a request that left without one,
that of a session opened for it, which nobody has initialised (`Uninitialised`). The MCP server's
library, which decides, is not among the repository's files, so both are allowed.
A call in such a session is refused in turn. `ProviderGoes` ends all of the provider's sessions. `RuleFirstPlan` is the planner by rules,
`SanitizedPlan` what is kept of a completion of the language model, which answers anything.

### `CustomCommands` – a command from request to handler

One agent. `QueueCommand` (REST) and `InvokeCustomCommand` (MCP) validate and store pairs;
`ApplyCommandIntent` resolves the stored pairs once more when `Answer` builds the reply;
`HandleReply` dispatches it, twice unless a handler raises or the agent shuts down, because
`send` and the heartbeat loop both handle it. `lookup` is the agent's cache of handler
classes, `handlers` the folder, which `FolderChanges` changes. Commands, capabilities and
pairs are those of the shipped classes. The keys of pairs are taken to be lower case. Key and
value strings are compared as they are stored; `KeyValues`, `Resolve…` and the builders are
the code's tables.

`MC…` modules give TLC its model values. `…Proofs` modules hold the proofs.

Definitions named `Faulty…` are seeded errors used by no action: each run's
properties are shown to fail when one of them replaces the definition it follows.

## Runs

| Run | Question | Bounds |
| --- | --- | --- |
| `restored` | Do the store's invariants survive a restart, and is every restored agent asked once? | 1 agent and its reissued UID, which comes back misread; 1 restart; snapshots of this version, of one without numbers and queues, and of one nobody can place; 2 commands, all of them requests for full state, of the provider or of operators; after a save only records change, as the restart forgets the rest |
| `endpoint` | Are commands owned once, sent in order and kept, do records, replacements and sequence numbers stay tied together, do marks, replies and identifications agree under concurrent handlers, and who is admitted and served? | 1 agent besides messages without a UID, in three parts. *Replies*: 2 WebSockets and 1 HTTP handler, 2 commands, so that two handlers hold different commands of one queue while the record moves, and a reissued UID. *Admission*: 1 handler of each kind, approvals switched on and off, blocks, 2 commands or a next action, 1 command where messages without a UID are about. *Records*: HTTP only; 2 replacement UIDs, so that one supersedes the other, or approvals with sequence numbers 0 and 1 (successors, gaps, repetitions), or one setting at a time (no method reads two) |
| `endpoint_approval` | Documentation against code | as `endpoint` |
| `session` | Is every loss noticed, and nothing else, and does the record catch up? | HTTP, or WebSocket with fallback; 3 sections, one of which changes on its own; full updates by count (every 2nd) and by time. Late requests are explored with the first controller, an operator's commands – an ordinary one and a request for full state – with the second: both are disturbances that need not happen and that no controller looks at. `AlwaysSend` repeats everything and is left to the module |
| `runtime_stop` | One agent, no orphan, stop honoured | 3 commands: a restart or shutdown handled twice and one more inside the goodbye |
| `runtime_restart` | Documentation against code | 1 command |
| `provider_disk` | Are settings saved as a whole or not at all, does the store follow, does `--restore` find what was saved, and is nothing intact given up for less? | In three parts. *Settings*: 3 values, so that the two thresholds can be in and out of order and at their limit; 2 log levels; 1 edit by the operator, made between two saves and never torn (a torn file comes from the provider's own writing); a file with a frequency of zero. *Snapshots*: 4 seconds, 2 versions besides the empty store, up to 2 retained – two saves in one second, one torn file among intact ones, a retention made smaller – with requests whose saving fails. *Both*: whole saves of either kind, 2 seconds, 1 change, no edit |
| `auth_tokens` | Is nothing repeated that was handled, and is a consumer whose token expires heard again? | 3 tokens: cached, renewed, renewed again; every one of the setups |
| `broker_threads` | Do the right sessions end, and does the broker? | 2 threads, so that one waits on the sweeper's list while the other's goodbye is posted; 2 messages at a time, in one thread or in two; 2 signals; every combination of the two goodbye settings |
| `conversation_tools` | Do the tools in the cache come with a session, or at worst with an uninitialised one, and is every message answered? | 2 messages and `main`, so that two discoveries interleave; 1 outage; 3 sessions, one for each task; 2 tools, one of which wants a confirmation; both planners |
| `conversation_overlap` | Documentation against code | as `conversation_tools` |
| `commands_handlers` | Does a command stay what it was accepted as, does it find its handler, and is it sent? | 2 commands, so that one blocks or spoils the other; 13 sets of pairs (every class, contradictory, unknown and generic ones); 3 capabilities, 3 next actions |

What the runs do not bound: the number of steps, restarts of handlers, messages.
Only commands, generated UIDs, sequence numbers, the age of late requests, the clock,
the versions of snapshots, restarts of the store, edits, tokens, sessions and outages are capped, each by
the constant named `Max…` in the guard or the definition that uses it. The constraints
(`CONSTRAINT`, with what they cut off) are in the `MC…` modules. In the one run with a
constraint and a liveness property, `session`, what is cut off are steps under no
fairness, so each fair behaviour of the smaller system is one of the whole system's.

What they show:

- **Queues** (`CommandsOwnedOnce`, `SentInOrder`, `UnsentCommandsSurvive`): a command
  never reaches two agents, overtakes another or disappears with a rekeying, although a
  handler marks a command long after it took it.
- **Identity** (`KeyedByOwnId`, `IdentificationStaysTracked`, `IdentificationHandedOnce`).
- **Resync** (`OnlyApprovalSkipsResync`): an approved agent is the only one never
  asked, because `add_pending_approval_from_agent_msg` takes its number over unchecked.
- **Replies** (`SentExactlyWhenReplied`): marking by the record's current id is right
  even when the record moved during the `await`.
- **Admission** (`BlockedNeverPending`, `NothingPreparedForBlocked`, `AdmittedForAReason`): there is one
  way round an approval and no other, a request of an operator or a tool for the UID, which
  `UnknownWaitForApproval` shows.
- **Restart** (`QueueInvariant`, `KeyedByOwnId`, `RestoredAreAskedOnce`): a restored store is as
  consistent as before, although identifications come back misread; a request for full
  state that is in the snapshot already, the provider's or an operator's, is not doubled by the import.
- **Losses** (`LossIsNoticed` in `SessionInvariant`, `ResyncOnlyAfterLoss`): clearing flags before sending is
  safe because the sequence number is spent too, and but for an operator nothing else than a
  loss makes the provider ask. Two cases escape and are stated
  in the property (`ask_lost`): the reply that asked for full state is lost after the
  command was marked sent, and an approval on the strength of a partial message.
- **Catching up** (`EventuallyUpToDate`): in those cases the controllers repair the record.
- **Supervision** (`OneAgentAtMost` in `RuntimeInvariant`, `NoOrphan`, `StopHonoured`): two exceptions are
  stated in `NoOrphan`: Ctrl-C outside the heartbeat loop, and a restart command in
  the reply to the finalizer's message.
- **Snapshots** (`LastSaveRestorable` in `SnapshotsInvariant`, `IntactGivesWayToLater`, `UnsavedIsTimed`): the last
  finished save is what restore finds, and an intact snapshot goes only for a later one.
  Exceptions, each reachable and named in its property: a later save cut short by a
  crash leaves a torn file that restore picks first; a save truncates one of the
  same second; a smaller retention counts torn files; a failed autosave stops the timer.
- **Broker** (`InUseNotExpired`, `GoodbyeToAll` in `SessionsInvariant`, `IdleSessionsGo`, `ShutdownEnds`): a stale
  list harms no thread that was used since, and an exit forgets nobody. Two exceptions are
  stated: a message that arrives while the goodbye for its thread is being posted loses
  its session, and one goodbye that fails ends the sweeper for good.
- **Settings** (`LostFileHasBackup` and `SaveHoldsACopy` in `SettingsInvariant`, `StoreFollowsConfig`, `SavesAtomically`):
  the file is parsed before it is copied, so a torn one never becomes the backup, and
  file and backup behave like one cell that is written atomically. Stated in the property:
  a heartbeat frequency that was answered with 500 stays in `CONFIG`, apart from the
  store, and the next save writes it; and a restored snapshot brings its own frequency to the store.
- **Tokens** (`RetryIsNotARepetition` in `AuthorizationInvariant`, `AgentsAreHeard`): only what was
  refused is repeated on a channel, and a consumer with tokens of the IdP is heard again
  and again where the refusal has a status. Where it has none – a WebSocket to the
  provider itself – it is not, which `RefusedWithAStatus` excludes; no run shows that case.
- **Conversation** (`CachedToolsHaveSession` in `ConversationInvariant`, `EveryMessageAnswered`): two
  discoveries at once take the session id from each other. One alone ends with a session the
  provider knows, unless it goes away or refuses to open one in between; of two the client
  may be left with the id of a session nobody has initialised, as `CallsFollowInitialize` shows, and with nothing
  worse. A message is answered in every case. After an outage the answer is an apology for as long as the
  tools are cached.
- **Commands** (`CommandsKeepTheirMeaning` in `CommandsInvariant`, `HandlerInFolderIsFound`,
  `DisabledRunsNothing`, `EveryCommandSent`): resolving a command twice comes to the same
  class, a miss does not cost the next command its handler, and no command blocks those
  behind it.

### Fairness

`AgentSession`: weak fairness of `Heartbeat`, of the passing of time and of refusals,
which nothing but the code's own loop drives. Strong fairness of handling a request and receiving
a reply says that the network, which may lose any message, does not lose all of them;
since it does not look at what a message carries, the full reports among them get
through again and again too (`HandleFullReport`). No fairness of operators, late
requests or losses. `ConsumerRuntime`: weak fairness of the supervisor's own steps:
the heartbeat is slept for, HTTP requests, the disconnect and the termination of the
agent have timeouts, so it never waits for ever. `BrokerSessions`: weak fairness of the
sweeper, which sleeps for a bounded time, and of each shutdown task; both await Slack's
client only, which has a timeout. The graph may take for ever, and nobody has to write or
to send a signal. `AgentAuthorization`: weak
fairness of the consumer's steps, strong fairness of an answer, as in `AgentSession`; that the
IdP stays up and the operator lets the agent in are premises of the property. `BrokerConversation`: weak fairness
of every task, as the event loop runs all that can go on; requests have a timeout, which
is the outage that cuts them off or the failure of `initialize`. A request to a provider that is up gets its response.
`CustomCommands`: weak fairness of reporting, answering and handling; none of losses,
restarts or the folder. The other runs state no fairness.

Deadlock is checked in every run; `ConsumerRuntime` and `BrokerSessions` end in `Gone`, a
stutter when the process has exited.

## Proofs

TLAPS proves for every value of the constants (any number of agents, handlers,
UIDs, commands, messages, tokens, threads and values) every invariant and every action
property of the passing runs, and the refinements:

| Theorem | Statement |
| --- | --- |
| `ClientStoreProofs!TypeCorrect` | `Spec => []TypeOK` |
| `ClientStoreProofs!QueuesCorrect` | `Spec => []QueueInvariant` |
| `ClientStoreProofs!SentInOrderAlways`, `CommandsOwnedOnceAlways` | its conjuncts |
| `ClientStoreProofs!KeyedByOwnIdAlways` | `Spec => []KeyedByOwnId` |
| `ClientStoreProofs!UnsentCommandsSurviveAlways`, `OnlyApprovalSkipsResyncAlways`, `IdentificationStaysTrackedAlways` | the store's action properties |
| `ClientStoreProofs!RestoredQueuesCorrect`, `RestoredKeyedByOwnId` | `RestoredSpec => []QueueInvariant`, `[]KeyedByOwnId`: over any number of restarts |
| `ClientStoreProofs!RestoredAreAskedOnceAlways` | `RestoredSpec => RestoredAreAskedOnce`, an action property |
| `OpampEndpointProofs!EndpointTypeCorrect` | `EndpointSpec => []EndpointTypeOK` |
| `OpampEndpointProofs!EndpointUsesStoreProperly` | `EndpointSpec => Spec`: the endpoint implements the store |
| `OpampEndpointProofs!EndpointQueuesCorrect` | `EndpointSpec => []QueueInvariant`, through the refinement |
| `OpampEndpointProofs!BlockedNeverPendingAlways`, `NothingPreparedForBlockedAlways`, `AdmittedForAReasonAlways` | admission |
| `OpampEndpointProofs!SentExactlyWhenRepliedAlways` | `EndpointSpec => []SentExactlyWhenReplied` |
| `OpampEndpointProofs!IdentificationHandedOnceAlways` | `EndpointSpec => []IdentificationHandedOnce` |
| `CustomCommandsProofs!CommandsInvariantAlways` | a command is sent as what it was accepted as |
| `CustomCommandsProofs!HandlerInFolderIsFoundAlways`, `DisabledRunsNothingAlways` | the cached registry neither loses a handler nor offers one that is not allowed |
| `AgentSessionProofs!SessionInvariantAlways`, `ResyncOnlyAfterLossAlways` | no loss goes unnoticed, nothing but a loss is noticed |
| `StateSnapshotsProofs!SnapshotsInvariantAlways`, `UnsavedIsTimedAlways`, `IntactGivesWayToLaterAlways` | what restore finds, what pruning leaves |
| `StateSnapshotsProofs!DiskUsesBoth` | `DiskSpec => Settings!Spec /\ Spec`: the provider with both on its disk implements each of them |
| `StateSnapshotsProofs!DiskKeepsSnapshots` | `DiskSpec => []SnapshotsInvariant /\ []UnsavedIsTimed /\ IntactGivesWayToLater`, through it |
| `ProviderSettingsProofs!SettingsKept`, `StoreFollows` | `Settings!Spec => []Settings!SettingsInvariant`, `[]Settings!StoreFollowsConfig` |
| `ProviderSettingsProofs!SettingsImplementCell` | `Settings!Spec => Settings!Cell!CellSpec`: the files implement the atomic cell |
| `ProviderSettingsProofs!DiskKeepsSettings`, `DiskStoreFollows`, `DiskSavesAtomically` | the same three of `DiskSpec`, through `DiskUsesBoth` |
| `ConsumerProofs!RuntimeInvariantAlways`, `NoOrphanAlways` | one agent at most, none left behind |
| `ConsumerProofs!AuthorizationInvariantAlways` | a retry is no repetition |
| `BrokerProofs!SessionsInvariantAlways`, `InUseNotExpiredAlways` | goodbyes to all, none for a thread in use |
| `BrokerProofs!ConversationInvariantAlways` | the tools in the cache come with a session, but for the exceptions of `CachedToolsHaveSession` |

They rest on the assumptions that the modules name and TLC evaluates, all of them about
constants: bounds are numbers (positive where a size or an interval of zero would mean
nothing), sets of UIDs are disjoint and `No…` values outside the sets they stand beside
(`ConstantsAssumption`, `BrokerAssumption`, `ConversationAssumption`,
`InitialFilesAssumption`), a handler is of one kind and tools queue a subset of the actions
(`HandlersAssumption`), the sections a consumer reports include the two it always has
(`SessionAssumption`). `RestoredAssumption` says of `Misread` that different UIDs are misread
differently and as none that was issued, which is so because the bytes of a hex text are
bytes of digits and letters, and longer than the UID.

What makes each invariant inductive:

*Store.* `TypeInv` = `TypeOK` and `PendingHoldsNoWork` is inductive: `TypeOK` alone is not,
because an approval puts a pending record among the clients, whose queue must name
existing objects. `SentInOrder` is not inductive: `MarkCommandSent` marks whatever the
handler holds. `DispatchingInOrder` supplies what is missing – a held command has only
sent ones before it – and is preserved because `FirstUnsent` is the first.
`CommandsOwnedOnce` says that marking one position marks no other. `QueueInvariant` is their
conjunction, and `restored` checks it as an invariant. Every action either
rewrites records without touching queues (`RewriteOrder`), moves or drops queues
(`InheritedOrder`), appends a fresh object (`AppendedQueue`) or marks one (`MarkOrder`).
The action properties look at a step and the state before it. Most steps change none of the
fields they speak of (`RecordsAlike`); what is left are messages, approvals, issuing,
marking and removals, and one lemma for each. That an identification stays tied to
its client needs `IdentificationsDiffer`: no two clients wait for the same UID.

*Restarts.* A snapshot is what the store was, so `GoodSnapshot` says of its maps what the
store's invariants say of the store's, and an earlier version's missing fields do not
take it away. The import numbers the requests it adds: each asked record gets one object of
its own behind the objects of the snapshot (`Imported`), hence queues stay disjoint and in order.

*Endpoint.* Every step is a store step (`EndpointStepIsStoreStep`), which gives the
refinement; with it the store's invariants carry over. `EndpointTypeInv` adds what handlers
hold. `AdmissionInv` strengthens the admission properties: while a
handler has the loop no block can happen, so its UID, found unblocked, stays so until
it replies, and a UID being staged is not blocked. `CarriedInv`: the command in a handler's
hands is still taken or somebody has sent it, so that marking it is a step of the store also
after the `await`. `HandedInv`: a UID waits in a record or is in the hands of one handler, never
both. `RecordsAccountedFor` says of every record, heard from or not, what `AdmittedForAReason`
says of those the endpoint serves.

*Commands.* Whatever is queued is `CommandFor` of some pairs, sent or not (`Queued`), so
its meaning is a fact about the tables: the pairs name one class at most (`AtMostOneClass`),
and the pairs that are stored, which add a classifier and an action where there was none,
name the same (`StoredPairsResolveAlike`). On the agent the one fact needed is
`NotAllowedNotFound`: where custom capabilities are not allowed, the lookup is empty.

*Session.* `LossIsNoticed` speaks of a consumer at rest. `SessionInv` says the same of every stage
of an exchange: what the consumer still has to report is among its flags or in the message
under way, or the next message will show a gap (`Noticed`); with late requests the gap may be
closed by one of them, which then carries what is missing (`LateRequests`). Behind
`ResyncOnlyAfterLoss` stands `InStep`: until something is lost both ends count alike.

*Snapshots.* `SaveIsLatest` and `NewestIsKept` say for each step of a save where it stands: its
name is the latest of all, until it is written it counts as cut short, and the files
it still has to delete do not include the newest. `FilesArePast` keeps names behind the clock.

*Settings.* `LostFileHasBackup` is not inductive: that truncating the file loses nothing needs
the backup to be equal to it by then. `SaveHoldsACopy` says for each step of a save where the
settings are – read, being copied, copied, being replaced – and with it and `TypeOK` the
invariant is inductive; `provider_disk` checks it whole. The refinement needs the
same: truncating moves `Saved` from the file to an equal backup, so only `WriteFile` changes it.

*Disk.* A step of `ProviderDisk` is a step of `StateSnapshots` and one of `ProviderSettings`, or leaves
one of them alone; the one step that needs an invariant is the farewell save, whose end is the
end of the process for both.

*Runtime.* `NoOrphan` looks at the end only. `StepsInv` orders what is still to be done: `launch`
comes first and once, nothing comes between `terminate` and `finalize` or after it, and while an
agent runs either its end is ahead or one of the two stated exceptions has occurred (`AgentIsEnded`).

*Tokens.* `AttemptIsFresh`: wherever an attempt is made, its channel and the one it may fall back
to have not handled the message. A lost answer has no status, so it is never followed by a retry
on the same channel (`NoStatusNoRetry`).

*Broker.* Each shutdown alone has said goodbye to all but the sessions used since it began
(`ShutdownInv`), so it does not matter which one ends `main`; until then only the sweeper
deletes, and what is on its list is idle (`SweeperInv`). For the conversation,
`SessionAhead` covers the time in which `CachedToolsHaveSession` says nothing: while anybody
discovers, the client has the id of some session or somebody is about to open one (`Opening`). Resetting
the id always makes the resetter such a one, and from there only a response leads on. That the session
is one the provider knows needs a discovery that is alone: nobody else discovers, and nobody calls, since
no tools are cached yet (`OneDiscovers`, `ToolsFromCache`), so that every request after its
`initialize` leaves with a session the provider knows and none is refused (`KnownAlone`).

Only model-checked: the liveness properties (`EventuallyUpToDate`, `StopHonoured`, `IdleSessionsGo`,
`ShutdownEnds`, `AgentsAreHeard`, `EveryMessageAnswered`, `EveryCommandSent`), as there is no prover
for fairness and `ENABLED` here. Induction over data is out of the provers' reach; no definition here needs
it (a least or a latest element comes from well-foundedness, `WFMin`), and no module uses a
RECURSIVE operator.

## Where code and documentation disagree

| Run | Code | Documentation |
| --- | --- | --- |
| `runtime_restart` | restarting the agent ends the heartbeat loop; the supervisor then stops the new agent and exits | `proto/opamp.proto:612`, `client_mixins.py:467` |
| `endpoint_approval` | a command, a requested configuration or a next action for an unknown or pending id creates a client record, so its next message is accepted unapproved (`state.py:570`, `588`, `610`) | `docs/endpoints.md:82`: rejected until explicitly approved |
| `conversation_overlap` | a discovery resets the session id of another, whose `tools/list` is refused; the id that comes with the refusal is kept beside tools that the first discovery has cached, and no later message initialises that session (`mcp/client.py:167`, `292`). It depends on the MCP server naming a fresh session in such a refusal; its library is not among the repository's files, and the model allows both | `agent_broker/docs/broker_startup_and_shutdown.md:369`: `initialize`, `tools/list`, `tools/call` |

Met while modelling, in the modules as the code has it, with no run of their own:

- A restored snapshot brings its default heartbeat frequency over the one of the file (`state.py:1026`);
  a comment in `app.py:238` wants the two aligned. `StoreFollowsConfig` names it as an exception.
- Capabilities are sent only in full reports and other messages erase them from the record
  (`client_message_builder.py:46`, `state.py:492`); `docs/features.md:17` says they are always set.
- "State persistence disabled for this run" (`config.py:332`) also disables it in the file
  at the next save, and a log level given on the command line is saved likewise.
- A refusal over a WebSocket is no status, so the token is not renewed and the
  message counts as sent (`app.py:1233`, `abstract_client.py:409`); `consumer/README.md:163` says it is retried.
- Every restored client is asked for its full state, not only incomplete ones
  (`provider/README.md:200`), because `auth_value` is never exported.
- A restored identification is the bytes of a hex text, not the UID that was issued (`state.py:230`; `docs/features.md:14`).
- The planner's word on a confirmation replaces that of `classify_intent` (`graph/nodes.py:755`, `860`), and a
  `pending_action` is stored and never read (`slack/handlers.py:159`).
- A ChatOps call that fails is not reported to the provider, because `asyncio.run` is called
  in a running loop (`docs/command_process_implementation_note.md:211`); and as a reply is handled twice, so is a ChatOps call.

## What is not modelled

- The event history, descriptions and health contents, timestamps: no method decides on them.
- Requests refused before they touch the store for undecodable frames and unsupported fields.
- The closing of all WebSockets on shutdown, a change of the snapshot folder while the provider
  runs, an operator's edit of the configuration file in the middle of a save.
- Rules of `auth.py` for UI and MCP paths, the JWT library, TLS and certificates.
- The text of the broker's replies, `classify_intent`, the Slack adapter, the loading of the broker's and the
  consumer's configuration, the parsing of Fluent Bit and Fluentd files: no state, or state nothing reads.
- The web UI, packaging, scripts, generated protocol code.
- A client's `disconnected` flag enters through `PurgeDisconnected` taking any set of clients; the code
  never clears the flag, so these include clients that report again. Agent processes that survive a kill.

## Plan

The modules of the first plan are written. What is left:

1. An abstract specification of what operators are promised of a command – queued once, sent in
   the order of arrival, dropped only with its client – that the store implements, and one of what a
   restart is promised that `StateSnapshots` and `RestoredStore` implement; both with a refinement
   mapping and, as for the settings, a proof.
2. A change of the snapshot folder in `ProviderDisk`.
3. Several agents of one `CustomCommands` provider, once an action reads another agent's command.
4. A run for the refusal without a status that `RefusedWithAStatus` excludes, and a second Ctrl-C.
