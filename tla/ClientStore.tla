----------------------------- MODULE ClientStore -----------------------------
(***************************************************************************)
(* The provider's in-memory client store (opamp_provider/state.py).        *)
(*                                                                         *)
(* Every public method of ClientStore takes the store's lock for its whole *)
(* body, so each method is one action.  What the store shares with its     *)
(* callers is modelled too: CommandRecord objects live in a heap           *)
(* (command_objects) and are named by their position in it, because        *)
(* next_pending_command hands the object itself to a request handler and   *)
(* mark_command_sent later finds it again by identity.                     *)
(*                                                                         *)
(* Left out of a ClientRecord: fields that no decision of the store or of  *)
(* a handler reads (description, capabilities, health, addresses, event    *)
(* history).  Wall-clock times appear as the choices they lead to.         *)
(***************************************************************************)
EXTENDS Integers, Sequences, FiniteSets, SequencesExt

CONSTANTS
    AgentUids,     \* keys of agents' own messages: the instance UIDs they
                   \* chose, and "unknown" for messages that carry none
    ServerUids,    \* instance UIDs generate_uuid7_bytes may come up with
    NoUid,         \* stands for None where a UID is optional
    Actions,       \* (classifier, action) pairs an operator may queue
    NextActions,   \* the entries of ACTION_OPTIONS
    Configs,       \* configuration texts an operator may request
    NoConfig,      \* stands for None where a configuration is optional
    Frequencies,   \* heartbeat frequencies an operator may ask for
    MaxSequence,   \* bound: largest sequence number a message carries
    MaxCommands,   \* bound: command objects created in one behaviour
    MaxNextActions \* bound: length of one next-action list

ForceResync == "forceresync"
DEFAULT_HEARTBEAT_FREQUENCY == 30

\* Any value that no message carries stands for -sys.maxsize - 1.
MIN_INTEGER == -1

Ids == AgentUids \cup ServerUids
CommandAction == Actions \cup {ForceResync}

ASSUME ConstantsAssumption ==
    /\ NoUid \notin Ids
    /\ AgentUids \cap ServerUids = {}
    /\ NoConfig \notin Configs
    /\ Frequencies \subseteq Int
    /\ MaxSequence \in Nat
    /\ MaxCommands \in Nat
    /\ MaxNextActions \in Nat

VARIABLES
    clients,               \* _clients: key -> ClientRecord
    pending_approvals,     \* _pending_approvals: key -> ClientRecord
    blocked_agents,        \* the keys of _blocked_agents
    replacements,          \* _pending_instance_uid_replacements: new -> old
    default_heartbeat,     \* _default_heartbeat_frequency
    command_objects,       \* every CommandRecord ever created
    dispatching,           \* objects returned by next_pending_command and not
                           \* yet passed to mark_command_sent
    minted,                \* UIDs generate_unique_instance_uid has returned
    handed_out             \* UIDs pop_agent_identification has returned

vars == <<clients, pending_approvals, blocked_agents, replacements,
          default_heartbeat, command_objects, dispatching, minted, handed_out>>

-----------------------------------------------------------------------------
(* Records *)

CommandObject == [action: CommandAction, sent: BOOLEAN]

ClientRecord ==
    [client_id: Ids,
     message_id: MIN_INTEGER..MaxSequence,
     commands: Seq(Nat \ {0}),
     next_actions: Seq(NextActions),
     requested_config: Configs \cup {NoConfig},
     heartbeat_frequency: Nat \ {0},
     disconnected: BOOLEAN,
     pending_agent_identification: Ids \cup {NoUid}]

AgentToServer ==
    [uid: Ids, sequence_num: 0..MaxSequence, has_disconnect: BOOLEAN]

NewRecord(id) ==
    [client_id |-> id, message_id |-> MIN_INTEGER,
     commands |-> <<>>, next_actions |-> <<>>, requested_config |-> NoConfig,
     heartbeat_frequency |-> default_heartbeat, disconnected |-> FALSE,
     pending_agent_identification |-> NoUid]

\* The record a method that creates missing clients works on.
RecordOrNew(id) == IF id \in DOMAIN clients THEN clients[id] ELSE NewRecord(id)

Stored(map, id, rec) == [i \in DOMAIN map \cup {id} |-> IF i = id THEN rec ELSE map[i]]
Without(map, ids) == Restrict(map, DOMAIN map \ ids)

\* Definitions named Faulty... are seeded errors: no action uses them, they test
\* that the properties below would notice.
FaultyAtLeastOne(n) == n
AtLeastOne(n) == IF n < 1 THEN 1 ELSE n

WithCommand(rec, obj) == [rec EXCEPT !.commands = Append(@, obj)]

NextObject == Len(command_objects) + 1
Fresh(action) == [action |-> action, sent |-> FALSE]

UnsentPositions(rec, objects) ==
    {i \in DOMAIN rec.commands : ~objects[rec.commands[i]].sent}

HasUnsentResync(rec, objects) ==
    \E i \in UnsentPositions(rec, objects) :
        objects[rec.commands[i]].action = ForceResync

-----------------------------------------------------------------------------
(* Handling of one AgentToServer message *)

\* A message under `id` claims the record a server-issued UID replaces.
Rekeys(id) ==
    /\ id \notin DOMAIN clients
    /\ id \in DOMAIN replacements
    /\ replacements[id] \in DOMAIN clients

FaultyRecordForOldId(id) ==
    IF Rekeys(id)
    THEN [clients[replacements[id]] EXCEPT !.pending_agent_identification = NoUid]
    ELSE RecordOrNew(id)

FaultyRecordForEmptyQueue(id) ==
    IF Rekeys(id) THEN NewRecord(id) ELSE RecordOrNew(id)

RecordFor(id) ==
    IF Rekeys(id)
    THEN [clients[replacements[id]] EXCEPT
             !.client_id = id, !.pending_agent_identification = NoUid]
    ELSE RecordOrNew(id)

FaultySequenceGapKnownOnly(rec, seq) ==
    rec.message_id # MIN_INTEGER /\ seq # rec.message_id + 1

SequenceGap(rec, seq) ==
    rec.message_id = MIN_INTEGER \/ seq # rec.message_id + 1

QueuesResync(rec, seq) ==
    SequenceGap(rec, seq) /\ ~HasUnsentResync(rec, command_objects)

Reported(rec, msg) ==
    [rec EXCEPT
        !.message_id = msg.sequence_num,
        !.disconnected = @ \/ msg.has_disconnect]

\* upsert_from_agent_msg, as seen by the handlers that go on with its result.
UpsertedRecord(msg) ==
    LET rec == RecordFor(msg.uid)
    IN  Reported(IF QueuesResync(rec, msg.sequence_num)
                 THEN WithCommand(rec, NextObject) ELSE rec, msg)

UpsertedObjects(msg) ==
    IF QueuesResync(RecordFor(msg.uid), msg.sequence_num)
    THEN Append(command_objects, Fresh(ForceResync))
    ELSE command_objects

FaultyUpsertedClientsKeepOld(id, rec) == Stored(clients, id, rec)

UpsertedClients(id, rec) ==
    Stored(IF Rekeys(id) THEN Without(clients, {replacements[id]}) ELSE clients,
           id, rec)

FaultyUpsertedReplacementsDropIssued(id) ==
    Without(replacements,
            {uid \in DOMAIN replacements : uid = id \/ replacements[uid] = id})

UpsertedReplacements(id) ==
    IF id \in DOMAIN clients THEN replacements ELSE Without(replacements, {id})

FaultyFirstUnsentNewest(rec, objects) ==
    {i \in UnsentPositions(rec, objects) :
        \A j \in UnsentPositions(rec, objects) : j <= i}

\* The one position whose command is to be sent next, if any.
FirstUnsent(rec, objects) ==
    {i \in UnsentPositions(rec, objects) :
        \A j \in UnsentPositions(rec, objects) : i <= j}

\* The UIDs an agent can put into a message.
Presentable == AgentUids \cup handed_out

-----------------------------------------------------------------------------
Init ==
    /\ clients = <<>>
    /\ pending_approvals = <<>>
    /\ blocked_agents = {}
    /\ replacements = <<>>
    /\ default_heartbeat = DEFAULT_HEARTBEAT_FREQUENCY
    /\ command_objects = <<>>
    /\ dispatching = {}
    /\ minted = {}
    /\ handed_out = {}

UpsertFromAgentMsg(msg) ==
    /\ Len(UpsertedObjects(msg)) <= MaxCommands
    /\ clients' = UpsertedClients(msg.uid, UpsertedRecord(msg))
    /\ replacements' = UpsertedReplacements(msg.uid)
    /\ command_objects' = UpsertedObjects(msg)
    /\ UNCHANGED <<pending_approvals, blocked_agents, default_heartbeat,
                   dispatching, minted, handed_out>>

AddPendingApproval(msg) ==
    /\ msg.uid \notin DOMAIN clients \cup DOMAIN pending_approvals
    /\ pending_approvals' =
           Stored(pending_approvals, msg.uid, Reported(NewRecord(msg.uid), msg))
    /\ UNCHANGED <<clients, blocked_agents, replacements, default_heartbeat,
                   command_objects, dispatching, minted, handed_out>>

QueueCommand(id, action) ==
    /\ Len(command_objects) < MaxCommands
    /\ clients' = Stored(clients, id, WithCommand(RecordOrNew(id), NextObject))
    /\ command_objects' = Append(command_objects, Fresh(action))
    /\ UNCHANGED <<pending_approvals, blocked_agents, replacements,
                   default_heartbeat, dispatching, minted, handed_out>>

QueueForceResync(id) ==
    /\ id \in DOMAIN clients
    /\ ~HasUnsentResync(clients[id], command_objects)
    /\ QueueCommand(id, ForceResync)

\* Methods that rewrite one client's record and create it when it is missing.
Rewrite(id, rec) ==
    /\ clients' = Stored(clients, id, rec)
    /\ UNCHANGED <<pending_approvals, blocked_agents, replacements,
                   default_heartbeat, command_objects, dispatching, minted,
                   handed_out>>

SetRequestedConfig(id, config) ==
    Rewrite(id, [RecordOrNew(id) EXCEPT !.requested_config = config])

SetNextActions(id, actions) ==
    Rewrite(id, [RecordOrNew(id) EXCEPT !.next_actions = actions])

\* add_event: of its effect only the record it may create is kept.
AddEvent(id) == Rewrite(id, RecordOrNew(id))

SetClientHeartbeatFrequency(id, frequency) ==
    /\ id \in DOMAIN clients
    /\ Rewrite(id, [clients[id] EXCEPT
                       !.heartbeat_frequency = AtLeastOne(frequency)])

SetDefaultHeartbeatFrequency(frequency) ==
    /\ default_heartbeat' = AtLeastOne(frequency)
    /\ clients' = [i \in DOMAIN clients |->
                      [clients[i] EXCEPT
                          !.heartbeat_frequency = AtLeastOne(frequency)]]
    /\ UNCHANGED <<pending_approvals, blocked_agents, replacements,
                   command_objects, dispatching, minted, handed_out>>

PopNextAction(id) ==
    /\ id \in DOMAIN clients
    /\ clients[id].next_actions # <<>>
    /\ Rewrite(id, [clients[id] EXCEPT !.next_actions = Tail(@)])

\* A handler takes the next command; it may call mark_command_sent later, after
\* other methods have run, or never.
NextPendingCommand(id) ==
    /\ id \in DOMAIN clients
    /\ \E i \in FirstUnsent(clients[id], command_objects) :
          dispatching' = dispatching \cup {clients[id].commands[i]}
    /\ UNCHANGED <<clients, pending_approvals, blocked_agents, replacements,
                   default_heartbeat, command_objects, minted, handed_out>>

MarkedSent(objects, obj) == [objects EXCEPT ![obj].sent = TRUE]

MarkCommandSent(id, obj) ==
    /\ obj \in dispatching
    /\ id \in DOMAIN clients
    /\ \E i \in DOMAIN clients[id].commands : clients[id].commands[i] = obj
    /\ command_objects' = MarkedSent(command_objects, obj)
    /\ dispatching' = dispatching \ {obj}
    /\ UNCHANGED <<clients, pending_approvals, blocked_agents, replacements,
                   default_heartbeat, minted, handed_out>>

-----------------------------------------------------------------------------
(* Admission, removal and identity *)

RemoveClient(id) ==
    /\ clients' = Without(clients, {id})
    /\ pending_approvals' = Without(pending_approvals, {id})
    /\ replacements' = Without(replacements,
                               {t \in DOMAIN replacements : t = id \/ replacements[t] = id})
    /\ UNCHANGED <<blocked_agents, default_heartbeat, command_objects,
                   dispatching, minted, handed_out>>

ApprovePendingApproval(id) ==
    /\ id \in DOMAIN pending_approvals
    /\ clients' = Stored(clients, id, pending_approvals[id])
    /\ pending_approvals' = Without(pending_approvals, {id})
    /\ UNCHANGED <<blocked_agents, replacements, default_heartbeat,
                   command_objects, dispatching, minted, handed_out>>

BlockAgent(id) ==
    /\ pending_approvals' = Without(pending_approvals, {id})
    /\ blocked_agents' = blocked_agents \cup {id}
    /\ UNCHANGED <<clients, replacements, default_heartbeat, command_objects,
                   dispatching, minted, handed_out>>

\* generate_unique_instance_uid followed by set_agent_identification, the only
\* way the identify endpoint uses them.  UUIDv7 candidates never repeat.
SetAgentIdentification(id, uid) ==
    /\ id \in DOMAIN clients
    /\ uid \notin minted \cup DOMAIN clients \cup DOMAIN replacements
    /\ replacements' =
           Stored(Without(replacements, {clients[id].pending_agent_identification}),
                  uid, id)
    /\ clients' = [clients EXCEPT ![id].pending_agent_identification = uid]
    /\ minted' = minted \cup {uid}
    /\ UNCHANGED <<pending_approvals, blocked_agents, default_heartbeat,
                   command_objects, dispatching, handed_out>>

PopAgentIdentification(id) ==
    /\ id \in DOMAIN clients
    /\ clients[id].pending_agent_identification # NoUid
    /\ handed_out' = handed_out \cup {clients[id].pending_agent_identification}
    /\ clients' = [clients EXCEPT ![id].pending_agent_identification = NoUid]
    /\ UNCHANGED <<pending_approvals, blocked_agents, replacements,
                   default_heartbeat, command_objects, dispatching, minted>>

\* Which disconnected clients are older than the cutoff is time's choice.
PurgeDisconnected(expired) ==
    /\ \A id \in expired : clients[id].disconnected
    /\ clients' = Without(clients, expired)
    /\ UNCHANGED <<pending_approvals, blocked_agents, replacements,
                   default_heartbeat, command_objects, dispatching, minted,
                   handed_out>>

-----------------------------------------------------------------------------
AgentMessage ==
    \E msg \in AgentToServer :
        /\ msg.uid \in Presentable
        /\ UpsertFromAgentMsg(msg) \/ AddPendingApproval(msg)

DispatchStep ==
    \E id \in Ids :
        \/ NextPendingCommand(id)
        \/ \E obj \in dispatching : MarkCommandSent(id, obj)
        \/ PopNextAction(id)
        \/ PopAgentIdentification(id)

OperatorStep ==
    \/ \E id \in Ids :
          \/ \E action \in Actions : QueueCommand(id, action)
          \/ \E config \in Configs : SetRequestedConfig(id, config)
          \/ \E actions \in BoundedSeq(NextActions, MaxNextActions) :
                 SetNextActions(id, actions)
          \/ \E frequency \in Frequencies : SetClientHeartbeatFrequency(id, frequency)
          \/ RemoveClient(id)
          \/ \E uid \in ServerUids : SetAgentIdentification(id, uid)
    \/ \E frequency \in Frequencies : SetDefaultHeartbeatFrequency(frequency)

\* Methods that nobody calls for an arbitrary id today.
ReservedStep == \E id \in Ids : QueueForceResync(id) \/ AddEvent(id)

ApprovalStep == \E id \in Ids : ApprovePendingApproval(id) \/ BlockAgent(id)

Housekeeping ==
    \E expired \in (SUBSET DOMAIN clients) \ {{}} : PurgeDisconnected(expired)

Next ==
    \/ AgentMessage
    \/ DispatchStep
    \/ OperatorStep
    \/ ReservedStep
    \/ ApprovalStep
    \/ Housekeeping

Spec == Init /\ [][Next]_vars

-----------------------------------------------------------------------------
(* What the store promises *)

\* A dictionary, possibly empty, from keys to values.
Maps(map, keys, values) ==
    DOMAIN map \subseteq keys /\ \A k \in DOMAIN map : map[k] \in values

\* Type invariant of the store.  References lead somewhere: a queue only names
\* command objects that exist, and a replacement UID is one the store generated.
TypeOK ==
    /\ Maps(clients, Ids, ClientRecord)
    /\ Maps(pending_approvals, Ids, ClientRecord)
    /\ blocked_agents \subseteq Ids
    /\ default_heartbeat \in Nat \ {0}
    /\ command_objects \in Seq(CommandObject)
    /\ dispatching \subseteq DOMAIN command_objects
    /\ minted \subseteq ServerUids
    /\ handed_out \subseteq minted
    /\ Maps(replacements, minted, Ids)
    /\ \A id \in DOMAIN clients :
          /\ clients[id].pending_agent_identification \in minted \cup {NoUid}
          /\ \A i \in DOMAIN clients[id].commands :
                clients[id].commands[i] \in DOMAIN command_objects

\* A record is always stored under the id it carries, in both maps.  Handlers
\* look a record up by its client_id after an await, during which a reissued
\* UID may have moved it.
KeyedByOwnId ==
    /\ \A id \in DOMAIN clients : clients[id].client_id = id
    /\ \A id \in DOMAIN pending_approvals : pending_approvals[id].client_id = id

\* A command object sits in one place of one client's queue: a record that is
\* moved to a reissued UID takes its commands along and leaves none behind, so
\* that no command can reach two agents.
CommandsOwnedOnce ==
    \A j, k \in DOMAIN clients :
        \A m \in DOMAIN clients[j].commands, n \in DOMAIN clients[k].commands :
            clients[j].commands[m] = clients[k].commands[n] => j = k /\ m = n

\* Commands leave a client's queue in the order they were queued, whatever the
\* handlers that dispatch them concurrently do between taking and marking one.
SentInOrder ==
    \A id \in DOMAIN clients : \A m, n \in DOMAIN clients[id].commands :
        m < n /\ command_objects[clients[id].commands[n]].sent
            => command_objects[clients[id].commands[m]].sent

\* A client waiting for approval has nothing to be sent.
PendingHoldsNoWork ==
    \A id \in DOMAIN pending_approvals :
        /\ pending_approvals[id].commands = <<>>
        /\ pending_approvals[id].pending_agent_identification = NoUid

\* What a handler holds is behind no unsent command of the queue it came from.
DispatchingInOrder ==
    \A id \in DOMAIN clients : \A m, n \in DOMAIN clients[id].commands :
        m < n /\ clients[id].commands[n] \in dispatching
            => command_objects[clients[id].commands[m]].sent

\* The conjunction that every step preserves; SentInOrder alone is not inductive,
\* as marking may happen long after the choice of the command.
QueueInvariant ==
    /\ TypeOK
    /\ PendingHoldsNoWork
    /\ CommandsOwnedOnce
    /\ DispatchingInOrder
    /\ SentInOrder

Owned == {obj \in DOMAIN command_objects :
             \E id \in DOMAIN clients :
                 \E i \in DOMAIN clients[id].commands : clients[id].commands[i] = obj}

\* No unsent command leaves the store except with the client an operator
\* removes or the purge drops, or when an approval replaces the client's record.
\* In particular moving a record to a reissued UID loses none.
UnsentCommandsSurvive ==
    [][\A obj \in Owned \ Owned' :
           \/ command_objects[obj].sent
           \/ DOMAIN clients' \subseteq DOMAIN clients /\ DOMAIN clients' # DOMAIN clients
           \/ DOMAIN pending_approvals' # DOMAIN pending_approvals]_vars

NeverAsked(rec, objects) ==
    /\ rec.message_id # MIN_INTEGER
    /\ \A i \in DOMAIN rec.commands : objects[rec.commands[i]].action # ForceResync

\* The provider asks every agent that reports to it for its full state, at once
\* or later; only the approval workflow, which takes over the first message
\* unchecked, lets in one that nobody has asked.
OnlyApprovalSkipsResync ==
    [][\A id \in DOMAIN clients' :
           NeverAsked(clients'[id], command_objects') =>
               \/ \E old \in DOMAIN clients :
                     /\ old = id \/ (id \in DOMAIN replacements /\ replacements[id] = old)
                     /\ NeverAsked(clients[old], command_objects)
               \/ id \in DOMAIN pending_approvals \ DOMAIN pending_approvals']_vars

Tracked(id) ==
    LET uid == clients[id].pending_agent_identification
    IN  uid # NoUid => uid \in DOMAIN replacements /\ replacements[uid] = id

\* A replacement UID waiting to be sent to an agent leads back to that agent's
\* record: nothing unties the two short of an operator deleting that UID.
IdentificationStaysTracked ==
    [][\A id \in DOMAIN clients :
           /\ Tracked(id)
           /\ id \in DOMAIN clients'
           /\ ~RemoveClient(clients[id].pending_agent_identification)
           => Tracked(id)']_vars
=============================================================================
