-------------------------- MODULE ClientStoreProofs --------------------------
(***************************************************************************)
(* Proofs about ClientStore, and about RestoredStore, which is ClientStore *)
(* over restarts of the provider, for every value of their constants.      *)
(* TypeInv is inductive on its own; QueueInvariant rests on it.  For the   *)
(* restarts the same is said of what a snapshot holds (GoodSnapshot).      *)
(***************************************************************************)
EXTENDS RestoredStore, SequenceTheorems, FiniteSetTheorems, TLAPS

TypeInv == TypeOK /\ PendingHoldsNoWork

-----------------------------------------------------------------------------
\* What next_pending_command hands out has no unsent command before it.
LEMMA FirstUnsentIsFirst ==
  ASSUME NEW rec, NEW objects, DOMAIN rec.commands \subseteq Nat,
         NEW i \in FirstUnsent(rec, objects)
  PROVE  /\ i \in DOMAIN rec.commands
         /\ ~objects[rec.commands[i]].sent
         /\ \A j \in DOMAIN rec.commands : j < i => objects[rec.commands[j]].sent
BY DEF FirstUnsent, UnsentPositions

-----------------------------------------------------------------------------
(* The dictionary operations *)

LEMMA WithoutIsRemoval ==
  ASSUME NEW map, NEW ids
  PROVE  /\ DOMAIN Without(map, ids) = DOMAIN map \ ids
         /\ \A i \in DOMAIN map \ ids : Without(map, ids)[i] = map[i]
BY DEF Without, Restrict

LEMMA MapsStored ==
  ASSUME NEW map, NEW keys, NEW values, Maps(map, keys, values),
         NEW id \in keys, NEW rec \in values
  PROVE  Maps(Stored(map, id, rec), keys, values)
BY DEF Stored, Maps

LEMMA MapsWithout ==
  ASSUME NEW map, NEW keys, NEW values, Maps(map, keys, values), NEW ids
  PROVE  Maps(Without(map, ids), keys, values)
BY DEF Without, Restrict, Maps

LEMMA AtLeastOneIsPositive ==
  ASSUME NEW n \in Int
  PROVE  AtLeastOne(n) \in Nat \ {0}
BY DEF AtLeastOne

LEMMA NewRecordTyped ==
  ASSUME TypeOK, NEW id \in Ids
  PROVE  /\ NewRecord(id) \in ClientRecord
         /\ NewRecord(id).commands = <<>>
         /\ NewRecord(id).pending_agent_identification = NoUid
BY ConstantsAssumption DEF TypeOK, NewRecord, ClientRecord, MIN_INTEGER

LEMMA RecordOrNewTyped ==
  ASSUME TypeOK, NEW id \in Ids
  PROVE  /\ RecordOrNew(id) \in ClientRecord
         /\ RecordOrNew(id).pending_agent_identification \in minted \cup {NoUid}
         /\ \A i \in DOMAIN RecordOrNew(id).commands :
               RecordOrNew(id).commands[i] \in DOMAIN command_objects
<1>1. CASE id \in DOMAIN clients
  BY <1>1 DEF RecordOrNew, TypeOK, Maps
<1>2. CASE id \notin DOMAIN clients
  BY <1>2, NewRecordTyped DEF RecordOrNew
<1> QED BY <1>1, <1>2

\* A record whose references are good enough to be stored by a step.
GoodRecord(rec, objects, uids) ==
    /\ rec \in ClientRecord
    /\ rec.pending_agent_identification \in uids \cup {NoUid}
    /\ \A i \in DOMAIN rec.commands : rec.commands[i] \in DOMAIN objects

LEMMA GoodClients ==
  ASSUME TypeOK
  PROVE  \A id \in DOMAIN clients :
            id \in Ids /\ GoodRecord(clients[id], command_objects, minted)
BY DEF TypeOK, Maps, GoodRecord

LEMMA GoodRecordOrNew ==
  ASSUME TypeOK, NEW id \in Ids
  PROVE  GoodRecord(RecordOrNew(id), command_objects, minted)
BY RecordOrNewTyped DEF GoodRecord

LEMMA AppendedObject ==
  ASSUME TypeOK, NEW action \in CommandAction
  PROVE  /\ Append(command_objects, Fresh(action)) \in Seq(CommandObject)
         /\ DOMAIN Append(command_objects, Fresh(action))
               = DOMAIN command_objects \cup {NextObject}
         /\ NextObject \in Nat \ {0}
         /\ NextObject \notin DOMAIN command_objects
         /\ Append(command_objects, Fresh(action))[NextObject] = Fresh(action)
         /\ \A obj \in DOMAIN command_objects :
               Append(command_objects, Fresh(action))[obj] = command_objects[obj]
<1>1. Fresh(action) \in CommandObject
  BY DEF Fresh, CommandObject
<1>2. command_objects \in Seq(CommandObject)
  BY DEF TypeOK
<1> QED BY <1>1, <1>2 DEF NextObject

LEMMA WithCommandGood ==
  ASSUME TypeOK, NEW action \in CommandAction, NEW rec,
         GoodRecord(rec, command_objects, minted)
  PROVE  GoodRecord(WithCommand(rec, NextObject),
                    Append(command_objects, Fresh(action)), minted)
<1> DEFINE new == WithCommand(rec, NextObject)
<1>1. rec.commands \in Seq(Nat \ {0})
  BY DEF GoodRecord, ClientRecord
<1>2. NextObject \in Nat \ {0}
  BY AppendedObject
<1>3. Append(rec.commands, NextObject) \in Seq(Nat \ {0})
  BY <1>1, <1>2
<1>4. /\ new \in ClientRecord
      /\ new.commands = Append(rec.commands, NextObject)
      /\ new.pending_agent_identification = rec.pending_agent_identification
  BY <1>3 DEF GoodRecord, ClientRecord, WithCommand
<1>5. \A i \in DOMAIN new.commands :
         \/ i \in DOMAIN rec.commands /\ new.commands[i] = rec.commands[i]
         \/ new.commands[i] = NextObject
  BY <1>1, <1>2, <1>4
<1> QED BY <1>4, <1>5, AppendedObject DEF GoodRecord

-----------------------------------------------------------------------------
(* Every operation preserves the type invariant *)

AllGood(map, objects, uids) ==
    \A id \in DOMAIN map : id \in Ids /\ GoodRecord(map[id], objects, uids)

LEMMA AllGoodStored ==
  ASSUME NEW map, NEW objects, NEW uids, AllGood(map, objects, uids),
         NEW id \in Ids, NEW rec, GoodRecord(rec, objects, uids)
  PROVE  AllGood(Stored(map, id, rec), objects, uids)
BY DEF AllGood, Stored

LEMMA AllGoodWithout ==
  ASSUME NEW map, NEW objects, NEW uids, AllGood(map, objects, uids), NEW ids
  PROVE  AllGood(Without(map, ids), objects, uids)
BY DEF AllGood, Without, Restrict

LEMMA AllGoodMore ==
  ASSUME NEW map, NEW objects, NEW uids, AllGood(map, objects, uids),
         NEW moreObjects, DOMAIN objects \subseteq DOMAIN moreObjects,
         NEW moreUids, uids \subseteq moreUids
  PROVE  AllGood(map, moreObjects, moreUids)
BY DEF AllGood, GoodRecord

\* TypeOK, with the part about clients in the form the operations preserve it.
LEMMA TypeOKParts ==
  TypeOK <=>
    /\ AllGood(clients, command_objects, minted)
    /\ Maps(pending_approvals, Ids, ClientRecord)
    /\ blocked_agents \subseteq Ids
    /\ default_heartbeat \in Nat \ {0}
    /\ command_objects \in Seq(CommandObject)
    /\ dispatching \subseteq DOMAIN command_objects
    /\ minted \subseteq ServerUids
    /\ handed_out \subseteq minted
    /\ Maps(replacements, minted, Ids)
BY DEF TypeOK, Maps, AllGood, GoodRecord

LEMMA InitTyped == Init => TypeInv
BY DEF Init, TypeInv, TypeOK, PendingHoldsNoWork, Maps, DEFAULT_HEARTBEAT_FREQUENCY,
       CommandObject

\* The record of a client that a message reports for, before and after.
LEMMA RecordForGood ==
  ASSUME TypeOK, NEW id \in Ids
  PROVE  GoodRecord(RecordFor(id), command_objects, minted)
<1>1. CASE Rekeys(id)
  <2>1. GoodRecord(clients[replacements[id]], command_objects, minted)
    BY <1>1, GoodClients DEF Rekeys
  <2> QED BY <1>1, <2>1 DEF RecordFor, GoodRecord, ClientRecord
<1>2. CASE ~Rekeys(id)
  BY <1>2, GoodRecordOrNew DEF RecordFor
<1> QED BY <1>1, <1>2

LEMMA ReportedGood ==
  ASSUME NEW objects, NEW uids, NEW rec, GoodRecord(rec, objects, uids),
         NEW msg \in AgentToServer
  PROVE  GoodRecord(Reported(rec, msg), objects, uids)
<1>1. 0..MaxSequence \subseteq MIN_INTEGER..MaxSequence
  BY ConstantsAssumption DEF MIN_INTEGER
<1> QED BY <1>1 DEF GoodRecord, ClientRecord, Reported, AgentToServer

LEMMA UpsertTyped ==
  ASSUME TypeInv, NEW msg \in AgentToServer, UpsertFromAgentMsg(msg)
  PROVE  TypeInv'
<1> DEFINE rec == RecordFor(msg.uid)
<1> USE DEF TypeInv
<1>1. msg.uid \in Ids
  BY DEF AgentToServer
<1>2. GoodRecord(rec, command_objects, minted)
  BY <1>1, RecordForGood
<1>3. /\ command_objects' \in Seq(CommandObject)
      /\ DOMAIN command_objects \subseteq DOMAIN command_objects'
      /\ GoodRecord(UpsertedRecord(msg), command_objects', minted)
  <2>1. CASE QueuesResync(rec, msg.sequence_num)
    <3>1. ForceResync \in CommandAction
      BY DEF CommandAction
    <3>2. GoodRecord(WithCommand(rec, NextObject), command_objects', minted)
      BY <1>2, <2>1, <3>1, WithCommandGood DEF UpsertFromAgentMsg, UpsertedObjects
    <3> QED BY <2>1, <3>1, <3>2, AppendedObject, ReportedGood
        DEF UpsertFromAgentMsg, UpsertedObjects, UpsertedRecord
  <2>2. CASE ~QueuesResync(rec, msg.sequence_num)
    BY <1>2, <2>2, ReportedGood
    DEF UpsertFromAgentMsg, UpsertedObjects, UpsertedRecord, TypeOK
  <2> QED BY <2>1, <2>2
<1>4. AllGood(clients', command_objects', minted')
  <2>1. AllGood(clients, command_objects', minted)
    BY <1>3, TypeOKParts, AllGoodMore
  <2>2. AllGood(Without(clients, {replacements[msg.uid]}), command_objects', minted)
    BY <2>1, AllGoodWithout
  <2> QED BY <1>1, <1>3, <2>1, <2>2, AllGoodStored DEF UpsertFromAgentMsg, UpsertedClients
<1>5. Maps(replacements', minted, Ids)
  BY MapsWithout DEF UpsertFromAgentMsg, UpsertedReplacements, TypeOK
<1> QED BY <1>3, <1>4, <1>5, TypeOKParts
    DEF UpsertFromAgentMsg, TypeOK, PendingHoldsNoWork, Maps, AllGood, GoodRecord

\* What is common to the operations that leave everything but clients alone.
LEMMA OnlyClientsTyped ==
  ASSUME TypeInv, AllGood(clients', command_objects, minted),
         UNCHANGED <<pending_approvals, blocked_agents, replacements,
                     default_heartbeat, command_objects, dispatching, minted,
                     handed_out>>
  PROVE  TypeInv'
BY TypeOKParts DEF TypeInv, TypeOK, PendingHoldsNoWork, AllGood, GoodRecord, Maps

LEMMA RewriteTyped ==
  ASSUME TypeInv, NEW id \in Ids, NEW rec,
         GoodRecord(rec, command_objects, minted), Rewrite(id, rec)
  PROVE  TypeInv'
<1>1. AllGood(clients, command_objects, minted)
  BY TypeOKParts DEF TypeInv
<1>2. AllGood(clients', command_objects, minted)
  BY <1>1, AllGoodStored DEF Rewrite
<1> QED BY <1>2, OnlyClientsTyped DEF Rewrite

LEMMA AddPendingTyped ==
  ASSUME TypeInv, NEW msg \in AgentToServer, AddPendingApproval(msg)
  PROVE  TypeInv'
<1> DEFINE rec == Reported(NewRecord(msg.uid), msg)
<1> USE DEF TypeInv
<1>1. msg.uid \in Ids
  BY DEF AgentToServer
<1>2. GoodRecord(NewRecord(msg.uid), command_objects, minted)
  BY <1>1, NewRecordTyped DEF GoodRecord
<1>3. GoodRecord(rec, command_objects, minted)
  BY <1>2, ReportedGood
<1>4. rec.commands = <<>> /\ rec.pending_agent_identification = NoUid
  BY <1>1, <1>2, NewRecordTyped DEF Reported, GoodRecord, ClientRecord
<1>5. Maps(pending_approvals', Ids, ClientRecord)
  BY <1>1, <1>3, MapsStored DEF AddPendingApproval, TypeOK, GoodRecord
<1>6. ASSUME NEW id \in DOMAIN pending_approvals'
      PROVE  /\ pending_approvals'[id].commands = <<>>
             /\ pending_approvals'[id].pending_agent_identification = NoUid
  <2>1. pending_approvals' = Stored(pending_approvals, msg.uid, rec)
    BY DEF AddPendingApproval
  <2>2. CASE id = msg.uid
    BY <1>4, <2>1, <2>2 DEF Stored
  <2>3. CASE id # msg.uid
    BY <1>6, <2>1, <2>3 DEF PendingHoldsNoWork, Stored
  <2> QED BY <2>2, <2>3
<1> QED BY <1>5, <1>6 DEF AddPendingApproval, TypeOK, PendingHoldsNoWork, Maps

LEMMA QueueCommandTyped ==
  ASSUME TypeInv, NEW id \in Ids, NEW action \in CommandAction,
         QueueCommand(id, action)
  PROVE  TypeInv'
<1> DEFINE rec == WithCommand(RecordOrNew(id), NextObject)
<1> USE DEF TypeInv
<1>1. GoodRecord(rec, command_objects', minted)
  BY GoodRecordOrNew, WithCommandGood DEF QueueCommand
<1>2. AllGood(clients, command_objects', minted)
  BY TypeOKParts, AppendedObject, AllGoodMore DEF QueueCommand
<1>3. AllGood(clients', command_objects', minted')
  BY <1>1, <1>2, AllGoodStored DEF QueueCommand
<1>4. /\ command_objects' \in Seq(CommandObject)
      /\ dispatching \subseteq DOMAIN command_objects'
  BY AppendedObject DEF QueueCommand, TypeOK
<1> QED BY <1>3, <1>4 DEF QueueCommand, TypeOK, PendingHoldsNoWork, Maps, AllGood, GoodRecord

LEMMA SettingsTyped ==
  ASSUME TypeInv, NEW id \in Ids,
         \/ \E config \in Configs : SetRequestedConfig(id, config)
         \/ \E actions \in BoundedSeq(NextActions, MaxNextActions) :
               SetNextActions(id, actions)
         \/ AddEvent(id)
         \/ \E frequency \in Frequencies : SetClientHeartbeatFrequency(id, frequency)
         \/ PopNextAction(id)
  PROVE  TypeInv'
<1>0. /\ GoodRecord(RecordOrNew(id), command_objects, minted)
      /\ id \in DOMAIN clients => GoodRecord(clients[id], command_objects, minted)
  BY GoodRecordOrNew, GoodClients DEF TypeInv
<1>1. ASSUME NEW config \in Configs, SetRequestedConfig(id, config) PROVE TypeInv'
  <2>1. GoodRecord([RecordOrNew(id) EXCEPT !.requested_config = config],
                   command_objects, minted)
    BY <1>0 DEF GoodRecord, ClientRecord
  <2> QED BY <1>1, <2>1, RewriteTyped DEF SetRequestedConfig
<1>2. ASSUME NEW actions \in BoundedSeq(NextActions, MaxNextActions),
             SetNextActions(id, actions)
      PROVE  TypeInv'
  <2>1. actions \in Seq(NextActions)
    BY ConstantsAssumption DEF BoundedSeq, SeqOf
  <2>2. GoodRecord([RecordOrNew(id) EXCEPT !.next_actions = actions],
                   command_objects, minted)
    BY <1>0, <2>1 DEF GoodRecord, ClientRecord
  <2> QED BY <1>2, <2>2, RewriteTyped DEF SetNextActions
<1>3. CASE AddEvent(id)
  BY <1>0, <1>3, RewriteTyped DEF AddEvent
<1>4. ASSUME NEW frequency \in Frequencies, SetClientHeartbeatFrequency(id, frequency)
      PROVE  TypeInv'
  <2>1. AtLeastOne(frequency) \in Nat \ {0}
    BY ConstantsAssumption, AtLeastOneIsPositive
  <2>2. id \in DOMAIN clients
    BY <1>4 DEF SetClientHeartbeatFrequency
  <2>3. GoodRecord([clients[id] EXCEPT !.heartbeat_frequency = AtLeastOne(frequency)],
                   command_objects, minted)
    BY <1>0, <2>1, <2>2 DEF GoodRecord, ClientRecord
  <2> QED BY <1>4, <2>3, RewriteTyped DEF SetClientHeartbeatFrequency
<1>5. CASE PopNextAction(id)
  <2>1. id \in DOMAIN clients /\ clients[id].next_actions # <<>>
    BY <1>5 DEF PopNextAction
  <2>2. clients[id].next_actions \in Seq(NextActions)
    BY <1>0, <2>1 DEF GoodRecord, ClientRecord
  <2>3. Tail(clients[id].next_actions) \in Seq(NextActions)
    BY <2>1, <2>2
  <2>4. GoodRecord([clients[id] EXCEPT !.next_actions = Tail(@)], command_objects, minted)
    BY <1>0, <2>1, <2>3 DEF GoodRecord, ClientRecord
  <2> QED BY <1>5, <2>4, RewriteTyped DEF PopNextAction
<1> QED BY <1>1, <1>2, <1>3, <1>4, <1>5

LEMMA SetDefaultTyped ==
  ASSUME TypeInv, NEW frequency \in Frequencies, SetDefaultHeartbeatFrequency(frequency)
  PROVE  TypeInv'
<1>1. AtLeastOne(frequency) \in Nat \ {0}
  BY ConstantsAssumption, AtLeastOneIsPositive
<1>2. DOMAIN clients' = DOMAIN clients
  BY DEF SetDefaultHeartbeatFrequency
<1>3. ASSUME NEW id \in DOMAIN clients'
      PROVE  id \in Ids /\ GoodRecord(clients'[id], command_objects, minted)
  <2>1. id \in Ids /\ GoodRecord(clients[id], command_objects, minted)
    BY <1>2, <1>3, GoodClients DEF TypeInv
  <2>2. clients'[id] = [clients[id] EXCEPT !.heartbeat_frequency = AtLeastOne(frequency)]
    BY <1>2, <1>3 DEF SetDefaultHeartbeatFrequency
  <2> QED BY <1>1, <2>1, <2>2 DEF GoodRecord, ClientRecord
<1>4. AllGood(clients', command_objects, minted)
  BY <1>3 DEF AllGood
<1> QED BY <1>1, <1>4 DEF SetDefaultHeartbeatFrequency, TypeInv, TypeOK,
        PendingHoldsNoWork, Maps, AllGood, GoodRecord

LEMMA DispatchTyped ==
  ASSUME TypeInv, NEW id \in Ids,
         NextPendingCommand(id) \/ \E obj \in dispatching : MarkCommandSent(id, obj)
  PROVE  TypeInv'
<1> USE DEF TypeInv
<1>1. CASE NextPendingCommand(id)
  <2>1. PICK i \in FirstUnsent(clients[id], command_objects) :
           dispatching' = dispatching \cup {clients[id].commands[i]}
    BY <1>1 DEF NextPendingCommand
  <2>2. clients[id].commands[i] \in DOMAIN command_objects
    BY <1>1 DEF NextPendingCommand, FirstUnsent, UnsentPositions, TypeOK
  <2> QED BY <1>1, <2>1, <2>2 DEF NextPendingCommand, TypeOK, PendingHoldsNoWork, Maps
<1>2. ASSUME NEW obj \in dispatching, MarkCommandSent(id, obj) PROVE TypeInv'
  <2>1. /\ command_objects' \in Seq(CommandObject)
        /\ DOMAIN command_objects' = DOMAIN command_objects
    <3>1. command_objects[obj] \in CommandObject
      BY DEF TypeOK
    <3>2. [command_objects[obj] EXCEPT !.sent = TRUE] \in CommandObject
      BY <3>1 DEF CommandObject
    <3> QED BY <1>2, <3>2, ExceptSeq DEF MarkCommandSent, MarkedSent, TypeOK
  <2> QED BY <1>2, <2>1 DEF MarkCommandSent, TypeOK, PendingHoldsNoWork, Maps
<1> QED BY <1>1, <1>2

LEMMA RemoveTyped ==
  ASSUME TypeInv, NEW id \in Ids, RemoveClient(id)
  PROVE  TypeInv'
<1> USE DEF TypeInv
<1>1. AllGood(clients', command_objects, minted)
  BY TypeOKParts, AllGoodWithout DEF RemoveClient
<1>2. /\ Maps(pending_approvals', Ids, ClientRecord)
      /\ Maps(replacements', minted, Ids)
  BY MapsWithout DEF RemoveClient, TypeOK
<1>3. PendingHoldsNoWork'
  BY DEF RemoveClient, PendingHoldsNoWork, Without, Restrict
<1> QED BY <1>1, <1>2, <1>3 DEF RemoveClient, TypeOK, Maps, AllGood, GoodRecord

LEMMA ApproveTyped ==
  ASSUME TypeInv, NEW id \in Ids, ApprovePendingApproval(id)
  PROVE  TypeInv'
<1> USE DEF TypeInv
<1>1. GoodRecord(pending_approvals[id], command_objects, minted)
  BY DEF ApprovePendingApproval, TypeOK, PendingHoldsNoWork, Maps, GoodRecord
<1>2. AllGood(clients', command_objects, minted)
  BY <1>1, TypeOKParts, AllGoodStored DEF ApprovePendingApproval
<1>3. Maps(pending_approvals', Ids, ClientRecord)
  BY MapsWithout DEF ApprovePendingApproval, TypeOK
<1>4. PendingHoldsNoWork'
  BY DEF ApprovePendingApproval, PendingHoldsNoWork, Without, Restrict
<1> QED BY <1>2, <1>3, <1>4 DEF ApprovePendingApproval, TypeOK, Maps, AllGood, GoodRecord

LEMMA BlockTyped ==
  ASSUME TypeInv, NEW id \in Ids, BlockAgent(id)
  PROVE  TypeInv'
<1> USE DEF TypeInv
<1>1. Maps(pending_approvals', Ids, ClientRecord)
  BY MapsWithout DEF BlockAgent, TypeOK
<1>2. PendingHoldsNoWork'
  BY DEF BlockAgent, PendingHoldsNoWork, Without, Restrict
<1> QED BY <1>1, <1>2 DEF BlockAgent, TypeOK

LEMMA SetIdentificationTyped ==
  ASSUME TypeInv, NEW id \in Ids, NEW uid \in ServerUids, SetAgentIdentification(id, uid)
  PROVE  TypeInv'
<1> DEFINE rec == [clients[id] EXCEPT !.pending_agent_identification = uid]
<1> USE DEF TypeInv
<1>1. id \in DOMAIN clients /\ uid \in minted' /\ uid \in Ids
  BY DEF SetAgentIdentification, Ids
<1>2. AllGood(clients, command_objects, minted')
  BY TypeOKParts, AllGoodMore DEF SetAgentIdentification
<1>3. GoodRecord(rec, command_objects, minted')
  BY <1>1, <1>2 DEF AllGood, GoodRecord, ClientRecord
<1>4. AllGood(clients', command_objects, minted')
  BY <1>2, <1>3 DEF AllGood, SetAgentIdentification
<1>5. Maps(replacements', minted', Ids)
  <2>1. Maps(Without(replacements, {clients[id].pending_agent_identification}), minted, Ids)
    BY MapsWithout DEF TypeOK
  <2>2. Maps(Without(replacements, {clients[id].pending_agent_identification}), minted', Ids)
    BY <2>1 DEF Maps, SetAgentIdentification
  <2> QED BY <1>1, <2>2, MapsStored DEF SetAgentIdentification
<1> QED BY <1>4, <1>5
    DEF SetAgentIdentification, TypeOK, PendingHoldsNoWork, Maps, AllGood, GoodRecord

LEMMA PopIdentificationTyped ==
  ASSUME TypeInv, NEW id \in Ids, PopAgentIdentification(id)
  PROVE  TypeInv'
<1> DEFINE rec == [clients[id] EXCEPT !.pending_agent_identification = NoUid]
<1> USE DEF TypeInv
<1>1. id \in DOMAIN clients /\ GoodRecord(clients[id], command_objects, minted)
  BY GoodClients DEF PopAgentIdentification
<1>2. GoodRecord(rec, command_objects, minted)
  BY <1>1 DEF GoodRecord, ClientRecord
<1>3. AllGood(clients', command_objects, minted)
  BY <1>2, TypeOKParts DEF AllGood, PopAgentIdentification
<1>4. handed_out' \subseteq minted
  BY <1>1 DEF PopAgentIdentification, TypeOK, GoodRecord
<1> QED BY <1>3, <1>4
    DEF PopAgentIdentification, TypeOK, PendingHoldsNoWork, Maps, AllGood, GoodRecord

LEMMA PurgeTyped ==
  ASSUME TypeInv, NEW expired, PurgeDisconnected(expired)
  PROVE  TypeInv'
<1>1. AllGood(clients', command_objects, minted)
  BY TypeOKParts, AllGoodWithout DEF PurgeDisconnected, TypeInv
<1> QED BY <1>1, OnlyClientsTyped DEF PurgeDisconnected

LEMMA TypeInvStep == TypeInv /\ [Next]_vars => TypeInv'
<1> SUFFICES ASSUME TypeInv, [Next]_vars PROVE TypeInv'
  OBVIOUS
<1>1. CASE AgentMessage
  BY <1>1, UpsertTyped, AddPendingTyped DEF AgentMessage
<1>2. CASE DispatchStep
  BY <1>2, DispatchTyped, SettingsTyped, PopIdentificationTyped DEF DispatchStep
<1>3. CASE OperatorStep \/ ReservedStep
  <2>1. ASSUME NEW id \in Ids,
               (\E action \in Actions : QueueCommand(id, action)) \/ QueueForceResync(id)
        PROVE  TypeInv'
    <3>1. Actions \subseteq CommandAction /\ ForceResync \in CommandAction
      BY DEF CommandAction
    <3> QED BY <2>1, <3>1, QueueCommandTyped DEF QueueForceResync
  <2> QED BY <1>3, <2>1, SettingsTyped, RemoveTyped,
             SetIdentificationTyped, SetDefaultTyped DEF OperatorStep, ReservedStep
<1>4. CASE ApprovalStep
  BY <1>4, ApproveTyped, BlockTyped DEF ApprovalStep
<1>5. CASE Housekeeping
  BY <1>5, PurgeTyped DEF Housekeeping
<1>6. CASE UNCHANGED vars
  BY <1>6 DEF vars, TypeInv, TypeOK, PendingHoldsNoWork, Maps
<1> QED BY <1>1, <1>2, <1>3, <1>4, <1>5, <1>6 DEF Next

LEMMA TypeInvHolds == Spec => []TypeInv
BY InitTyped, TypeInvStep, PTL DEF Spec

\* Every reachable store is well formed: each queue names existing command
\* objects, each pending or awaited replacement UID was generated by the store,
\* and every heartbeat frequency is positive.
THEOREM TypeCorrect == Spec => []TypeOK
<1>1. TypeInv => TypeOK
  BY DEF TypeInv
<1> QED BY <1>1, TypeInvHolds, PTL

-----------------------------------------------------------------------------
(* Queues keep their order and their objects *)

QueueOrder == CommandsOwnedOnce /\ DispatchingInOrder /\ SentInOrder

\* Most operations leave every queue alone but that of one client, new, which
\* takes over what the client old had and may get one fresh command at its end.
Inherits(new, old) ==
    /\ \A id \in DOMAIN clients' \ {new} :
          id \in DOMAIN clients \ {old} /\ clients'[id].commands = clients[id].commands
    /\ new \in DOMAIN clients' =>
          \A i \in DOMAIN clients'[new].commands :
              \/ /\ old \in DOMAIN clients
                 /\ i \in DOMAIN clients[old].commands
                 /\ clients'[new].commands[i] = clients[old].commands[i]
              \/ /\ clients'[new].commands[i] \notin DOMAIN command_objects
                 /\ ~command_objects'[clients'[new].commands[i]].sent
                 /\ \A j \in DOMAIN clients'[new].commands : j <= i

LEMMA InheritedOrder ==
  ASSUME TypeInv, TypeInv', QueueOrder, NEW new, NEW old, Inherits(new, old),
         dispatching' = dispatching,
         \A obj \in DOMAIN command_objects : command_objects'[obj] = command_objects[obj]
  PROVE  QueueOrder'
<1> DEFINE from(id) == IF id = new THEN old ELSE id
           inherited(id, i) ==
              /\ from(id) \in DOMAIN clients
              /\ i \in DOMAIN clients[from(id)].commands
              /\ clients'[id].commands[i] = clients[from(id)].commands[i]
              /\ clients'[id].commands[i] \in DOMAIN command_objects
           fresh(id, i) ==
              /\ id = new
              /\ clients'[id].commands[i] \notin DOMAIN command_objects
              /\ ~command_objects'[clients'[id].commands[i]].sent
              /\ \A j \in DOMAIN clients'[id].commands : j <= i
<1>1. \A id \in DOMAIN clients' : \A i \in DOMAIN clients'[id].commands :
         inherited(id, i) \/ fresh(id, i)
  BY DEF Inherits, TypeInv, TypeOK
<1>2. \A j, k \in DOMAIN clients' : from(j) = from(k) => j = k
  BY DEF Inherits
<1>3. \A id \in DOMAIN clients' : DOMAIN clients'[id].commands \subseteq Nat
  BY DEF TypeInv, TypeOK, Maps, ClientRecord
<1> HIDE DEF from
<1>4. CommandsOwnedOnce'
  <2> SUFFICES ASSUME NEW j \in DOMAIN clients', NEW k \in DOMAIN clients',
                      NEW m \in DOMAIN clients'[j].commands,
                      NEW n \in DOMAIN clients'[k].commands,
                      clients'[j].commands[m] = clients'[k].commands[n]
               PROVE  j = k /\ m = n
    BY DEF CommandsOwnedOnce
  <2>1. CASE inherited(j, m)
    <3>1. inherited(k, n)
      BY <1>1, <2>1
    <3>2. from(j) = from(k) /\ m = n
      <4>1. /\ from(j) \in DOMAIN clients /\ m \in DOMAIN clients[from(j)].commands
            /\ from(k) \in DOMAIN clients /\ n \in DOMAIN clients[from(k)].commands
            /\ clients[from(j)].commands[m] = clients[from(k)].commands[n]
        BY <2>1, <3>1
      <4>2. CommandsOwnedOnce
        BY DEF QueueOrder
      <4> QED BY <4>1, <4>2, ZenonT(30) DEF CommandsOwnedOnce
    <3> QED BY <1>2, <3>2
  <2>2. CASE fresh(j, m)
    <3>1. fresh(k, n)
      BY <1>1, <2>2
    <3>2. j = k
      BY <2>2, <3>1
    <3>3. m \in Nat /\ n \in Nat /\ m <= n /\ n <= m
      BY <1>3, <2>2, <3>1, <3>2
    <3> QED BY <3>2, <3>3
  <2> QED BY <1>1, <2>1, <2>2
<1>5. DispatchingInOrder' /\ SentInOrder'
  <2> SUFFICES ASSUME NEW id \in DOMAIN clients',
                      NEW m \in DOMAIN clients'[id].commands,
                      NEW n \in DOMAIN clients'[id].commands, m < n,
                      \/ clients'[id].commands[n] \in dispatching
                      \/ command_objects'[clients'[id].commands[n]].sent
               PROVE  command_objects'[clients'[id].commands[m]].sent
    BY DEF DispatchingInOrder, SentInOrder
  <2>1. inherited(id, n)
    BY <1>1 DEF TypeInv, TypeOK
  <2>2. m \in Nat /\ n \in Nat
    BY <1>3
  <2>3. inherited(id, m)
    BY <1>1, <2>2
  <2>4. command_objects[clients[from(id)].commands[m]].sent
    BY <2>1, <2>3 DEF QueueOrder, DispatchingInOrder, SentInOrder
  <2> QED BY <2>3, <2>4
<1> QED BY <1>4, <1>5 DEF QueueOrder

\* The case in which no command is created.
LEMMA KeptOrder ==
  ASSUME TypeInv, TypeInv', QueueOrder,
         dispatching' = dispatching, command_objects' = command_objects,
         NEW new,
         \A id \in DOMAIN clients' \ {new} :
            id \in DOMAIN clients /\ clients'[id].commands = clients[id].commands,
         new \in DOMAIN clients' =>
            \/ clients'[new].commands = <<>>
            \/ new \in DOMAIN clients /\ clients'[new].commands = clients[new].commands
  PROVE  QueueOrder'
<1>1. Inherits(new, new)
  BY DEF Inherits
<1> QED BY <1>1, InheritedOrder

LEMMA RewriteOrder ==
  ASSUME TypeInv, TypeInv', QueueOrder, NEW id, NEW rec, Rewrite(id, rec),
         \/ rec.commands = <<>>
         \/ id \in DOMAIN clients /\ rec.commands = clients[id].commands
  PROVE  QueueOrder'
<1>1. /\ DOMAIN clients' = DOMAIN clients \cup {id}
      /\ clients'[id] = rec
      /\ \A i \in DOMAIN clients \ {id} : clients'[i] = clients[i]
  BY DEF Rewrite, Stored
<1> QED BY <1>1, KeptOrder DEF Rewrite

\* A fresh command goes behind everything the queue holds.
LEMMA AppendedQueue ==
  ASSUME TypeInv, NEW rec \in ClientRecord, NEW i,
         i \in DOMAIN WithCommand(rec, NextObject).commands
  PROVE  \/ /\ i \in DOMAIN rec.commands
            /\ WithCommand(rec, NextObject).commands[i] = rec.commands[i]
         \/ /\ WithCommand(rec, NextObject).commands[i] = NextObject
            /\ \A j \in DOMAIN WithCommand(rec, NextObject).commands : j <= i
<1> DEFINE old == rec.commands
           new == WithCommand(rec, NextObject).commands
<1>1. old \in Seq(Nat \ {0}) /\ new = Append(old, NextObject)
  BY DEF ClientRecord, WithCommand
<1>2. NextObject \in Nat \ {0}
  BY AppendedObject DEF TypeInv, CommandAction
<1>3. /\ DOMAIN new = 1..(Len(old) + 1) /\ Len(old) \in Nat /\ DOMAIN old = 1..Len(old)
      /\ \A j \in 1..Len(old) : new[j] = old[j]
      /\ new[Len(old) + 1] = NextObject
  BY <1>1, <1>2
<1>4. CASE i \in 1..Len(old)
  BY <1>3, <1>4
<1>5. CASE i \notin 1..Len(old)
  BY <1>3, <1>5
<1> QED BY <1>4, <1>5

LEMMA QueueCommandOrder ==
  ASSUME TypeInv, TypeInv', QueueOrder, NEW id \in Ids, NEW action \in CommandAction,
         QueueCommand(id, action)
  PROVE  QueueOrder'
<1>1. /\ DOMAIN clients' = DOMAIN clients \cup {id}
      /\ clients'[id] = WithCommand(RecordOrNew(id), NextObject)
      /\ \A i \in DOMAIN clients \ {id} : clients'[i] = clients[i]
  BY DEF QueueCommand, Stored
<1>2. RecordOrNew(id) \in ClientRecord
  BY RecordOrNewTyped DEF TypeInv
<1>3. /\ NextObject \notin DOMAIN command_objects
      /\ ~command_objects'[NextObject].sent
      /\ \A obj \in DOMAIN command_objects : command_objects'[obj] = command_objects[obj]
  BY AppendedObject DEF TypeInv, QueueCommand, Fresh
<1>4. \/ RecordOrNew(id).commands = <<>>
      \/ id \in DOMAIN clients /\ RecordOrNew(id).commands = clients[id].commands
  BY DEF RecordOrNew, NewRecord
<1>5. Inherits(id, id)
  BY <1>1, <1>2, <1>3, <1>4, AppendedQueue DEF Inherits
<1> QED BY <1>3, <1>5, InheritedOrder DEF QueueCommand

LEMMA UpsertOrder ==
  ASSUME TypeInv, TypeInv', QueueOrder, NEW msg \in AgentToServer, UpsertFromAgentMsg(msg)
  PROVE  QueueOrder'
<1> DEFINE id == msg.uid
           old == IF Rekeys(id) THEN replacements[id] ELSE id
           rec == RecordFor(id)
           queues == QueuesResync(rec, msg.sequence_num)
<1>1. id \in Ids
  BY DEF AgentToServer
<1>2. rec \in ClientRecord
  BY <1>1, RecordForGood DEF TypeInv, GoodRecord
<1>3. \/ rec.commands = <<>>
      \/ old \in DOMAIN clients /\ rec.commands = clients[old].commands
  BY DEF RecordFor, RecordOrNew, NewRecord, Rekeys
<1>4. /\ id \in DOMAIN clients'
      /\ clients'[id] = UpsertedRecord(msg)
      /\ \A i \in DOMAIN clients' \ {id} :
            i \in DOMAIN clients \ {old} /\ clients'[i] = clients[i]
  BY DEF UpsertFromAgentMsg, UpsertedClients, Stored, Without, Restrict
<1>5. \A r \in ClientRecord : Reported(r, msg).commands = r.commands
  BY DEF Reported, ClientRecord
<1>6. CASE queues
  <2>1. WithCommand(rec, NextObject) \in ClientRecord
    BY <1>1, RecordForGood, WithCommandGood DEF TypeInv, GoodRecord, CommandAction
  <2>2. clients'[id].commands = WithCommand(rec, NextObject).commands
    BY <1>4, <1>5, <1>6, <2>1 DEF UpsertedRecord
  <2>3. /\ NextObject \notin DOMAIN command_objects
        /\ ~command_objects'[NextObject].sent
        /\ \A obj \in DOMAIN command_objects : command_objects'[obj] = command_objects[obj]
    BY <1>6, AppendedObject
    DEF TypeInv, UpsertFromAgentMsg, UpsertedObjects, Fresh, CommandAction
  <2>4. Inherits(id, old)
    BY <1>2, <1>3, <1>4, <2>2, <2>3, AppendedQueue DEF Inherits
  <2> QED BY <2>3, <2>4, InheritedOrder DEF UpsertFromAgentMsg
<1>7. CASE ~queues
  <2>1. clients'[id].commands = rec.commands
    BY <1>2, <1>4, <1>5, <1>7 DEF UpsertedRecord
  <2>2. command_objects' = command_objects
    BY <1>7 DEF UpsertFromAgentMsg, UpsertedObjects
  <2>3. Inherits(id, old)
    BY <1>3, <1>4, <2>1 DEF Inherits
  <2> QED BY <2>2, <2>3, InheritedOrder DEF UpsertFromAgentMsg
<1> QED BY <1>6, <1>7

LEMMA MarkOrder ==
  ASSUME TypeInv, QueueOrder, NEW id, NEW obj \in dispatching, MarkCommandSent(id, obj)
  PROVE  QueueOrder'
<1>1. clients' = clients /\ dispatching' \subseteq dispatching
  BY DEF MarkCommandSent
<1>2. obj \in DOMAIN command_objects /\ command_objects[obj] \in CommandObject
  BY DEF TypeInv, TypeOK
<1>3. /\ command_objects'[obj] = [command_objects[obj] EXCEPT !.sent = TRUE]
      /\ \A o \in DOMAIN command_objects \ {obj} : command_objects'[o] = command_objects[o]
  BY <1>2 DEF MarkCommandSent, MarkedSent
<1>4. command_objects'[obj].sent
  BY <1>2, <1>3 DEF CommandObject
<1>5. \A o \in DOMAIN command_objects : command_objects[o].sent => command_objects'[o].sent
  BY <1>3, <1>4
<1>6. CommandsOwnedOnce'
  BY <1>1 DEF QueueOrder, CommandsOwnedOnce
<1>7. \A i \in DOMAIN clients : \A m \in DOMAIN clients[i].commands :
         clients[i].commands[m] \in DOMAIN command_objects
  BY DEF TypeInv, TypeOK
<1>8. ASSUME NEW i \in DOMAIN clients,
             NEW m \in DOMAIN clients[i].commands, NEW n \in DOMAIN clients[i].commands,
             m < n,
             \/ clients[i].commands[n] \in dispatching
             \/ command_objects'[clients[i].commands[n]].sent
      PROVE  command_objects'[clients[i].commands[m]].sent
  <2>1. \/ clients[i].commands[n] \in dispatching
        \/ command_objects[clients[i].commands[n]].sent
    BY <1>3, <1>7, <1>8
  <2>2. command_objects[clients[i].commands[m]].sent
    BY <1>8, <2>1 DEF QueueOrder, DispatchingInOrder, SentInOrder
  <2> QED BY <1>5, <1>7, <2>2
<1> QED BY <1>1, <1>6, <1>8 DEF QueueOrder, DispatchingInOrder, SentInOrder

LEMMA NextPendingOrder ==
  ASSUME TypeInv, QueueOrder, NEW id, NextPendingCommand(id)
  PROVE  QueueOrder'
<1>1. PICK i \in FirstUnsent(clients[id], command_objects) :
         dispatching' = dispatching \cup {clients[id].commands[i]}
  BY DEF NextPendingCommand
<1>2. id \in DOMAIN clients /\ clients' = clients /\ command_objects' = command_objects
  BY DEF NextPendingCommand
<1>3. DOMAIN clients[id].commands \subseteq Nat
  BY <1>2 DEF TypeInv, TypeOK, Maps, ClientRecord
<1>4. /\ i \in DOMAIN clients[id].commands
      /\ \A j \in DOMAIN clients[id].commands :
            j < i => command_objects[clients[id].commands[j]].sent
  BY <1>1, <1>3, FirstUnsentIsFirst
<1>5. \A k \in DOMAIN clients : \A n \in DOMAIN clients[k].commands :
         clients[k].commands[n] = clients[id].commands[i] => k = id /\ n = i
  BY <1>2, <1>4 DEF QueueOrder, CommandsOwnedOnce
<1>6. DispatchingInOrder'
  BY <1>1, <1>2, <1>4, <1>5 DEF QueueOrder, DispatchingInOrder
<1> QED BY <1>2, <1>6 DEF QueueOrder, CommandsOwnedOnce, SentInOrder

LEMMA QueueOrderStep == TypeInv /\ TypeInv' /\ QueueOrder /\ [Next]_vars => QueueOrder'
<1> SUFFICES ASSUME TypeInv, TypeInv', QueueOrder, [Next]_vars PROVE QueueOrder'
  OBVIOUS
<1>1. ASSUME NEW msg \in AgentToServer, AddPendingApproval(msg) PROVE QueueOrder'
  BY <1>1 DEF AddPendingApproval, QueueOrder, CommandsOwnedOnce, DispatchingInOrder,
              SentInOrder
<1>2. CASE AgentMessage
  BY <1>1, <1>2, UpsertOrder DEF AgentMessage
<1>3. ASSUME NEW id \in Ids, PopNextAction(id) PROVE QueueOrder'
  <2>1. id \in DOMAIN clients /\ clients[id] \in ClientRecord
    BY <1>3 DEF PopNextAction, TypeInv, TypeOK, Maps
  <2>2. [clients[id] EXCEPT !.next_actions = Tail(@)].commands = clients[id].commands
    BY <2>1 DEF ClientRecord
  <2> QED BY <1>3, <2>1, <2>2, RewriteOrder DEF PopNextAction
<1>4. ASSUME NEW id \in Ids, PopAgentIdentification(id) PROVE QueueOrder'
  <2>1. id \in DOMAIN clients /\ clients[id] \in ClientRecord
    BY <1>4 DEF PopAgentIdentification, TypeInv, TypeOK, Maps
  <2>2. /\ DOMAIN clients' = DOMAIN clients
        /\ \A i \in DOMAIN clients : clients'[i].commands = clients[i].commands
    BY <1>4, <2>1 DEF PopAgentIdentification, ClientRecord
  <2> QED BY <1>4, <2>2, KeptOrder DEF PopAgentIdentification
<1>5. CASE DispatchStep
  BY <1>3, <1>4, <1>5, NextPendingOrder, MarkOrder DEF DispatchStep
<1>6. CASE \E id \in Ids : (\E action \in Actions : QueueCommand(id, action))
                           \/ QueueForceResync(id)
  <2>1. Actions \subseteq CommandAction /\ ForceResync \in CommandAction
    BY DEF CommandAction
  <2> QED BY <1>6, <2>1, QueueCommandOrder DEF QueueForceResync
<1>7. ASSUME NEW id \in Ids,
             \/ \E config \in Configs : SetRequestedConfig(id, config)
             \/ \E actions \in BoundedSeq(NextActions, MaxNextActions) :
                   SetNextActions(id, actions)
             \/ AddEvent(id)
             \/ \E frequency \in Frequencies : SetClientHeartbeatFrequency(id, frequency)
      PROVE  QueueOrder'
  <2> DEFINE rec == RecordOrNew(id)
  <2>1. rec \in ClientRecord
    BY RecordOrNewTyped DEF TypeInv
  <2>2. rec.commands = <<>> \/ (id \in DOMAIN clients /\ rec.commands = clients[id].commands)
    BY DEF RecordOrNew, NewRecord
  <2>3. \A value : [rec EXCEPT !.requested_config = value].commands = rec.commands
    BY <2>1 DEF ClientRecord
  <2>4. \A value : [rec EXCEPT !.next_actions = value].commands = rec.commands
    BY <2>1 DEF ClientRecord
  <2>5. ASSUME NEW frequency, SetClientHeartbeatFrequency(id, frequency) PROVE QueueOrder'
    <3>1. id \in DOMAIN clients /\ clients[id] \in ClientRecord
      BY <2>5 DEF SetClientHeartbeatFrequency, TypeInv, TypeOK, Maps
    <3>2. [clients[id] EXCEPT !.heartbeat_frequency = AtLeastOne(frequency)].commands
             = clients[id].commands
      BY <3>1 DEF ClientRecord
    <3> QED BY <2>5, <3>1, <3>2, RewriteOrder DEF SetClientHeartbeatFrequency
  <2>6. ASSUME NEW config, SetRequestedConfig(id, config) PROVE QueueOrder'
    BY <2>2, <2>3, <2>6, RewriteOrder DEF SetRequestedConfig
  <2>7. ASSUME NEW actions, SetNextActions(id, actions) PROVE QueueOrder'
    BY <2>2, <2>4, <2>7, RewriteOrder DEF SetNextActions
  <2>8. CASE AddEvent(id)
    BY <2>2, <2>8, RewriteOrder DEF AddEvent
  <2> QED BY <1>7, <2>5, <2>6, <2>7, <2>8
<1>8. ASSUME NEW id \in Ids, RemoveClient(id) PROVE QueueOrder'
  <2>1. DOMAIN clients' = DOMAIN clients \ {id} /\ \A i \in DOMAIN clients' : clients'[i] = clients[i]
    BY <1>8 DEF RemoveClient, Without, Restrict
  <2> QED BY <1>8, <2>1, KeptOrder DEF RemoveClient
<1>9. ASSUME NEW id \in Ids, ApprovePendingApproval(id) PROVE QueueOrder'
  <2>1. /\ DOMAIN clients' = DOMAIN clients \cup {id}
        /\ clients'[id] = pending_approvals[id]
        /\ \A i \in DOMAIN clients \ {id} : clients'[i] = clients[i]
    BY <1>9 DEF ApprovePendingApproval, Stored
  <2>2. pending_approvals[id].commands = <<>>
    BY <1>9 DEF ApprovePendingApproval, TypeInv, PendingHoldsNoWork
  <2> QED BY <1>9, <2>1, <2>2, KeptOrder DEF ApprovePendingApproval
<1>10. ASSUME NEW id \in Ids, BlockAgent(id) PROVE QueueOrder'
  BY <1>10 DEF BlockAgent, QueueOrder, CommandsOwnedOnce, DispatchingInOrder, SentInOrder
<1>11. ASSUME NEW id \in Ids, NEW uid \in ServerUids, SetAgentIdentification(id, uid)
       PROVE  QueueOrder'
  <2>1. id \in DOMAIN clients /\ clients[id] \in ClientRecord
    BY <1>11 DEF SetAgentIdentification, TypeInv, TypeOK, Maps
  <2>2. /\ DOMAIN clients' = DOMAIN clients
        /\ \A i \in DOMAIN clients : clients'[i].commands = clients[i].commands
    BY <1>11, <2>1 DEF SetAgentIdentification, ClientRecord
  <2> QED BY <1>11, <2>2, KeptOrder DEF SetAgentIdentification
<1>12. ASSUME NEW frequency \in Frequencies, SetDefaultHeartbeatFrequency(frequency)
       PROVE  QueueOrder'
  <2>1. /\ DOMAIN clients' = DOMAIN clients
        /\ \A i \in DOMAIN clients : clients'[i].commands = clients[i].commands
    BY <1>12 DEF SetDefaultHeartbeatFrequency, TypeInv, TypeOK, Maps, ClientRecord
  <2> QED BY <1>12, <2>1, KeptOrder DEF SetDefaultHeartbeatFrequency
<1>13. CASE OperatorStep \/ ReservedStep
  BY <1>6, <1>7, <1>8, <1>11, <1>12, <1>13 DEF OperatorStep, ReservedStep
<1>14. CASE ApprovalStep
  BY <1>9, <1>10, <1>14 DEF ApprovalStep
<1>15. ASSUME NEW expired, PurgeDisconnected(expired) PROVE QueueOrder'
  <2>1. \A i \in DOMAIN clients' : i \in DOMAIN clients /\ clients'[i] = clients[i]
    BY <1>15 DEF PurgeDisconnected, Without, Restrict
  <2> QED BY <1>15, <2>1, KeptOrder DEF PurgeDisconnected
<1>16. CASE Housekeeping
  BY <1>15, <1>16 DEF Housekeeping
<1>17. CASE UNCHANGED vars
  BY <1>17 DEF vars, QueueOrder, CommandsOwnedOnce, DispatchingInOrder, SentInOrder
<1> QED BY <1>2, <1>5, <1>13, <1>14, <1>16, <1>17 DEF Next

\* No command can reach two agents and none overtakes an earlier one of its
\* queue, however message handlers interleave with one another and with the
\* operators' queueing, reissuing, approving and removing.
THEOREM QueuesCorrect == Spec => []QueueInvariant
<1>1. Init => QueueOrder
  BY DEF Init, QueueOrder, CommandsOwnedOnce, DispatchingInOrder, SentInOrder
<1>2. Spec => []QueueOrder
  BY <1>1, TypeInvHolds, QueueOrderStep, PTL DEF Spec
<1>3. TypeInv /\ QueueOrder => QueueInvariant
  BY DEF TypeInv, QueueOrder, QueueInvariant
<1> QED BY <1>2, <1>3, TypeInvHolds, PTL

\* Commands leave every client's queue in the order they were queued.
THEOREM SentInOrderAlways == Spec => []SentInOrder
<1>1. QueueInvariant => SentInOrder
  BY DEF QueueInvariant
<1> QED BY <1>1, QueuesCorrect, PTL

\* No command object is in two places of the clients' queues.
THEOREM CommandsOwnedOnceAlways == Spec => []CommandsOwnedOnce
<1>1. QueueInvariant => CommandsOwnedOnce
  BY DEF QueueInvariant
<1> QED BY <1>1, QueuesCorrect, PTL

-----------------------------------------------------------------------------
(* What a step does to the records *)

\* The fields of a record that the properties below speak of.
Alike(new, old) ==
    /\ new.client_id = old.client_id
    /\ new.message_id = old.message_id
    /\ new.commands = old.commands
    /\ new.pending_agent_identification = old.pending_agent_identification

\* A step that changes at most other fields, or creates a record.
RecordsAlike ==
    /\ \E id : DOMAIN clients' \subseteq DOMAIN clients \cup {id}
    /\ DOMAIN clients \subseteq DOMAIN clients'
    /\ \A id \in DOMAIN clients : Alike(clients'[id], clients[id])
    /\ \A id \in DOMAIN clients' \ DOMAIN clients : Alike(clients'[id], NewRecord(id))
    /\ UNCHANGED <<pending_approvals, replacements, command_objects, minted>>

LEMMA RewriteAlike ==
  ASSUME NEW id, NEW rec, Rewrite(id, rec), Alike(rec, RecordOrNew(id))
  PROVE  RecordsAlike
BY DEF Rewrite, Stored, RecordsAlike, RecordOrNew, Alike

LEMMA SettingsAlike ==
  ASSUME TypeInv, NEW id \in Ids,
         \/ \E config : SetRequestedConfig(id, config)
         \/ \E actions : SetNextActions(id, actions)
         \/ AddEvent(id)
         \/ \E frequency : SetClientHeartbeatFrequency(id, frequency)
         \/ PopNextAction(id)
  PROVE  RecordsAlike
<1> DEFINE rec == RecordOrNew(id)
<1>1. rec \in ClientRecord
  BY RecordOrNewTyped DEF TypeInv
<1>2. \A value : /\ Alike([rec EXCEPT !.requested_config = value], rec)
                /\ Alike([rec EXCEPT !.next_actions = value], rec)
                /\ Alike([rec EXCEPT !.heartbeat_frequency = value], rec)
  BY <1>1 DEF Alike, ClientRecord
<1>3. Alike(rec, rec)
  BY DEF Alike
<1>4. id \in DOMAIN clients => rec = clients[id]
  BY DEF RecordOrNew
<1> HIDE DEF rec
<1>5. ASSUME NEW config, SetRequestedConfig(id, config) PROVE RecordsAlike
  BY <1>2, <1>5, RewriteAlike DEF SetRequestedConfig, rec
<1>6. ASSUME NEW actions, SetNextActions(id, actions) PROVE RecordsAlike
  BY <1>2, <1>6, RewriteAlike DEF SetNextActions, rec
<1>7. CASE AddEvent(id)
  BY <1>3, <1>7, RewriteAlike DEF AddEvent, rec
<1>8. ASSUME NEW frequency, SetClientHeartbeatFrequency(id, frequency) PROVE RecordsAlike
  <2>1. Rewrite(id, [rec EXCEPT !.heartbeat_frequency = AtLeastOne(frequency)])
    BY <1>4, <1>8 DEF SetClientHeartbeatFrequency
  <2> QED BY <1>2, <2>1, RewriteAlike DEF rec
<1>9. CASE PopNextAction(id)
  <2>1. Rewrite(id, [rec EXCEPT !.next_actions = Tail(rec.next_actions)])
    BY <1>4, <1>9 DEF PopNextAction
  <2> QED BY <1>2, <2>1, RewriteAlike DEF rec
<1> QED BY <1>5, <1>6, <1>7, <1>8, <1>9

LEMMA SetDefaultAlike ==
  ASSUME TypeInv, NEW frequency, SetDefaultHeartbeatFrequency(frequency)
  PROVE  RecordsAlike
<1>1. \A id \in DOMAIN clients : clients[id] \in ClientRecord
  BY DEF TypeInv, TypeOK, Maps
<1>2. /\ DOMAIN clients' = DOMAIN clients
      /\ \A id \in DOMAIN clients :
            clients'[id] = [clients[id] EXCEPT !.heartbeat_frequency = AtLeastOne(frequency)]
  BY DEF SetDefaultHeartbeatFrequency
<1>3. \A id \in DOMAIN clients : Alike(clients'[id], clients[id])
  BY <1>1, <1>2 DEF Alike, ClientRecord
<1> QED BY <1>2, <1>3 DEF RecordsAlike, SetDefaultHeartbeatFrequency

\* Every step of the store, by what it may do to the records.
LEMMA StepKinds ==
  ASSUME TypeInv, [Next]_vars
  PROVE  \/ \E msg \in AgentToServer : UpsertFromAgentMsg(msg) \/ AddPendingApproval(msg)
         \/ \E id \in Ids : \E action \in CommandAction : QueueCommand(id, action)
         \/ \E id \in Ids : \/ NextPendingCommand(id)
                            \/ \E obj \in dispatching : MarkCommandSent(id, obj)
                            \/ PopAgentIdentification(id)
                            \/ \E uid \in ServerUids : SetAgentIdentification(id, uid)
                            \/ RemoveClient(id) \/ ApprovePendingApproval(id) \/ BlockAgent(id)
         \/ \E expired \in (SUBSET DOMAIN clients) \ {{}} : PurgeDisconnected(expired)
         \/ RecordsAlike
<1>1. Actions \subseteq CommandAction /\ ForceResync \in CommandAction
  BY DEF CommandAction
<1>2. CASE AgentMessage
  BY <1>2 DEF AgentMessage
<1>3. CASE DispatchStep
  BY <1>3, SettingsAlike DEF DispatchStep
<1>4. CASE OperatorStep
  BY <1>1, <1>4, SettingsAlike, SetDefaultAlike DEF OperatorStep
<1>5. CASE ReservedStep
  BY <1>1, <1>5, SettingsAlike DEF ReservedStep, QueueForceResync
<1>6. CASE ApprovalStep \/ Housekeeping
  BY <1>6 DEF ApprovalStep, Housekeeping
<1>7. CASE UNCHANGED vars
  BY <1>7 DEF vars, RecordsAlike, Alike
<1> QED BY <1>2, <1>3, <1>4, <1>5, <1>6, <1>7 DEF Next

-----------------------------------------------------------------------------
(* Records stay under their own ids *)

Keyed(map) == \A id \in DOMAIN map : map[id].client_id = id

LEMMA KeyedStored ==
  ASSUME NEW map, Keyed(map), NEW id, NEW rec, rec.client_id = id
  PROVE  Keyed(Stored(map, id, rec))
BY DEF Keyed, Stored

LEMMA KeyedWithout ==
  ASSUME NEW map, Keyed(map), NEW ids
  PROVE  Keyed(Without(map, ids))
BY DEF Keyed, Without, Restrict

\* Whatever record a message continues, it becomes the one of the message's id.
LEMMA UpsertedCarriesId ==
  ASSUME TypeInv, Keyed(clients), NEW msg \in AgentToServer
  PROVE  UpsertedRecord(msg).client_id = msg.uid
<1> DEFINE rec == RecordFor(msg.uid)
           full == IF QueuesResync(rec, msg.sequence_num)
                   THEN WithCommand(rec, NextObject) ELSE rec
<1>1. msg.uid \in Ids
  BY DEF AgentToServer
<1>2. rec \in ClientRecord
  BY <1>1, RecordForGood DEF TypeInv, GoodRecord
<1>3. rec.client_id = msg.uid
  <2>1. CASE Rekeys(msg.uid)
    <3>1. clients[replacements[msg.uid]] \in ClientRecord
      BY <2>1 DEF Rekeys, TypeInv, TypeOK, Maps
    <3> QED BY <2>1, <3>1 DEF RecordFor, ClientRecord
  <2>2. CASE ~Rekeys(msg.uid)
    BY <2>2 DEF RecordFor, RecordOrNew, NewRecord, Keyed
  <2> QED BY <2>1, <2>2
<1>4. full \in ClientRecord
  BY <1>1, RecordForGood, WithCommandGood DEF TypeInv, GoodRecord, CommandAction
<1>5. full.client_id = msg.uid
  BY <1>2, <1>3 DEF WithCommand, ClientRecord
<1>6. UpsertedRecord(msg) = Reported(full, msg)
  BY DEF UpsertedRecord
<1> HIDE DEF full
<1> QED BY <1>4, <1>5, <1>6 DEF Reported, ClientRecord

LEMMA KeyedStep == TypeInv /\ KeyedByOwnId /\ [Next]_vars => KeyedByOwnId'
<1> SUFFICES ASSUME TypeInv, Keyed(clients), Keyed(pending_approvals), [Next]_vars
             PROVE  Keyed(clients') /\ Keyed(pending_approvals')
  BY DEF KeyedByOwnId, Keyed
<1>0. \A id \in DOMAIN clients : clients[id] \in ClientRecord /\ id \in Ids
  BY DEF TypeInv, TypeOK, Maps
<1>1. ASSUME NEW msg \in AgentToServer, UpsertFromAgentMsg(msg)
      PROVE  Keyed(clients') /\ Keyed(pending_approvals')
  BY <1>1, UpsertedCarriesId, KeyedStored, KeyedWithout
     DEF UpsertFromAgentMsg, UpsertedClients
<1>2. ASSUME NEW msg \in AgentToServer, AddPendingApproval(msg)
      PROVE  Keyed(clients') /\ Keyed(pending_approvals')
  <2>1. msg.uid \in Ids
    BY DEF AgentToServer
  <2>2. NewRecord(msg.uid) \in ClientRecord /\ NewRecord(msg.uid).client_id = msg.uid
    BY <2>1, NewRecordTyped DEF TypeInv, NewRecord
  <2>3. Reported(NewRecord(msg.uid), msg).client_id = msg.uid
    BY <2>2 DEF Reported, ClientRecord
  <2> QED BY <1>2, <2>3, KeyedStored DEF AddPendingApproval
<1>3. ASSUME NEW id \in Ids, NEW action \in CommandAction, QueueCommand(id, action)
      PROVE  Keyed(clients') /\ Keyed(pending_approvals')
  <2>1. RecordOrNew(id) \in ClientRecord /\ RecordOrNew(id).client_id = id
    BY RecordOrNewTyped DEF TypeInv, RecordOrNew, NewRecord, Keyed
  <2>2. WithCommand(RecordOrNew(id), NextObject).client_id = id
    BY <2>1 DEF WithCommand, ClientRecord
  <2> QED BY <1>3, <2>2, KeyedStored DEF QueueCommand
<1>4. ASSUME NEW id \in Ids,
             PopAgentIdentification(id) \/ \E uid \in ServerUids : SetAgentIdentification(id, uid)
      PROVE  Keyed(clients') /\ Keyed(pending_approvals')
  <2>1. PICK value : clients' = [clients EXCEPT ![id].pending_agent_identification = value]
    BY <1>4 DEF PopAgentIdentification, SetAgentIdentification
  <2>2. \A i \in DOMAIN clients : clients'[i].client_id = clients[i].client_id
    BY <1>0, <2>1 DEF ClientRecord
  <2> QED BY <1>4, <2>1, <2>2 DEF Keyed, PopAgentIdentification, SetAgentIdentification
<1>5. ASSUME NEW id \in Ids, RemoveClient(id) \/ ApprovePendingApproval(id) \/ BlockAgent(id)
      PROVE  Keyed(clients') /\ Keyed(pending_approvals')
  <2>1. Keyed(pending_approvals')
    BY <1>5, KeyedWithout DEF RemoveClient, ApprovePendingApproval, BlockAgent
  <2>2. CASE ApprovePendingApproval(id)
    BY <2>1, <2>2, KeyedStored DEF ApprovePendingApproval, Keyed
  <2> QED BY <1>5, <2>1, <2>2, KeyedWithout DEF RemoveClient, BlockAgent
<1>6. ASSUME NEW expired, PurgeDisconnected(expired)
      PROVE  Keyed(clients') /\ Keyed(pending_approvals')
  BY <1>6, KeyedWithout DEF PurgeDisconnected
<1>7. CASE RecordsAlike
  <2>1. ASSUME NEW id \in DOMAIN clients' PROVE clients'[id].client_id = id
    BY <1>7, <2>1 DEF RecordsAlike, Alike, NewRecord, Keyed
  <2> QED BY <1>7, <2>1 DEF RecordsAlike, Keyed
<1>8. ASSUME NEW id, NextPendingCommand(id) \/ \E obj : MarkCommandSent(id, obj)
      PROVE  Keyed(clients') /\ Keyed(pending_approvals')
  BY <1>8 DEF NextPendingCommand, MarkCommandSent
<1> QED BY <1>1, <1>2, <1>3, <1>4, <1>5, <1>6, <1>7, <1>8, StepKinds

\* A record is always found under the id it carries, whichever message claims
\* it, and whoever approves, removes or reissues it meanwhile.
THEOREM KeyedByOwnIdAlways == Spec => []KeyedByOwnId
<1>1. Init => KeyedByOwnId
  BY DEF Init, KeyedByOwnId
<1> QED BY <1>1, TypeInvHolds, KeyedStep, PTL DEF Spec

-----------------------------------------------------------------------------
(* No unsent command is lost *)

SurvivesStep ==
    \A obj \in Owned \ Owned' :
        \/ command_objects[obj].sent
        \/ DOMAIN clients' \subseteq DOMAIN clients /\ DOMAIN clients' # DOMAIN clients
        \/ DOMAIN pending_approvals' # DOMAIN pending_approvals

\* A step that leaves each queue, perhaps under another id, as part of a queue.
LEMMA OwnedKept ==
  ASSUME \A id \in DOMAIN clients : \E new \in DOMAIN clients' :
            \A i \in DOMAIN clients[id].commands :
                /\ i \in DOMAIN clients'[new].commands
                /\ clients'[new].commands[i] = clients[id].commands[i],
         DOMAIN command_objects \subseteq DOMAIN command_objects'
  PROVE  Owned \subseteq Owned'
BY DEF Owned

LEMMA WithCommandKeeps ==
  ASSUME TypeInv, NEW rec \in ClientRecord
  PROVE  /\ WithCommand(rec, NextObject) \in ClientRecord
         /\ WithCommand(rec, NextObject).message_id = rec.message_id
         /\ WithCommand(rec, NextObject).pending_agent_identification
               = rec.pending_agent_identification
         /\ \A i \in DOMAIN rec.commands :
               /\ i \in DOMAIN WithCommand(rec, NextObject).commands
               /\ WithCommand(rec, NextObject).commands[i] = rec.commands[i]
         /\ \E i \in DOMAIN WithCommand(rec, NextObject).commands :
               WithCommand(rec, NextObject).commands[i] = NextObject
<1>1. NextObject \in Nat \ {0}
  BY AppendedObject DEF TypeInv, CommandAction
<1>2. rec.commands \in Seq(Nat \ {0})
  BY DEF ClientRecord
<1>3. /\ Append(rec.commands, NextObject) \in Seq(Nat \ {0})
      /\ Append(rec.commands, NextObject)[Len(rec.commands) + 1] = NextObject
      /\ Len(rec.commands) + 1 \in DOMAIN Append(rec.commands, NextObject)
      /\ \A i \in DOMAIN rec.commands :
            /\ i \in DOMAIN Append(rec.commands, NextObject)
            /\ Append(rec.commands, NextObject)[i] = rec.commands[i]
  BY <1>1, <1>2
<1> QED BY <1>3 DEF WithCommand, ClientRecord

\* What a message makes of the record it continues.
LEMMA UpsertedKeeps ==
  ASSUME TypeInv, NEW msg \in AgentToServer
  PROVE  LET rec == RecordFor(msg.uid)
             new == UpsertedRecord(msg)
         IN  /\ rec \in ClientRecord
             /\ new.message_id = msg.sequence_num
             /\ new.pending_agent_identification = rec.pending_agent_identification
             /\ \A i \in DOMAIN rec.commands :
                   i \in DOMAIN new.commands /\ new.commands[i] = rec.commands[i]
             /\ QueuesResync(rec, msg.sequence_num) =>
                   \E i \in DOMAIN new.commands : new.commands[i] = NextObject
             /\ ~QueuesResync(rec, msg.sequence_num) => new.commands = rec.commands
<1> DEFINE rec == RecordFor(msg.uid)
           queues == QueuesResync(rec, msg.sequence_num)
           full == IF queues THEN WithCommand(rec, NextObject) ELSE rec
<1>1. rec \in ClientRecord
  BY RecordForGood DEF AgentToServer, TypeInv, GoodRecord
<1>2. /\ full \in ClientRecord
      /\ full.pending_agent_identification = rec.pending_agent_identification
      /\ \A i \in DOMAIN rec.commands :
            i \in DOMAIN full.commands /\ full.commands[i] = rec.commands[i]
      /\ queues => \E i \in DOMAIN full.commands : full.commands[i] = NextObject
      /\ ~queues => full.commands = rec.commands
  BY <1>1, WithCommandKeeps
<1>3. UpsertedRecord(msg) = Reported(full, msg)
  BY DEF UpsertedRecord
<1> HIDE DEF full, queues
<1>4. /\ Reported(full, msg).message_id = msg.sequence_num
      /\ Reported(full, msg).commands = full.commands
      /\ Reported(full, msg).pending_agent_identification = full.pending_agent_identification
  BY <1>2 DEF Reported, ClientRecord
<1> QED BY <1>1, <1>2, <1>3, <1>4 DEF queues

\* A message's record is the one of its id, or of the id its UID replaces, or new.
LEMMA RecordForOrigin ==
  ASSUME TypeInv, NEW id \in Ids
  PROVE  \/ /\ Rekeys(id)
            /\ RecordFor(id).commands = clients[replacements[id]].commands
            /\ RecordFor(id).message_id = clients[replacements[id]].message_id
            /\ RecordFor(id).pending_agent_identification = NoUid
         \/ ~Rekeys(id) /\ id \in DOMAIN clients /\ RecordFor(id) = clients[id]
         \/ ~Rekeys(id) /\ id \notin DOMAIN clients /\ RecordFor(id) = NewRecord(id)
<1>1. CASE Rekeys(id)
  <2>1. clients[replacements[id]] \in ClientRecord
    BY <1>1 DEF Rekeys, TypeInv, TypeOK, Maps
  <2> QED BY <1>1, <2>1 DEF RecordFor, ClientRecord
<1>2. CASE ~Rekeys(id)
  BY <1>2 DEF RecordFor, RecordOrNew
<1> QED BY <1>1, <1>2

\* The clients after a message: one is new or updated, the one it replaces is gone.
LEMMA UpsertedOthers ==
  ASSUME NEW msg, UpsertFromAgentMsg(msg)
  PROVE  /\ DOMAIN clients' = {msg.uid} \cup
               (IF Rekeys(msg.uid) THEN DOMAIN clients \ {replacements[msg.uid]}
                ELSE DOMAIN clients)
         /\ clients'[msg.uid] = UpsertedRecord(msg)
         /\ \A id \in DOMAIN clients' \ {msg.uid} : clients'[id] = clients[id]
<1> DEFINE map == IF Rekeys(msg.uid) THEN Without(clients, {replacements[msg.uid]})
                  ELSE clients
<1>1. clients' = Stored(map, msg.uid, UpsertedRecord(msg))
  BY DEF UpsertFromAgentMsg, UpsertedClients
<1>2. /\ DOMAIN map = IF Rekeys(msg.uid) THEN DOMAIN clients \ {replacements[msg.uid]}
                      ELSE DOMAIN clients
      /\ \A id \in DOMAIN map : map[id] = clients[id]
  BY DEF Without, Restrict
<1> HIDE DEF map
<1>3. /\ DOMAIN clients' = DOMAIN map \cup {msg.uid}
      /\ clients'[msg.uid] = UpsertedRecord(msg)
      /\ \A id \in DOMAIN map \ {msg.uid} : clients'[id] = map[id]
  BY <1>1 DEF Stored
<1> QED BY <1>2, <1>3

LEMMA SurvivesEachStep == TypeInv /\ [Next]_vars => SurvivesStep
<1> SUFFICES ASSUME TypeInv, [Next]_vars PROVE SurvivesStep
  OBVIOUS
<1>0. \A id \in DOMAIN clients : clients[id] \in ClientRecord /\ id \in Ids
  BY DEF TypeInv, TypeOK, Maps
<1>1. ASSUME NEW msg \in AgentToServer, UpsertFromAgentMsg(msg) PROVE Owned \subseteq Owned'
  <2> DEFINE rec == RecordFor(msg.uid)
             old == IF Rekeys(msg.uid) THEN replacements[msg.uid] ELSE msg.uid
  <2>1. DOMAIN command_objects \subseteq DOMAIN command_objects'
    BY <1>1, AppendedObject DEF TypeInv, UpsertFromAgentMsg, UpsertedObjects, CommandAction
  <2>2. msg.uid \in Ids
    BY DEF AgentToServer
  <2>3. old \in DOMAIN clients => rec.commands = clients[old].commands
    BY <2>2, RecordForOrigin DEF Rekeys
  <2>4. /\ msg.uid \in DOMAIN clients'
        /\ \A i \in DOMAIN rec.commands :
              /\ i \in DOMAIN clients'[msg.uid].commands
              /\ clients'[msg.uid].commands[i] = rec.commands[i]
    BY <1>1, UpsertedOthers, UpsertedKeeps
  <2>5. \A id \in DOMAIN clients \ {old} : id \in DOMAIN clients' /\ clients'[id] = clients[id]
    BY <1>1, UpsertedOthers DEF Rekeys
  <2>6. ASSUME NEW id \in DOMAIN clients
        PROVE  \E new \in DOMAIN clients' : \A i \in DOMAIN clients[id].commands :
                  /\ i \in DOMAIN clients'[new].commands
                  /\ clients'[new].commands[i] = clients[id].commands[i]
    <3>1. CASE id = old
      BY <2>3, <2>4, <3>1
    <3>2. CASE id # old
      BY <2>5, <3>2
    <3> QED BY <3>1, <3>2
  <2> QED BY <2>1, <2>6, OwnedKept
<1>2. ASSUME NEW id \in Ids, NEW action \in CommandAction, QueueCommand(id, action)
      PROVE  Owned \subseteq Owned'
  <2>1. DOMAIN command_objects \subseteq DOMAIN command_objects'
    BY <1>2, AppendedObject DEF TypeInv, QueueCommand
  <2>2. RecordOrNew(id) \in ClientRecord
    BY RecordOrNewTyped DEF TypeInv
  <2>3. /\ DOMAIN clients' = DOMAIN clients \cup {id}
        /\ clients'[id] = WithCommand(RecordOrNew(id), NextObject)
        /\ \A i \in DOMAIN clients \ {id} : clients'[i] = clients[i]
    BY <1>2 DEF QueueCommand, Stored
  <2>4. \A k \in DOMAIN clients : \A i \in DOMAIN clients[k].commands :
           /\ i \in DOMAIN clients'[k].commands
           /\ clients'[k].commands[i] = clients[k].commands[i]
    BY <2>2, <2>3, WithCommandKeeps DEF RecordOrNew
  <2> QED BY <2>1, <2>3, <2>4, OwnedKept
<1>3. ASSUME DOMAIN clients' = DOMAIN clients,
             \A id \in DOMAIN clients : clients'[id].commands = clients[id].commands,
             DOMAIN command_objects' = DOMAIN command_objects
      PROVE  Owned \subseteq Owned'
  BY <1>3, OwnedKept
<1>4. ASSUME NEW id \in Ids,
             PopAgentIdentification(id) \/ \E uid \in ServerUids : SetAgentIdentification(id, uid)
      PROVE  Owned \subseteq Owned'
  <2>1. PICK value : clients' = [clients EXCEPT ![id].pending_agent_identification = value]
    BY <1>4 DEF PopAgentIdentification, SetAgentIdentification
  <2>2. \A i \in DOMAIN clients : clients'[i].commands = clients[i].commands
    BY <1>0, <2>1 DEF ClientRecord
  <2> QED BY <1>3, <1>4, <2>1, <2>2 DEF PopAgentIdentification, SetAgentIdentification
<1>5. ASSUME NEW id, NEW obj, MarkCommandSent(id, obj) PROVE Owned \subseteq Owned'
  BY <1>3, <1>5 DEF MarkCommandSent, MarkedSent
<1>6. ASSUME UNCHANGED <<clients, command_objects>> PROVE Owned \subseteq Owned'
  BY <1>6 DEF Owned
<1>7. ASSUME NEW id \in Ids, RemoveClient(id) PROVE SurvivesStep
  <2>1. DOMAIN clients' = DOMAIN clients \ {id}
    BY <1>7 DEF RemoveClient, Without, Restrict
  <2>2. CASE id \in DOMAIN clients
    BY <2>1, <2>2 DEF SurvivesStep
  <2>3. CASE id \notin DOMAIN clients
    <3>1. /\ DOMAIN clients' = DOMAIN clients
          /\ \A i \in DOMAIN clients : clients'[i].commands = clients[i].commands
      BY <1>7, <2>1, <2>3 DEF RemoveClient, Without, Restrict
    <3> QED BY <1>3, <1>7, <3>1 DEF RemoveClient, SurvivesStep
  <2> QED BY <2>2, <2>3
<1>8. ASSUME NEW id \in Ids, ApprovePendingApproval(id) PROVE SurvivesStep
  BY <1>8 DEF ApprovePendingApproval, Without, Restrict, SurvivesStep
<1>9. ASSUME NEW expired \in (SUBSET DOMAIN clients) \ {{}}, PurgeDisconnected(expired)
      PROVE  SurvivesStep
  <2>1. DOMAIN clients' = DOMAIN clients \ expired
    BY <1>9 DEF PurgeDisconnected, Without, Restrict
  <2> QED BY <2>1 DEF SurvivesStep
<1>10. CASE RecordsAlike
  BY <1>10, OwnedKept DEF RecordsAlike, Alike, SurvivesStep
<1>11. ASSUME NEW id, NextPendingCommand(id) \/ BlockAgent(id) PROVE SurvivesStep
  BY <1>6, <1>11 DEF NextPendingCommand, BlockAgent, SurvivesStep
<1>12. ASSUME NEW msg, AddPendingApproval(msg) PROVE SurvivesStep
  BY <1>6, <1>12 DEF AddPendingApproval, SurvivesStep
<1> QED BY <1>1, <1>2, <1>4, <1>5, <1>7, <1>8, <1>9, <1>10, <1>11, <1>12, StepKinds
        DEF SurvivesStep

\* No unsent command leaves the store except with a client that is removed or
\* purged, or when an approval replaces the record.
THEOREM UnsentCommandsSurviveAlways == Spec => UnsentCommandsSurvive
<1>1. TypeInv /\ [Next]_vars => [SurvivesStep]_vars
  BY SurvivesEachStep
<1>2. Spec => [][SurvivesStep]_vars
  BY <1>1, TypeInvHolds, PTL DEF Spec
<1>3. [SurvivesStep]_vars <=> [\A obj \in Owned \ Owned' :
           \/ command_objects[obj].sent
           \/ DOMAIN clients' \subseteq DOMAIN clients /\ DOMAIN clients' # DOMAIN clients
           \/ DOMAIN pending_approvals' # DOMAIN pending_approvals]_vars
  BY DEF SurvivesStep
<1> QED BY <1>2, <1>3, PTL DEF UnsentCommandsSurvive

-----------------------------------------------------------------------------
(* Every agent that reports is asked for its full state *)

\* The client whose record `id` has after a message it may have claimed.
Predecessor(old, id) ==
    old = id \/ (id \in DOMAIN replacements /\ replacements[id] = old)

NeverAskedStep ==
    \A id \in DOMAIN clients' :
        NeverAsked(clients'[id], command_objects') =>
            \/ \E old \in DOMAIN clients :
                  Predecessor(old, id) /\ NeverAsked(clients[old], command_objects)
            \/ id \in DOMAIN pending_approvals \ DOMAIN pending_approvals'

\* Command objects keep what they ask for.
LEMMA ActionsKept ==
  ASSUME TypeInv,
         \/ \E action \in CommandAction :
               command_objects' = Append(command_objects, Fresh(action))
         \/ \E obj \in dispatching : command_objects' = MarkedSent(command_objects, obj)
         \/ command_objects' = command_objects
  PROVE  \A obj \in DOMAIN command_objects :
            command_objects'[obj].action = command_objects[obj].action
<1>1. ASSUME NEW action \in CommandAction,
             command_objects' = Append(command_objects, Fresh(action))
      PROVE  \A obj \in DOMAIN command_objects :
                command_objects'[obj].action = command_objects[obj].action
  BY <1>1, AppendedObject DEF TypeInv
<1>2. ASSUME NEW obj \in dispatching, command_objects' = MarkedSent(command_objects, obj)
      PROVE  \A o \in DOMAIN command_objects :
                command_objects'[o].action = command_objects[o].action
  BY <1>2 DEF MarkedSent, TypeInv, TypeOK, CommandObject
<1> QED BY <1>1, <1>2

\* A record that keeps its number and its commands was asked if it was before.
LEMMA AskedBefore ==
  ASSUME TypeInv,
         \A obj \in DOMAIN command_objects :
            command_objects'[obj].action = command_objects[obj].action,
         NEW old \in DOMAIN clients, NEW new,
         new.message_id = clients[old].message_id,
         \A i \in DOMAIN clients[old].commands :
            i \in DOMAIN new.commands /\ new.commands[i] = clients[old].commands[i],
         NeverAsked(new, command_objects')
  PROVE  NeverAsked(clients[old], command_objects)
BY DEF NeverAsked, TypeInv, TypeOK

LEMMA UpsertAsks ==
  ASSUME TypeInv, NEW msg \in AgentToServer, UpsertFromAgentMsg(msg),
         NEW id \in DOMAIN clients', NeverAsked(clients'[id], command_objects')
  PROVE  \E old \in DOMAIN clients :
            Predecessor(old, id) /\ NeverAsked(clients[old], command_objects)
<1> DEFINE rec == RecordFor(msg.uid)
           queues == QueuesResync(rec, msg.sequence_num)
<1>0. msg.uid \in Ids
  BY DEF AgentToServer
<1>1. /\ command_objects' =
            IF queues THEN Append(command_objects, Fresh(ForceResync)) ELSE command_objects
      /\ ForceResync \in CommandAction
  BY DEF UpsertFromAgentMsg, UpsertedObjects, CommandAction
<1>2. \A obj \in DOMAIN command_objects :
         command_objects'[obj].action = command_objects[obj].action
  BY <1>1, ActionsKept
<1>3. CASE id # msg.uid
  <2>1. id \in DOMAIN clients /\ clients'[id] = clients[id]
    BY <1>3, UpsertedOthers
  <2>2. NeverAsked(clients[id], command_objects)
    BY <1>2, <2>1, AskedBefore
  <2> QED BY <2>1, <2>2 DEF Predecessor
<1>4. CASE id = msg.uid
  <2>1. clients'[id] = UpsertedRecord(msg)
    BY <1>4, UpsertedOthers
  <2>2. ~queues
    <3> SUFFICES ASSUME queues PROVE FALSE
      OBVIOUS
    <3>1. PICK i \in DOMAIN clients'[id].commands : clients'[id].commands[i] = NextObject
      BY <2>1, UpsertedKeeps
    <3>2. command_objects'[NextObject] = Fresh(ForceResync)
      BY <1>1, AppendedObject DEF TypeInv
    <3> QED BY <3>1, <3>2 DEF NeverAsked, Fresh
  <2>3. clients'[id].commands = rec.commands /\ command_objects' = command_objects
    BY <1>1, <2>1, <2>2, UpsertedKeeps
  <2>4. ~HasUnsentResync(rec, command_objects)
    BY <2>3 DEF NeverAsked, HasUnsentResync, UnsentPositions
  <2>5. ~SequenceGap(rec, msg.sequence_num)
    BY <2>2, <2>4 DEF QueuesResync
  <2>6. NeverAsked(rec, command_objects)
    BY <2>3, <2>5 DEF NeverAsked, SequenceGap
  <2>7. PICK old \in DOMAIN clients :
           /\ Predecessor(old, id)
           /\ rec.commands = clients[old].commands
           /\ rec.message_id = clients[old].message_id
    BY <1>0, <1>4, <2>5, RecordForOrigin DEF Rekeys, Predecessor, SequenceGap, NewRecord
  <2>8. NeverAsked(clients[old], command_objects)
    BY <2>6, <2>7 DEF NeverAsked
  <2> QED BY <2>7, <2>8
<1> QED BY <1>3, <1>4

LEMMA NeverAskedEachStep == TypeInv /\ [Next]_vars => NeverAskedStep
<1> SUFFICES ASSUME TypeInv, [Next]_vars,
                    NEW id \in DOMAIN clients', NeverAsked(clients'[id], command_objects')
             PROVE  \/ \E old \in DOMAIN clients :
                          /\ Predecessor(old, id)
                          /\ NeverAsked(clients[old], command_objects)
                    \/ id \in DOMAIN pending_approvals \ DOMAIN pending_approvals'
  BY DEF NeverAskedStep
<1> DEFINE Goal == \/ \E old \in DOMAIN clients :
                         /\ Predecessor(old, id)
                         /\ NeverAsked(clients[old], command_objects)
                   \/ id \in DOMAIN pending_approvals \ DOMAIN pending_approvals'
<1>0. \A i \in DOMAIN clients : clients[i] \in ClientRecord /\ i \in Ids
  BY DEF TypeInv, TypeOK, Maps
<1>1. ASSUME id \in DOMAIN clients,
             \A obj \in DOMAIN command_objects :
                command_objects'[obj].action = command_objects[obj].action,
             clients'[id].message_id = clients[id].message_id,
             \A i \in DOMAIN clients[id].commands :
                /\ i \in DOMAIN clients'[id].commands
                /\ clients'[id].commands[i] = clients[id].commands[i]
      PROVE  Goal
  BY <1>1, AskedBefore DEF Predecessor
<1>2. ASSUME NEW msg \in AgentToServer, UpsertFromAgentMsg(msg) PROVE Goal
  BY <1>2, UpsertAsks
<1>3. ASSUME NEW k \in Ids, NEW action \in CommandAction, QueueCommand(k, action) PROVE Goal
  <2>1. \A obj \in DOMAIN command_objects :
           command_objects'[obj].action = command_objects[obj].action
    BY <1>3, ActionsKept DEF QueueCommand
  <2>2. RecordOrNew(k) \in ClientRecord
    BY RecordOrNewTyped DEF TypeInv
  <2>3. /\ DOMAIN clients' = DOMAIN clients \cup {k}
        /\ clients'[k] = WithCommand(RecordOrNew(k), NextObject)
        /\ \A i \in DOMAIN clients \ {k} : clients'[i] = clients[i]
    BY <1>3 DEF QueueCommand, Stored
  <2>4. CASE id = k /\ id \notin DOMAIN clients
    BY <2>2, <2>3, <2>4, WithCommandKeeps DEF NeverAsked, RecordOrNew, NewRecord
  <2>5. CASE id = k /\ id \in DOMAIN clients
    <3>1. RecordOrNew(k) = clients[id]
      BY <2>5 DEF RecordOrNew
    <3> QED BY <1>1, <2>1, <2>2, <2>3, <2>5, <3>1, WithCommandKeeps
  <2>6. CASE id # k
    BY <1>1, <2>1, <2>3, <2>6
  <2> QED BY <2>4, <2>5, <2>6
<1>4. ASSUME NEW k \in Ids,
             PopAgentIdentification(k) \/ \E uid \in ServerUids : SetAgentIdentification(k, uid)
      PROVE  Goal
  <2>1. PICK value : clients' = [clients EXCEPT ![k].pending_agent_identification = value]
    BY <1>4 DEF PopAgentIdentification, SetAgentIdentification
  <2>2. /\ DOMAIN clients' = DOMAIN clients
        /\ \A i \in DOMAIN clients : /\ clients'[i].commands = clients[i].commands
                                     /\ clients'[i].message_id = clients[i].message_id
    BY <1>0, <2>1 DEF ClientRecord
  <2>3. command_objects' = command_objects
    BY <1>4 DEF PopAgentIdentification, SetAgentIdentification
  <2> QED BY <1>1, <2>2, <2>3
<1>5. ASSUME NEW k, NEW obj \in dispatching, MarkCommandSent(k, obj) PROVE Goal
  <2>1. \A o \in DOMAIN command_objects :
           command_objects'[o].action = command_objects[o].action
    BY <1>5, ActionsKept DEF MarkCommandSent
  <2> QED BY <1>1, <1>5, <2>1 DEF MarkCommandSent
<1>6. ASSUME command_objects' = command_objects,
             id \in DOMAIN clients, clients'[id] = clients[id]
      PROVE  Goal
  BY <1>1, <1>6
<1>7. ASSUME NEW k \in Ids, RemoveClient(k) PROVE Goal
  <2>1. id \in DOMAIN clients /\ clients'[id] = clients[id]
    BY <1>7 DEF RemoveClient, Without, Restrict
  <2> QED BY <1>6, <1>7, <2>1 DEF RemoveClient
<1>8. ASSUME NEW k \in Ids, ApprovePendingApproval(k) PROVE Goal
  <2>1. CASE id = k
    BY <1>8, <2>1 DEF ApprovePendingApproval, Without, Restrict
  <2>2. CASE id # k
    <3>1. id \in DOMAIN clients /\ clients'[id] = clients[id]
      BY <1>8, <2>2 DEF ApprovePendingApproval, Stored
    <3> QED BY <1>6, <1>8, <3>1 DEF ApprovePendingApproval
  <2> QED BY <2>1, <2>2
<1>9. ASSUME NEW expired, PurgeDisconnected(expired) PROVE Goal
  <2>1. id \in DOMAIN clients /\ clients'[id] = clients[id]
    BY <1>9 DEF PurgeDisconnected, Without, Restrict
  <2> QED BY <1>6, <1>9, <2>1 DEF PurgeDisconnected
<1>10. CASE RecordsAlike
  <2>1. CASE id \in DOMAIN clients
    BY <1>1, <1>10, <2>1 DEF RecordsAlike, Alike
  <2>2. CASE id \notin DOMAIN clients
    BY <1>10, <2>2 DEF RecordsAlike, Alike, NewRecord, NeverAsked
  <2> QED BY <2>1, <2>2
<1>11. ASSUME NEW k, NextPendingCommand(k) \/ BlockAgent(k) PROVE Goal
  BY <1>6, <1>11 DEF NextPendingCommand, BlockAgent
<1>12. ASSUME NEW msg, AddPendingApproval(msg) PROVE Goal
  BY <1>6, <1>12 DEF AddPendingApproval
<1> QED BY <1>2, <1>3, <1>4, <1>5, <1>7, <1>8, <1>9, <1>10, <1>11, <1>12, StepKinds

\* An agent that the provider has never asked for its full state is one that the
\* approval workflow has just let in, or carries on such a record.
THEOREM OnlyApprovalSkipsResyncAlways == Spec => OnlyApprovalSkipsResync
<1>1. TypeInv /\ [Next]_vars => [NeverAskedStep]_vars
  BY NeverAskedEachStep
<1>2. Spec => [][NeverAskedStep]_vars
  BY <1>1, TypeInvHolds, PTL DEF Spec
<1>3. [NeverAskedStep]_vars <=> [\A id \in DOMAIN clients' :
           NeverAsked(clients'[id], command_objects') =>
               \/ \E old \in DOMAIN clients :
                     /\ old = id \/ (id \in DOMAIN replacements /\ replacements[id] = old)
                     /\ NeverAsked(clients[old], command_objects)
               \/ id \in DOMAIN pending_approvals \ DOMAIN pending_approvals']_vars
  BY DEF NeverAskedStep, Predecessor
<1> QED BY <1>2, <1>3, PTL DEF OnlyApprovalSkipsResync

-----------------------------------------------------------------------------
(* A replacement UID that waits to be sent leads back to its client *)

\* No two clients wait for the same replacement UID: without this, issuing a new
\* one to the first would untie the second.
IdentificationsDiffer ==
    \A j, k \in DOMAIN clients :
        /\ clients[j].pending_agent_identification = clients[k].pending_agent_identification
        /\ clients[j].pending_agent_identification # NoUid
        => j = k

TrackedStep ==
    \A id \in DOMAIN clients :
       /\ Tracked(id)
       /\ id \in DOMAIN clients'
       /\ ~RemoveClient(clients[id].pending_agent_identification)
       => Tracked(id)'

\* What every step may do to the identifications that are waiting.
LEMMA IdentificationAfter ==
  ASSUME TypeInv, [Next]_vars
  PROVE  \/ \E k \in Ids : \E uid \in ServerUids : SetAgentIdentification(k, uid)
         \/ \A id \in DOMAIN clients' :
               \/ clients'[id].pending_agent_identification = NoUid
               \/ /\ id \in DOMAIN clients
                  /\ clients'[id].pending_agent_identification
                        = clients[id].pending_agent_identification
<1> DEFINE Goal == \A id \in DOMAIN clients' :
               \/ clients'[id].pending_agent_identification = NoUid
               \/ /\ id \in DOMAIN clients
                  /\ clients'[id].pending_agent_identification
                        = clients[id].pending_agent_identification
<1>0. \A i \in DOMAIN clients : clients[i] \in ClientRecord
  BY DEF TypeInv, TypeOK, Maps
<1>1. ASSUME NEW msg \in AgentToServer, UpsertFromAgentMsg(msg) PROVE Goal
  <2>1. msg.uid \in Ids
    BY DEF AgentToServer
  <2>2. clients'[msg.uid].pending_agent_identification
           = RecordFor(msg.uid).pending_agent_identification
    BY <1>1, UpsertedOthers, UpsertedKeeps
  <2>3. \/ RecordFor(msg.uid).pending_agent_identification = NoUid
        \/ msg.uid \in DOMAIN clients /\ RecordFor(msg.uid) = clients[msg.uid]
    BY <2>1, RecordForOrigin DEF NewRecord
  <2>4. \A id \in DOMAIN clients' \ {msg.uid} :
           id \in DOMAIN clients /\ clients'[id] = clients[id]
    BY <1>1, UpsertedOthers
  <2> QED BY <2>2, <2>3, <2>4
<1>2. ASSUME NEW k \in Ids, NEW action \in CommandAction, QueueCommand(k, action) PROVE Goal
  <2>1. RecordOrNew(k) \in ClientRecord
    BY RecordOrNewTyped DEF TypeInv
  <2>2. /\ DOMAIN clients' = DOMAIN clients \cup {k}
        /\ clients'[k] = WithCommand(RecordOrNew(k), NextObject)
        /\ \A i \in DOMAIN clients \ {k} : clients'[i] = clients[i]
    BY <1>2 DEF QueueCommand, Stored
  <2>3. clients'[k].pending_agent_identification
           = RecordOrNew(k).pending_agent_identification
    BY <2>1, <2>2, WithCommandKeeps
  <2> QED BY <2>2, <2>3 DEF RecordOrNew, NewRecord
<1>3. ASSUME NEW k \in Ids, PopAgentIdentification(k) PROVE Goal
  <2>1. /\ DOMAIN clients' = DOMAIN clients
        /\ clients'[k].pending_agent_identification = NoUid
        /\ \A i \in DOMAIN clients \ {k} : clients'[i] = clients[i]
    BY <1>0, <1>3 DEF PopAgentIdentification, ClientRecord
  <2> QED BY <2>1
<1>4. ASSUME NEW k \in Ids, RemoveClient(k) PROVE Goal
  BY <1>4 DEF RemoveClient, Without, Restrict
<1>5. ASSUME NEW k \in Ids, ApprovePendingApproval(k) PROVE Goal
  BY <1>5 DEF ApprovePendingApproval, Stored, TypeInv, PendingHoldsNoWork
<1>6. ASSUME NEW expired, PurgeDisconnected(expired) PROVE Goal
  BY <1>6 DEF PurgeDisconnected, Without, Restrict
<1>7. CASE RecordsAlike
  BY <1>7 DEF RecordsAlike, Alike, NewRecord
<1>8. ASSUME clients' = clients PROVE Goal
  BY <1>8
<1>9. ASSUME NEW k, \/ NextPendingCommand(k) \/ BlockAgent(k)
                    \/ \E obj : MarkCommandSent(k, obj)
                    \/ \E msg : AddPendingApproval(msg)
      PROVE  Goal
  BY <1>8, <1>9 DEF NextPendingCommand, BlockAgent, MarkCommandSent, AddPendingApproval
<1> QED BY <1>1, <1>2, <1>3, <1>4, <1>5, <1>6, <1>7, <1>9, StepKinds

\* What issuing a replacement UID does.
LEMMA IdentificationSet ==
  ASSUME TypeInv, NEW k \in Ids, NEW uid \in ServerUids, SetAgentIdentification(k, uid)
  PROVE  /\ k \in DOMAIN clients
         /\ DOMAIN clients' = DOMAIN clients
         /\ clients'[k].pending_agent_identification = uid
         /\ \A i \in DOMAIN clients \ {k} : clients'[i] = clients[i]
         /\ uid \in DOMAIN replacements' /\ replacements'[uid] = k
         /\ \A t \in DOMAIN replacements \ {clients[k].pending_agent_identification} :
               t \in DOMAIN replacements' /\ replacements'[t] = replacements[t]
         /\ \A i \in DOMAIN clients : clients[i].pending_agent_identification # uid
         /\ uid # NoUid
<1>1. k \in DOMAIN clients /\ clients[k] \in ClientRecord
  BY DEF SetAgentIdentification, TypeInv, TypeOK, Maps
<1>2. /\ DOMAIN clients' = DOMAIN clients
      /\ clients'[k].pending_agent_identification = uid
      /\ \A i \in DOMAIN clients \ {k} : clients'[i] = clients[i]
  BY <1>1 DEF SetAgentIdentification, ClientRecord
<1>3. uid # NoUid
  BY ConstantsAssumption DEF Ids
<1>4. \A i \in DOMAIN clients : clients[i].pending_agent_identification # uid
  BY <1>3 DEF SetAgentIdentification, TypeInv, TypeOK
<1>5. /\ uid \in DOMAIN replacements' /\ replacements'[uid] = k
      /\ \A t \in DOMAIN replacements \ {clients[k].pending_agent_identification} :
            t \in DOMAIN replacements' /\ replacements'[t] = replacements[t]
  BY DEF SetAgentIdentification, Stored, Without, Restrict
<1> QED BY <1>1, <1>2, <1>3, <1>4, <1>5

LEMMA IdentificationsDifferStep ==
  TypeInv /\ IdentificationsDiffer /\ [Next]_vars => IdentificationsDiffer'
<1> SUFFICES ASSUME TypeInv, IdentificationsDiffer, [Next]_vars
             PROVE  IdentificationsDiffer'
  OBVIOUS
<1>1. ASSUME NEW k \in Ids, NEW uid \in ServerUids, SetAgentIdentification(k, uid)
      PROVE  IdentificationsDiffer'
  BY <1>1, IdentificationSet DEF IdentificationsDiffer
<1> QED BY <1>1, IdentificationAfter DEF IdentificationsDiffer

LEMMA IdentificationsDifferHolds == Spec => []IdentificationsDiffer
<1>1. Init => IdentificationsDiffer
  BY DEF Init, IdentificationsDiffer
<1> QED BY <1>1, TypeInvHolds, IdentificationsDifferStep, PTL DEF Spec

\* Which entries of the replacements the other steps take away.
LEMMA ReplacementsAfter ==
  ASSUME TypeInv, [Next]_vars, NEW t \in DOMAIN replacements
  PROVE  \/ \E k \in Ids : \E uid \in ServerUids : SetAgentIdentification(k, uid)
         \/ \E k \in Ids : RemoveClient(k) /\ (t = k \/ replacements[t] = k)
         \/ \E msg \in AgentToServer :
               UpsertFromAgentMsg(msg) /\ t = msg.uid /\ msg.uid \notin DOMAIN clients
         \/ t \in DOMAIN replacements' /\ replacements'[t] = replacements[t]
<1> DEFINE Goal == \/ \E k \in Ids : RemoveClient(k) /\ (t = k \/ replacements[t] = k)
                   \/ \E msg \in AgentToServer :
                         /\ UpsertFromAgentMsg(msg)
                         /\ t = msg.uid
                         /\ msg.uid \notin DOMAIN clients
                   \/ t \in DOMAIN replacements' /\ replacements'[t] = replacements[t]
<1>1. ASSUME NEW msg \in AgentToServer, UpsertFromAgentMsg(msg) PROVE Goal
  BY <1>1 DEF UpsertFromAgentMsg, UpsertedReplacements, Without, Restrict
<1>2. ASSUME NEW k \in Ids, RemoveClient(k) PROVE Goal
  BY <1>2 DEF RemoveClient, Without, Restrict
<1>3. ASSUME replacements' = replacements PROVE Goal
  BY <1>3
<1>4. ASSUME NEW k, \/ NextPendingCommand(k) \/ BlockAgent(k) \/ ApprovePendingApproval(k)
                    \/ PopAgentIdentification(k)
                    \/ \E action : QueueCommand(k, action)
                    \/ \E obj : MarkCommandSent(k, obj)
                    \/ \E msg : AddPendingApproval(msg)
                    \/ \E expired : PurgeDisconnected(expired)
      PROVE  Goal
  BY <1>3, <1>4 DEF NextPendingCommand, BlockAgent, ApprovePendingApproval, QueueCommand,
                    PopAgentIdentification, MarkCommandSent, AddPendingApproval,
                    PurgeDisconnected
<1>5. CASE RecordsAlike
  BY <1>3, <1>5 DEF RecordsAlike
<1> QED BY <1>1, <1>2, <1>4, <1>5, StepKinds

LEMMA TrackedEachStep ==
  TypeInv /\ IdentificationsDiffer /\ [Next]_vars => TrackedStep
<1> SUFFICES ASSUME TypeInv, IdentificationsDiffer, [Next]_vars,
                    NEW id \in DOMAIN clients, Tracked(id), id \in DOMAIN clients',
                    ~RemoveClient(clients[id].pending_agent_identification),
                    clients'[id].pending_agent_identification # NoUid
             PROVE  LET uid == clients'[id].pending_agent_identification
                    IN  uid \in DOMAIN replacements' /\ replacements'[uid] = id
  BY DEF TrackedStep, Tracked
<1>1. ASSUME NEW k \in Ids, NEW uid \in ServerUids, SetAgentIdentification(k, uid)
      PROVE  LET u == clients'[id].pending_agent_identification
             IN  u \in DOMAIN replacements' /\ replacements'[u] = id
  BY <1>1, IdentificationSet DEF Tracked, IdentificationsDiffer
<1>2. ASSUME ~\E k \in Ids : \E uid \in ServerUids : SetAgentIdentification(k, uid)
      PROVE  LET u == clients'[id].pending_agent_identification
             IN  u \in DOMAIN replacements' /\ replacements'[u] = id
  <2> DEFINE uid == clients[id].pending_agent_identification
  <2>1. /\ clients'[id].pending_agent_identification = uid
        /\ uid \in DOMAIN replacements /\ replacements[uid] = id
    BY <1>2, IdentificationAfter DEF Tracked
  <2>2. ASSUME NEW k \in Ids, RemoveClient(k), uid = k \/ replacements[uid] = k
        PROVE  FALSE
    <3>1. id \notin DOMAIN clients' \/ id # k
      BY <2>2 DEF RemoveClient, Without, Restrict
    <3> QED BY <2>1, <2>2, <3>1
  <2>3. ASSUME NEW msg \in AgentToServer, UpsertFromAgentMsg(msg), uid = msg.uid,
               msg.uid \notin DOMAIN clients
        PROVE  FALSE
    <3>1. Rekeys(msg.uid) /\ replacements[msg.uid] = id
      BY <2>1, <2>3 DEF Rekeys
    <3>2. id # msg.uid
      BY <2>3
    <3> QED BY <2>3, <3>1, <3>2, UpsertedOthers
  <2> QED BY <1>2, <2>1, <2>2, <2>3, ReplacementsAfter
<1> QED BY <1>1, <1>2

\* A replacement UID waiting to be sent to an agent leads back to that agent's
\* record until an operator deletes the UID.
THEOREM IdentificationStaysTrackedAlways == Spec => IdentificationStaysTracked
<1>1. TypeInv /\ IdentificationsDiffer /\ [Next]_vars => [TrackedStep]_vars
  BY TrackedEachStep
<1>2. Spec => [][TrackedStep]_vars
  BY <1>1, IdentificationsDifferHolds, TypeInvHolds, PTL DEF Spec
<1>3. [TrackedStep]_vars <=> [\A id \in DOMAIN clients :
           /\ Tracked(id)
           /\ id \in DOMAIN clients'
           /\ ~RemoveClient(clients[id].pending_agent_identification)
           => Tracked(id)']_vars
  BY DEF TrackedStep
<1> QED BY <1>2, <1>3, PTL DEF IdentificationStaysTracked

-----------------------------------------------------------------------------
(* What a step does to the commands *)

\* Where the commands come from that are queued after a step of the store.
LEMMA OwnedAfter ==
  ASSUME TypeInv, [Next]_vars, NEW obj \in Owned'
  PROVE  \/ obj \in Owned
         \/ obj \notin DOMAIN command_objects /\ ~command_objects'[obj].sent
<1> DEFINE Queued(id) == \E i \in DOMAIN clients[id].commands : clients[id].commands[i] = obj
           Goal == \/ \E id \in DOMAIN clients : Queued(id)
                   \/ obj \notin DOMAIN command_objects /\ ~command_objects'[obj].sent
<1>0. \A i \in DOMAIN clients : clients[i] \in ClientRecord
  BY DEF TypeInv, TypeOK, Maps
<1>1. PICK id \in DOMAIN clients' :
         \E i \in DOMAIN clients'[id].commands : clients'[id].commands[i] = obj
  BY DEF Owned
<1>2. ASSUME NEW rec \in ClientRecord, NEW action \in CommandAction,
             \/ rec.commands = <<>>
             \/ \E k \in DOMAIN clients : rec.commands = clients[k].commands,
             command_objects' = Append(command_objects, Fresh(action)),
             clients'[id].commands = WithCommand(rec, NextObject).commands
      PROVE  Goal
  <2>1. PICK i \in DOMAIN clients'[id].commands : clients'[id].commands[i] = obj
    BY <1>1
  <2>2. \/ i \in DOMAIN rec.commands /\ rec.commands[i] = obj
        \/ obj = NextObject
    BY <1>2, <2>1, AppendedQueue
  <2>3. CASE i \in DOMAIN rec.commands /\ rec.commands[i] = obj
    BY <1>2, <2>3
  <2>4. CASE obj = NextObject
    BY <1>2, <2>4, AppendedObject DEF TypeInv, Fresh
  <2> QED BY <2>2, <2>3, <2>4
<1>3. ASSUME \/ clients'[id].commands = <<>>
             \/ \E k \in DOMAIN clients : clients'[id].commands = clients[k].commands
      PROVE  Goal
  BY <1>1, <1>3
<1>4. ASSUME NEW msg \in AgentToServer, UpsertFromAgentMsg(msg) PROVE Goal
  <2> DEFINE rec == RecordFor(msg.uid)
  <2>1. msg.uid \in Ids
    BY DEF AgentToServer
  <2>2. \/ rec.commands = <<>>
        \/ \E k \in DOMAIN clients : rec.commands = clients[k].commands
    BY <2>1, RecordForOrigin DEF Rekeys, NewRecord
  <2>3. rec \in ClientRecord
    BY UpsertedKeeps
  <2>4. CASE id # msg.uid
    BY <1>3, <1>4, <2>4, UpsertedOthers
  <2>5. CASE id = msg.uid /\ ~QueuesResync(rec, msg.sequence_num)
    <3>1. clients'[id].commands = rec.commands
      BY <1>4, <2>5, UpsertedOthers, UpsertedKeeps
    <3> QED BY <1>3, <2>2, <3>1
  <2>6. CASE id = msg.uid /\ QueuesResync(rec, msg.sequence_num)
    <3>1. WithCommand(rec, NextObject) \in ClientRecord
      BY <2>3, WithCommandKeeps
    <3>2. clients'[id] = Reported(WithCommand(rec, NextObject), msg)
      BY <1>4, <2>6, UpsertedOthers DEF UpsertedRecord
    <3>3. clients'[id].commands = WithCommand(rec, NextObject).commands
      BY <3>1, <3>2 DEF Reported, ClientRecord
    <3>4. /\ command_objects' = Append(command_objects, Fresh(ForceResync))
          /\ ForceResync \in CommandAction
      BY <1>4, <2>6 DEF UpsertFromAgentMsg, UpsertedObjects, CommandAction
    <3> QED BY <1>2, <2>2, <2>3, <3>3, <3>4
  <2> QED BY <2>4, <2>5, <2>6
<1>5. ASSUME NEW k \in Ids, NEW action \in CommandAction, QueueCommand(k, action) PROVE Goal
  <2>1. RecordOrNew(k) \in ClientRecord
    BY RecordOrNewTyped DEF TypeInv
  <2>2. /\ DOMAIN clients' = DOMAIN clients \cup {k}
        /\ clients'[k] = WithCommand(RecordOrNew(k), NextObject)
        /\ \A i \in DOMAIN clients \ {k} : clients'[i] = clients[i]
        /\ command_objects' = Append(command_objects, Fresh(action))
    BY <1>5 DEF QueueCommand, Stored
  <2>3. CASE id = k
    <3>1. \/ RecordOrNew(k).commands = <<>>
          \/ \E j \in DOMAIN clients : RecordOrNew(k).commands = clients[j].commands
      BY DEF RecordOrNew, NewRecord
    <3> QED BY <1>2, <2>1, <2>2, <2>3, <3>1
  <2>4. CASE id # k
    BY <1>3, <2>2, <2>4
  <2> QED BY <2>3, <2>4
<1>6. ASSUME NEW k \in Ids,
             PopAgentIdentification(k) \/ \E uid \in ServerUids : SetAgentIdentification(k, uid)
      PROVE  Goal
  <2>1. PICK value : clients' = [clients EXCEPT ![k].pending_agent_identification = value]
    BY <1>6 DEF PopAgentIdentification, SetAgentIdentification
  <2>2. id \in DOMAIN clients /\ clients'[id].commands = clients[id].commands
    BY <1>0, <2>1 DEF ClientRecord
  <2> QED BY <1>3, <2>2
<1>7. ASSUME NEW k \in Ids, RemoveClient(k) PROVE Goal
  <2>1. id \in DOMAIN clients /\ clients'[id] = clients[id]
    BY <1>7 DEF RemoveClient, Without, Restrict
  <2> QED BY <1>3, <2>1
<1>8. ASSUME NEW k \in Ids, ApprovePendingApproval(k) PROVE Goal
  <2>1. \/ clients'[id].commands = <<>>
        \/ id \in DOMAIN clients /\ clients'[id] = clients[id]
    BY <1>8 DEF ApprovePendingApproval, Stored, TypeInv, PendingHoldsNoWork
  <2> QED BY <1>3, <2>1
<1>9. ASSUME NEW expired, PurgeDisconnected(expired) PROVE Goal
  <2>1. id \in DOMAIN clients /\ clients'[id] = clients[id]
    BY <1>9 DEF PurgeDisconnected, Without, Restrict
  <2> QED BY <1>3, <2>1
<1>10. ASSUME RecordsAlike PROVE Goal
  BY <1>3, <1>10 DEF RecordsAlike, Alike, NewRecord
<1>11. ASSUME NEW k, \/ NextPendingCommand(k) \/ BlockAgent(k)
                     \/ \E o : MarkCommandSent(k, o)
                     \/ \E msg : AddPendingApproval(msg)
       PROVE  Goal
  BY <1>3, <1>11 DEF NextPendingCommand, BlockAgent, MarkCommandSent, AddPendingApproval
<1> HIDE DEF Goal
<1>12. Goal
  BY <1>4, <1>5, <1>6, <1>7, <1>8, <1>9, <1>10, <1>11, StepKinds
<1> QED BY <1>12 DEF Goal, Owned, TypeInv, TypeOK

\* A step marks no command, or it is mark_command_sent.
LEMMA ObjectsAfter ==
  ASSUME TypeInv, [Next]_vars, NEW obj \in DOMAIN command_objects
  PROVE  /\ obj \in DOMAIN command_objects'
         /\ \/ command_objects'[obj] = command_objects[obj]
            \/ /\ \E k \in Ids : MarkCommandSent(k, obj)
               /\ command_objects'[obj].sent
         /\ obj \in dispatching => obj \in dispatching' \/ command_objects'[obj].sent
<1> DEFINE Goal == /\ obj \in DOMAIN command_objects'
                   /\ \/ command_objects'[obj] = command_objects[obj]
                      \/ /\ \E k \in Ids : MarkCommandSent(k, obj)
                         /\ command_objects'[obj].sent
                   /\ obj \in dispatching => obj \in dispatching' \/ command_objects'[obj].sent
<1>1. ASSUME UNCHANGED <<command_objects, dispatching>> PROVE Goal
  BY <1>1
<1>2. ASSUME NEW action \in CommandAction,
             command_objects' = Append(command_objects, Fresh(action)),
             dispatching' = dispatching
      PROVE  Goal
  BY <1>2, AppendedObject DEF TypeInv
<1>3. ASSUME NEW k \in Ids, NEW o \in dispatching, MarkCommandSent(k, o) PROVE Goal
  <2>1. command_objects[obj] \in CommandObject /\ command_objects[o] \in CommandObject
    BY <1>3 DEF TypeInv, TypeOK
  <2>2. /\ DOMAIN command_objects' = DOMAIN command_objects
        /\ o = obj => command_objects'[obj].sent
        /\ o # obj => command_objects'[obj] = command_objects[obj]
    BY <1>3, <2>1 DEF MarkCommandSent, MarkedSent, CommandObject
  <2>3. dispatching' = dispatching \ {o}
    BY <1>3 DEF MarkCommandSent
  <2>4. CASE o = obj
    BY <1>3, <2>2, <2>4
  <2>5. CASE o # obj
    BY <2>2, <2>3, <2>5
  <2> QED BY <2>4, <2>5
<1>4. CASE AgentMessage
  <2>1. ASSUME NEW msg \in AgentToServer, UpsertFromAgentMsg(msg) PROVE Goal
    <3>1. ForceResync \in CommandAction
      BY DEF CommandAction
    <3> QED BY <1>1, <1>2, <2>1, <3>1 DEF UpsertFromAgentMsg, UpsertedObjects
  <2>2. ASSUME NEW msg, AddPendingApproval(msg) PROVE Goal
    BY <1>1, <2>2 DEF AddPendingApproval
  <2> QED BY <1>4, <2>1, <2>2 DEF AgentMessage
<1>5. ASSUME NEW k, NextPendingCommand(k) PROVE Goal
  BY <1>5 DEF NextPendingCommand
<1>6. CASE DispatchStep
  BY <1>1, <1>3, <1>5, <1>6 DEF DispatchStep, PopNextAction, PopAgentIdentification, Rewrite
<1>7. ASSUME NEW k \in Ids, NEW action \in CommandAction, QueueCommand(k, action) PROVE Goal
  BY <1>2, <1>7 DEF QueueCommand
<1>8. CASE OperatorStep \/ ReservedStep
  <2>1. Actions \subseteq CommandAction /\ ForceResync \in CommandAction
    BY DEF CommandAction
  <2> QED BY <1>1, <1>7, <1>8, <2>1
          DEF OperatorStep, ReservedStep, QueueForceResync, SetRequestedConfig,
              SetNextActions, AddEvent, SetClientHeartbeatFrequency, Rewrite, RemoveClient,
              SetAgentIdentification, SetDefaultHeartbeatFrequency
<1>9. CASE ApprovalStep \/ Housekeeping
  BY <1>1, <1>9 DEF ApprovalStep, ApprovePendingApproval, BlockAgent, Housekeeping,
                    PurgeDisconnected
<1>10. CASE UNCHANGED vars
  BY <1>1, <1>10 DEF vars
<1> QED BY <1>4, <1>6, <1>8, <1>9, <1>10 DEF Next

-----------------------------------------------------------------------------
(* RestoredStore: what a snapshot holds *)

\* What the invariants of the store say of its maps, said of those in a snapshot.
OwnedOnce(map) ==
    \A j, k \in DOMAIN map :
        \A m \in DOMAIN map[j].commands, n \in DOMAIN map[k].commands :
            map[j].commands[m] = map[k].commands[n] => j = k /\ m = n

OrderKept(map, objects) ==
    \A id \in DOMAIN map : \A m, n \in DOMAIN map[id].commands :
        m < n /\ objects[map[id].commands[n]].sent => objects[map[id].commands[m]].sent

Workless(map) ==
    \A id \in DOMAIN map :
        map[id].commands = <<>> /\ map[id].pending_agent_identification = NoUid

GoodSnapshot(s, uids) ==
    /\ IsFiniteSet(DOMAIN s.clients)
    /\ AllGood(s.clients, s.command_objects, uids)
    /\ Maps(s.pending_approvals, Ids, ClientRecord) /\ Workless(s.pending_approvals)
    /\ s.blocked_agents \subseteq Ids
    /\ s.default_heartbeat \in Nat \ {0}
    /\ s.command_objects \in Seq(CommandObject)
    /\ Maps(s.replacements, uids, Ids)
    /\ Keyed(s.clients) /\ Keyed(s.pending_approvals)
    /\ OwnedOnce(s.clients)
    /\ OrderKept(s.clients, s.command_objects)

StoreInv == TypeInv /\ QueueOrder /\ KeyedByOwnId /\ IsFiniteSet(DOMAIN clients)

RestoredInv ==
    /\ StoreInv
    /\ snapshot # NoSnapshot => GoodSnapshot(snapshot, minted)

LEMMA SnapshotOfMore ==
  ASSUME NEW s, NEW uids, GoodSnapshot(s, uids), NEW more, uids \subseteq more
  PROVE  GoodSnapshot(s, more)
<1>1. AllGood(s.clients, s.command_objects, more)
  BY AllGoodMore DEF GoodSnapshot
<1>2. Maps(s.replacements, more, Ids)
  BY DEF GoodSnapshot, Maps
<1> QED BY <1>1, <1>2 DEF GoodSnapshot

LEMMA ExportIsGood ==
  ASSUME StoreInv
  PROVE  GoodSnapshot(ExportPersistedState, minted)
<1>1. AllGood(clients, command_objects, minted)
  BY TypeOKParts DEF StoreInv, TypeInv
<1>2. Workless(pending_approvals)
  BY DEF StoreInv, TypeInv, PendingHoldsNoWork, Workless
<1>3. Keyed(clients) /\ Keyed(pending_approvals)
  BY DEF StoreInv, KeyedByOwnId, Keyed
<1>4. OwnedOnce(clients) /\ OrderKept(clients, command_objects)
  BY DEF StoreInv, QueueOrder, CommandsOwnedOnce, SentInOrder, OwnedOnce, OrderKept
<1>5. /\ IsFiniteSet(DOMAIN clients) /\ Maps(pending_approvals, Ids, ClientRecord)
      /\ blocked_agents \subseteq Ids /\ default_heartbeat \in Nat \ {0}
      /\ command_objects \in Seq(CommandObject) /\ Maps(replacements, minted, Ids)
  BY DEF StoreInv, TypeInv, TypeOK
<1> QED BY <1>1, <1>2, <1>3, <1>4, <1>5 DEF GoodSnapshot, ExportPersistedState

-----------------------------------------------------------------------------
(* RestoredStore: a step of the running store *)

\* A step brings in at most one client, and takes back no UID.
LEMMA ClientsStayFinite ==
  ASSUME TypeInv, IsFiniteSet(DOMAIN clients), [Next]_vars
  PROVE  IsFiniteSet(DOMAIN clients') /\ minted \subseteq minted'
<1>1. ASSUME NEW id, DOMAIN clients' \subseteq DOMAIN clients \cup {id}
      PROVE  IsFiniteSet(DOMAIN clients')
  <2>1. IsFiniteSet(DOMAIN clients \cup {id})
    BY FS_AddElement
  <2> QED BY <1>1, <2>1, FS_Subset
<1>2. ASSUME NEW msg \in AgentToServer, UpsertFromAgentMsg(msg) \/ AddPendingApproval(msg)
      PROVE  DOMAIN clients' \subseteq DOMAIN clients \cup {msg.uid} /\ minted \subseteq minted'
  <2>1. DOMAIN Without(clients, {replacements[msg.uid]}) \subseteq DOMAIN clients
    BY DEF Without, Restrict
  <2>2. \A map, rec : DOMAIN Stored(map, msg.uid, rec) = DOMAIN map \cup {msg.uid}
    BY DEF Stored
  <2>3. DOMAIN UpsertedClients(msg.uid, UpsertedRecord(msg)) \subseteq DOMAIN clients \cup {msg.uid}
    BY <2>1, <2>2 DEF UpsertedClients
  <2> QED BY <1>2, <2>3 DEF UpsertFromAgentMsg, AddPendingApproval
<1>3. ASSUME NEW id \in Ids, NEW action \in CommandAction, QueueCommand(id, action)
      PROVE  DOMAIN clients' \subseteq DOMAIN clients \cup {id} /\ minted \subseteq minted'
  BY <1>3 DEF QueueCommand, Stored
<1>4. ASSUME NEW id \in Ids,
             \/ NextPendingCommand(id)
             \/ \E obj \in dispatching : MarkCommandSent(id, obj)
             \/ PopAgentIdentification(id)
             \/ \E uid \in ServerUids : SetAgentIdentification(id, uid)
             \/ RemoveClient(id) \/ ApprovePendingApproval(id) \/ BlockAgent(id)
      PROVE  DOMAIN clients' \subseteq DOMAIN clients \cup {id} /\ minted \subseteq minted'
  <2>1. DOMAIN Without(clients, {id}) \subseteq DOMAIN clients
    BY DEF Without, Restrict
  <2>2. CASE RemoveClient(id)
    <3>1. clients' = Without(clients, {id}) /\ minted' = minted
      BY <2>2 DEF RemoveClient
    <3> QED BY <2>1, <3>1
  <2>3. CASE ApprovePendingApproval(id)
    BY <2>3 DEF ApprovePendingApproval, Stored
  <2>4. CASE \E uid \in ServerUids : SetAgentIdentification(id, uid)
    BY <2>4 DEF SetAgentIdentification
  <2>5. CASE \/ NextPendingCommand(id) \/ PopAgentIdentification(id) \/ BlockAgent(id)
             \/ \E obj \in dispatching : MarkCommandSent(id, obj)
    BY <2>5 DEF NextPendingCommand, PopAgentIdentification, BlockAgent, MarkCommandSent
  <2> QED BY <1>4, <2>2, <2>3, <2>4, <2>5
<1>5. ASSUME NEW expired \in (SUBSET DOMAIN clients) \ {{}}, PurgeDisconnected(expired)
      PROVE  DOMAIN clients' \subseteq DOMAIN clients \cup {NoUid} /\ minted \subseteq minted'
  BY <1>5, WithoutIsRemoval DEF PurgeDisconnected
<1>6. CASE RecordsAlike
  BY <1>1, <1>6 DEF RecordsAlike
<1> QED BY <1>1, <1>2, <1>3, <1>4, <1>5, <1>6, StepKinds

LEMMA RunningStep ==
  ASSUME RestoredInv, StoreStep \/ UNCHANGED restoredVars
  PROVE  RestoredInv'
<1>1. TypeInv /\ QueueOrder /\ KeyedByOwnId /\ IsFiniteSet(DOMAIN clients) /\ [Next]_vars
  BY DEF RestoredInv, StoreInv, StoreStep, restoredVars
<1>2. TypeInv'
  BY <1>1, TypeInvStep
<1>3. QueueOrder'
  BY <1>1, <1>2, QueueOrderStep
<1>4. KeyedByOwnId'
  BY <1>1, KeyedStep
<1>5. IsFiniteSet(DOMAIN clients') /\ minted \subseteq minted'
  BY <1>1, ClientsStayFinite
<1>6. snapshot' = snapshot
  BY DEF StoreStep, restoredVars
<1>7. snapshot # NoSnapshot => GoodSnapshot(snapshot, minted')
  BY <1>5, SnapshotOfMore DEF RestoredInv
<1> QED BY <1>2, <1>3, <1>4, <1>5, <1>6, <1>7 DEF RestoredInv, StoreInv

LEMMA SaveStep ==
  ASSUME RestoredInv, Save
  PROVE  RestoredInv'
<1>1. GoodSnapshot(snapshot', minted')
  BY ExportIsGood DEF RestoredInv, Save, vars
<1>2. StoreInv'
  BY DEF RestoredInv, StoreInv, Save, vars, TypeInv, TypeOK, PendingHoldsNoWork,
         QueueOrder, CommandsOwnedOnce, DispatchingInOrder, SentInOrder, KeyedByOwnId
<1> QED BY <1>1, <1>2 DEF RestoredInv

LEMMA EmptyStep ==
  ASSUME RestoredInv, StartEmpty
  PROVE  RestoredInv'
<1>1. default_heartbeat' \in Nat \ {0}
  BY ConstantsAssumption, AtLeastOneIsPositive
     DEF StartEmpty, DEFAULT_HEARTBEAT_FREQUENCY
<1>2. TypeInv'
  BY <1>1 DEF RestoredInv, StoreInv, StartEmpty, TypeInv, TypeOK, PendingHoldsNoWork, Maps
<1>3. QueueOrder' /\ KeyedByOwnId'
  BY DEF StartEmpty, QueueOrder, CommandsOwnedOnce, DispatchingInOrder, SentInOrder,
         KeyedByOwnId
<1>4. IsFiniteSet(DOMAIN clients')
  BY FS_EmptySet DEF StartEmpty
<1> QED BY <1>2, <1>3, <1>4 DEF RestoredInv, StoreInv, StartEmpty

-----------------------------------------------------------------------------
(* RestoredStore: a restore *)

\* Every element of a finite set is in one place of its sequence.
LEMMA SetToSeqLists ==
  ASSUME NEW S, IsFiniteSet(S)
  PROVE  /\ SetToSeq(S) \in Seq(S)
         /\ \A i, j \in DOMAIN SetToSeq(S) : SetToSeq(S)[i] = SetToSeq(S)[j] => i = j
         /\ \A x \in S : \E i \in DOMAIN SetToSeq(S) : SetToSeq(S)[i] = x
<1> DEFINE n == Cardinality(S)
<1>1. n \in Nat
  BY FS_CardinalityType
<1>2. \E f \in [1..n -> S] : IsInjective(f)
  <2>1. Bijection(1..n, S) # {}
    BY FS_CardinalityType DEF ExistsBijection
  <2> QED BY <2>1 DEF Bijection, Injection
<1> DEFINE s == SetToSeq(S)
<1>3. s \in [1..n -> S] /\ IsInjective(s)
  BY <1>2 DEF SetToSeq
<1> HIDE DEF s
<1>4. s \in Surjection(1..n, S)
  <2>1. s \in Injection(1..n, S)
    BY <1>3 DEF Injection
  <2>2. IsFiniteSet(1..n) /\ Cardinality(1..n) = Cardinality(S)
    BY <1>1, FS_Interval
  <2> QED BY <2>1, <2>2, FS_Injection
<1>5. \A x \in S : \E i \in DOMAIN s : s[i] = x
  BY <1>3, <1>4 DEF Surjection
<1>6. s \in Seq(S)
  BY <1>1, <1>3
<1> QED BY <1>3, <1>5, <1>6 DEF IsInjective, s

\* What pydantic makes of one exported record: the queue is the old one or empty,
\* and a pending identification is a misread one.
LEMMA DeserializedRecord ==
  ASSUME TypeOK, NEW rec \in ClientRecord, NEW lacking, "client_id" \notin lacking
  PROVE  /\ Deserialized(rec, lacking) \in ClientRecord
         /\ Deserialized(rec, lacking).client_id = rec.client_id
         /\ \/ Deserialized(rec, lacking).commands = rec.commands
            \/ Deserialized(rec, lacking).commands = <<>>
         /\ Deserialized(rec, lacking).pending_agent_identification \in ServerUids \cup {NoUid}
         /\ rec.pending_agent_identification = NoUid
               => Deserialized(rec, lacking).pending_agent_identification = NoUid
<1> DEFINE blank == [NewRecord(rec.client_id) EXCEPT
                        !.heartbeat_frequency = DEFAULT_HEARTBEAT_FREQUENCY]
           normalized == [field \in DOMAIN rec |->
                             IF field \in lacking THEN blank[field] ELSE rec[field]]
           uid == ReadAsBytes(normalized.pending_agent_identification)
<1>1. DOMAIN rec = {"client_id", "message_id", "commands", "next_actions",
                    "requested_config", "heartbeat_frequency", "disconnected",
                    "pending_agent_identification"}
  BY DEF ClientRecord
<1>2. /\ blank \in ClientRecord /\ blank.commands = <<>>
      /\ blank.pending_agent_identification = NoUid
  <2>1. /\ NewRecord(rec.client_id) \in ClientRecord
        /\ NewRecord(rec.client_id).commands = <<>>
        /\ NewRecord(rec.client_id).pending_agent_identification = NoUid
    BY NewRecordTyped DEF ClientRecord
  <2>2. \A new \in ClientRecord, frequency \in Nat \ {0} :
           LET changed == [new EXCEPT !.heartbeat_frequency = frequency]
           IN  /\ changed \in ClientRecord /\ changed.commands = new.commands
               /\ changed.pending_agent_identification = new.pending_agent_identification
    BY DEF ClientRecord
  <2>3. DEFAULT_HEARTBEAT_FREQUENCY \in Nat \ {0}
    BY DEF DEFAULT_HEARTBEAT_FREQUENCY
  <2> QED BY <2>1, <2>2, <2>3
<1> HIDE DEF blank
<1>3. /\ normalized.client_id = rec.client_id
      /\ normalized.commands = rec.commands \/ normalized.commands = <<>>
      /\ \/ normalized.pending_agent_identification = rec.pending_agent_identification
         \/ normalized.pending_agent_identification = NoUid
  BY <1>1, <1>2
<1>4. normalized \in ClientRecord
  <2>1. DOMAIN normalized = DOMAIN rec
    OBVIOUS
  <2>2. \A field \in DOMAIN rec :
           normalized[field] = blank[field] \/ normalized[field] = rec[field]
    OBVIOUS
  <2> HIDE DEF normalized
  <2>3. /\ normalized["client_id"] \in Ids
        /\ normalized["message_id"] \in MIN_INTEGER..MaxSequence
        /\ normalized["commands"] \in Seq(Nat \ {0})
        /\ normalized["next_actions"] \in Seq(NextActions)
    BY <1>1, <1>2, <2>2 DEF ClientRecord
  <2>4. /\ normalized["requested_config"] \in Configs \cup {NoConfig}
        /\ normalized["heartbeat_frequency"] \in Nat \ {0}
        /\ normalized["disconnected"] \in BOOLEAN
        /\ normalized["pending_agent_identification"] \in Ids \cup {NoUid}
    BY <1>1, <1>2, <2>2 DEF ClientRecord
  <2>5. normalized = [field \in DOMAIN rec |-> normalized[field]]
    BY DEF normalized
  <2> QED BY <1>1, <2>3, <2>4, <2>5 DEF ClientRecord
<1>5. /\ uid \in ServerUids \cup {NoUid}
      /\ normalized.pending_agent_identification = NoUid => uid = NoUid
  BY ConstantsAssumption, RestoredAssumption DEF ReadAsBytes, Ids
<1>6. Deserialized(rec, lacking) = [normalized EXCEPT !.pending_agent_identification = uid]
  BY DEF Deserialized, Normalized, blank
<1> HIDE DEF normalized, uid
<1>7. /\ [normalized EXCEPT !.pending_agent_identification = uid] \in ClientRecord
      /\ [normalized EXCEPT !.pending_agent_identification = uid].client_id
            = normalized.client_id
      /\ [normalized EXCEPT !.pending_agent_identification = uid].commands
            = normalized.commands
      /\ [normalized EXCEPT !.pending_agent_identification = uid].pending_agent_identification
            = uid
  BY <1>4, <1>5 DEF ClientRecord, Ids
<1> QED BY <1>3, <1>5, <1>6, <1>7

\* What may become of the records of a map.
Comes(records, map) ==
    /\ DOMAIN records \subseteq DOMAIN map
    /\ \A id \in DOMAIN records :
          /\ records[id] \in ClientRecord
          /\ records[id].client_id = map[id].client_id
          /\ records[id].commands = map[id].commands \/ records[id].commands = <<>>
          /\ records[id].pending_agent_identification \in ServerUids \cup {NoUid}
          /\ map[id].pending_agent_identification = NoUid
                => records[id].pending_agent_identification = NoUid

LEMMA RecordsCome ==
  ASSUME TypeOK, NEW map, \A id \in DOMAIN map : map[id] \in ClientRecord, NEW lacking
  PROVE  Comes(RestoredRecords(map, lacking), map)
<1>1. CASE "client_id" \in lacking
  BY <1>1 DEF RestoredRecords, Comes
<1>2. CASE "client_id" \notin lacking
  <2>1. RestoredRecords(map, lacking) = [id \in DOMAIN map |-> Deserialized(map[id], lacking)]
    BY <1>2 DEF RestoredRecords
  <2> QED BY <1>2, <2>1, DeserializedRecord DEF Comes
<1> QED BY <1>1, <1>2

\* After a restore the clients that were asked have the request, an object of its
\* own, at the end of the queue they came with.
Imported(records, asked, place) ==
    /\ DOMAIN clients' = DOMAIN records
    /\ asked \subseteq DOMAIN records
    /\ \A id \in DOMAIN records \ asked : clients'[id] = records[id]
    /\ \A id \in asked :
          /\ clients'[id] = WithCommand(records[id], place[id])
          /\ place[id] \in DOMAIN command_objects'
          /\ place[id] > Len(snapshot.command_objects)
          /\ command_objects'[place[id]] = Fresh(ForceResync)
    /\ \A i, j \in asked : place[i] = place[j] => i = j
    /\ command_objects' \in Seq(CommandObject)
    /\ \A obj \in DOMAIN snapshot.command_objects :
          /\ obj \in DOMAIN command_objects'
          /\ command_objects'[obj] = snapshot.command_objects[obj]

LEMMA RestoreImports ==
  ASSUME RestoredInv, NEW lacking, Restore(lacking)
  PROVE  LET records == RestoredRecords(snapshot.clients, lacking)
         IN  \E place : Imported(records,
                           Refreshed(records, snapshot.command_objects, lacking), place)
<1> DEFINE objects == snapshot.command_objects
           records == RestoredRecords(snapshot.clients, lacking)
           asked == Refreshed(records, objects, lacking)
           order == SetToSeq(asked)
           at(id) == CHOOSE i \in DOMAIN order : order[i] = id
           resync == [i \in DOMAIN order |-> Fresh(ForceResync)]
           place == [id \in asked |-> Len(objects) + at(id)]
<1>1. GoodSnapshot(snapshot, minted)
  BY DEF RestoredInv, Restore
<1>2. Comes(records, snapshot.clients)
  BY <1>1, RecordsCome
     DEF GoodSnapshot, AllGood, GoodRecord, RestoredInv, StoreInv, TypeInv
<1>3. asked \subseteq DOMAIN records /\ IsFiniteSet(asked)
  <2>1. asked \subseteq DOMAIN records /\ asked \subseteq DOMAIN snapshot.clients
    BY <1>2 DEF Comes, Refreshed
  <2> QED BY <1>1, <2>1, FS_Subset DEF GoodSnapshot
<1>4. /\ clients' = [id \in DOMAIN records |->
                        IF id \in Range(order)
                        THEN WithCommand(records[id], Len(objects) + at(id)) ELSE records[id]]
      /\ command_objects' = objects \o resync
  BY DEF Restore, ImportPersistedState
<1>5. objects \in Seq(CommandObject)
  BY <1>1 DEF GoodSnapshot
<1> HIDE DEF objects, records, asked
<1>6. /\ order \in Seq(asked)
      /\ \A i, j \in DOMAIN order : order[i] = order[j] => i = j
      /\ \A id \in asked : \E i \in DOMAIN order : order[i] = id
  BY <1>3, SetToSeqLists
<1> HIDE DEF order
<1>7. DOMAIN order = 1..Len(order) /\ Len(order) \in Nat /\ Range(order) = asked
  BY <1>6 DEF Range
<1>8. \A id \in asked : at(id) \in DOMAIN order /\ order[at(id)] = id
  BY <1>6
<1> HIDE DEF at
<1>9. resync \in Seq(CommandObject) /\ Len(resync) = Len(order)
  BY <1>7 DEF Fresh, CommandObject, CommandAction
<1>10. /\ command_objects' \in Seq(CommandObject)
       /\ Len(command_objects') = Len(objects) + Len(order)
       /\ \A obj \in 1..Len(objects) : command_objects'[obj] = objects[obj]
       /\ \A i \in 1..Len(order) : command_objects'[Len(objects) + i] = resync[i]
  BY <1>4, <1>5, <1>7, <1>9
<1> HIDE DEF resync
<1>11. \A i \in DOMAIN order : resync[i] = Fresh(ForceResync)
  BY DEF resync
<1>12. ASSUME NEW id \in asked
       PROVE  /\ clients'[id] = WithCommand(records[id], place[id])
              /\ place[id] \in DOMAIN command_objects'
              /\ place[id] > Len(objects)
              /\ command_objects'[place[id]] = Fresh(ForceResync)
  <2>1. place[id] = Len(objects) + at(id) /\ at(id) \in 1..Len(order)
    BY <1>7, <1>8
  <2>2. clients'[id] = WithCommand(records[id], place[id])
    BY <1>3, <1>4, <1>7
  <2> QED BY <1>5, <1>7, <1>10, <1>11, <2>1, <2>2
<1>13. \A i, j \in asked : place[i] = place[j] => i = j
  BY <1>5, <1>7, <1>8
<1>14. \A obj \in DOMAIN objects :
          obj \in DOMAIN command_objects' /\ command_objects'[obj] = objects[obj]
  BY <1>5, <1>7, <1>10
<1>15. /\ DOMAIN clients' = DOMAIN records
       /\ \A id \in DOMAIN records \ asked : clients'[id] = records[id]
  BY <1>4, <1>7
<1> HIDE DEF place
<1> QED BY <1>3, <1>10, <1>12, <1>13, <1>14, <1>15 DEF Imported, records, asked, objects

\* What a restore makes of every client, whether it is asked or not.
RestoredClients(place) ==
    \A id \in DOMAIN clients' :
        /\ id \in DOMAIN snapshot.clients
        /\ clients'[id] \in ClientRecord
        /\ clients'[id].client_id = snapshot.clients[id].client_id
        /\ clients'[id].pending_agent_identification \in ServerUids \cup {NoUid}
        /\ \A i \in DOMAIN clients'[id].commands :
              \/ /\ i \in DOMAIN snapshot.clients[id].commands
                 /\ clients'[id].commands[i] = snapshot.clients[id].commands[i]
                 /\ clients'[id].commands[i] \in DOMAIN snapshot.command_objects
              \/ /\ clients'[id].commands[i] = place[id]
                 /\ place[id] \in DOMAIN command_objects'
                 /\ place[id] \notin DOMAIN snapshot.command_objects
                 /\ ~command_objects'[place[id]].sent
                 /\ \A j \in DOMAIN clients'[id].commands : j <= i

LEMMA ImportedClients ==
  ASSUME RestoredInv, NEW records, NEW asked, NEW place,
         GoodSnapshot(snapshot, minted),
         Comes(records, snapshot.clients), Imported(records, asked, place)
  PROVE  RestoredClients(place)
<1> DEFINE objects == snapshot.command_objects
<1>1. objects \in Seq(CommandObject) /\ DOMAIN objects = 1..Len(objects) /\ Len(objects) \in Nat
  BY DEF GoodSnapshot
<1> SUFFICES ASSUME NEW id \in DOMAIN clients'
             PROVE  RestoredClients(place)!(id)
  BY DEF RestoredClients
<1> DEFINE old == snapshot.clients[id]
           rec == records[id]
<1>2. id \in DOMAIN records /\ id \in DOMAIN snapshot.clients
  BY DEF Imported, Comes
<1>3. /\ rec \in ClientRecord
      /\ rec.client_id = old.client_id
      /\ rec.commands = old.commands \/ rec.commands = <<>>
      /\ rec.pending_agent_identification \in ServerUids \cup {NoUid}
  BY <1>2 DEF Comes
<1>4. \A i \in DOMAIN old.commands : old.commands[i] \in DOMAIN objects
  BY <1>2 DEF GoodSnapshot, AllGood, GoodRecord
<1>5. \A i \in DOMAIN rec.commands :
         /\ i \in DOMAIN old.commands /\ rec.commands[i] = old.commands[i]
         /\ rec.commands[i] \in DOMAIN objects
  BY <1>3, <1>4
<1>6. CASE id \notin asked
  <2>1. clients'[id] = rec
    BY <1>2, <1>6 DEF Imported
  <2> QED BY <1>2, <1>3, <1>5, <2>1
<1>7. CASE id \in asked
  <2>1. /\ clients'[id] = WithCommand(rec, place[id])
        /\ place[id] \in DOMAIN command_objects'
        /\ place[id] > Len(objects)
        /\ command_objects'[place[id]] = Fresh(ForceResync)
        /\ command_objects' \in Seq(CommandObject)
    BY <1>7 DEF Imported
  <2>2. place[id] \in Nat \ {0} /\ place[id] \notin DOMAIN objects
    BY <1>1, <2>1
  <2>3. ~command_objects'[place[id]].sent
    BY <2>1 DEF Fresh
  <2> HIDE DEF rec, old
  <2>4. rec.commands \in Seq(Nat \ {0})
    BY <1>3 DEF ClientRecord
  <2>5. /\ WithCommand(rec, place[id]) \in ClientRecord
        /\ WithCommand(rec, place[id]).client_id = rec.client_id
        /\ WithCommand(rec, place[id]).pending_agent_identification
              = rec.pending_agent_identification
        /\ WithCommand(rec, place[id]).commands = Append(rec.commands, place[id])
    <3>1. Append(rec.commands, place[id]) \in Seq(Nat \ {0})
      BY <2>2, <2>4
    <3>2. \A queue \in Seq(Nat \ {0}) :
             LET new == [rec EXCEPT !.commands = queue]
             IN  /\ new \in ClientRecord /\ new.client_id = rec.client_id
                 /\ new.pending_agent_identification = rec.pending_agent_identification
                 /\ new.commands = queue
      BY <1>3 DEF ClientRecord
    <3>3. WithCommand(rec, place[id]) = [rec EXCEPT !.commands = Append(rec.commands, place[id])]
      BY DEF WithCommand
    <3> QED BY <3>1, <3>2, <3>3
  <2>6. \A i \in DOMAIN Append(rec.commands, place[id]) :
           \/ i \in DOMAIN rec.commands /\ Append(rec.commands, place[id])[i] = rec.commands[i]
           \/ /\ Append(rec.commands, place[id])[i] = place[id]
              /\ \A j \in DOMAIN Append(rec.commands, place[id]) : j <= i
    BY <2>2, <2>4
  <2>7. \A i \in DOMAIN clients'[id].commands :
           \/ i \in DOMAIN rec.commands /\ clients'[id].commands[i] = rec.commands[i]
           \/ /\ clients'[id].commands[i] = place[id]
              /\ \A j \in DOMAIN clients'[id].commands : j <= i
    BY <2>1, <2>5, <2>6
  <2>8. /\ clients'[id] \in ClientRecord
        /\ clients'[id].client_id = rec.client_id
        /\ clients'[id].pending_agent_identification = rec.pending_agent_identification
    BY <2>1, <2>5
  <2> QED BY <1>2, <1>3, <1>5, <2>1, <2>2, <2>3, <2>7, <2>8 DEF old
<1> QED BY <1>6, <1>7

LEMMA RestoreStep ==
  ASSUME RestoredInv, NEW lacking, Restore(lacking)
  PROVE  RestoredInv'
<1> DEFINE s == snapshot
           objects == s.command_objects
           records == RestoredRecords(s.clients, lacking)
           pending == RestoredRecords(s.pending_approvals, lacking)
           asked == Refreshed(records, objects, lacking)
<1>1. GoodSnapshot(s, minted) /\ TypeOK
  BY DEF RestoredInv, Restore, StoreInv, TypeInv
<1>2. Comes(records, s.clients)
  BY <1>1, RecordsCome DEF GoodSnapshot, AllGood, GoodRecord
<1>3. Comes(pending, s.pending_approvals)
  BY <1>1, RecordsCome DEF GoodSnapshot, Maps
<1>4. PICK place : Imported(records, asked, place)
  BY RestoreImports
<1>5. RestoredClients(place)
  BY <1>1, <1>2, <1>4, ImportedClients
<1>6. /\ pending_approvals' = pending
      /\ blocked_agents' = s.blocked_agents
      /\ replacements' = s.replacements
      /\ default_heartbeat' = s.default_heartbeat
      /\ dispatching' = {}
      /\ minted' = minted \cup ({clients'[id].pending_agent_identification :
                                     id \in DOMAIN clients'} \ {NoUid})
      /\ handed_out' = handed_out /\ snapshot' = snapshot
  BY DEF Restore, ImportPersistedState
<1> HIDE DEF s, objects, records, pending, asked
<1>7. minted \subseteq minted' /\ minted' \subseteq ServerUids
  BY <1>1, <1>5, <1>6 DEF TypeOK, RestoredClients
<1>8. /\ command_objects' \in Seq(CommandObject)
      /\ \A obj \in DOMAIN objects :
            obj \in DOMAIN command_objects' /\ command_objects'[obj] = objects[obj]
  BY <1>4 DEF Imported, objects, s
<1>9. TypeInv'
  <2>1. \A id \in DOMAIN clients' :
           /\ id \in Ids /\ clients'[id] \in ClientRecord
           /\ clients'[id].pending_agent_identification \in minted' \cup {NoUid}
           /\ \A i \in DOMAIN clients'[id].commands :
                 clients'[id].commands[i] \in DOMAIN command_objects'
    BY <1>1, <1>5, <1>6, <1>8 DEF RestoredClients, GoodSnapshot, AllGood, s, objects
  <2>2. Maps(pending_approvals', Ids, ClientRecord)
    BY <1>1, <1>3, <1>6 DEF Comes, GoodSnapshot, Maps
  <2>3. PendingHoldsNoWork'
    BY <1>1, <1>3, <1>6 DEF Comes, GoodSnapshot, Workless, PendingHoldsNoWork
  <2>4. Maps(replacements', minted', Ids)
    BY <1>1, <1>6, <1>7 DEF GoodSnapshot, Maps
  <2>5. blocked_agents' \subseteq Ids /\ default_heartbeat' \in Nat \ {0}
    BY <1>1, <1>6 DEF GoodSnapshot
  <2>6. handed_out' \subseteq minted' /\ dispatching' \subseteq DOMAIN command_objects'
    BY <1>1, <1>6, <1>7 DEF TypeOK
  <2> QED BY <1>7, <1>8, <2>1, <2>2, <2>3, <2>4, <2>5, <2>6 DEF TypeInv, TypeOK, Maps
<1>10. \A j, k \in DOMAIN clients' : j \in DOMAIN s.clients /\ place[j] = place[k]
          /\ (\E m \in DOMAIN clients'[j].commands : clients'[j].commands[m] \notin DOMAIN objects)
          /\ (\E n \in DOMAIN clients'[k].commands : clients'[k].commands[n] \notin DOMAIN objects)
          => j = k
  <2>1. ASSUME NEW id \in DOMAIN clients', id \notin asked, NEW i \in DOMAIN clients'[id].commands
        PROVE  clients'[id].commands[i] \in DOMAIN objects
    <3>1. clients'[id] = records[id] /\ id \in DOMAIN records
      BY <1>4, <2>1 DEF Imported
    <3>2. records[id].commands = s.clients[id].commands /\ id \in DOMAIN s.clients
      BY <1>2, <2>1, <3>1 DEF Comes
    <3> QED BY <1>1, <2>1, <3>1, <3>2 DEF GoodSnapshot, AllGood, GoodRecord, objects
  <2> QED BY <1>4, <2>1 DEF Imported
<1>11. \A id \in DOMAIN clients' : DOMAIN clients'[id].commands \subseteq Nat
  BY <1>5 DEF RestoredClients, ClientRecord
<1> DEFINE kept(id, i) ==
              /\ i \in DOMAIN s.clients[id].commands
              /\ clients'[id].commands[i] = s.clients[id].commands[i]
              /\ clients'[id].commands[i] \in DOMAIN objects
           added(id, i) ==
              /\ clients'[id].commands[i] = place[id]
              /\ place[id] \notin DOMAIN objects
              /\ ~command_objects'[place[id]].sent
              /\ \A j \in DOMAIN clients'[id].commands : j <= i
<1>12. \A id \in DOMAIN clients' : /\ id \in DOMAIN s.clients
                                   /\ \A i \in DOMAIN clients'[id].commands :
                                         kept(id, i) \/ added(id, i)
  BY <1>5 DEF RestoredClients, s, objects
<1>13. CommandsOwnedOnce'
  <2> SUFFICES ASSUME NEW j \in DOMAIN clients', NEW k \in DOMAIN clients',
                      NEW m \in DOMAIN clients'[j].commands,
                      NEW n \in DOMAIN clients'[k].commands,
                      clients'[j].commands[m] = clients'[k].commands[n]
               PROVE  j = k /\ m = n
    BY DEF CommandsOwnedOnce
  <2>1. CASE kept(j, m)
    <3>1. kept(k, n)
      BY <1>12, <2>1
    <3>2. OwnedOnce(s.clients)
      BY <1>1 DEF GoodSnapshot
    <3>3. /\ j \in DOMAIN s.clients /\ m \in DOMAIN s.clients[j].commands
          /\ k \in DOMAIN s.clients /\ n \in DOMAIN s.clients[k].commands
          /\ s.clients[j].commands[m] = s.clients[k].commands[n]
      BY <1>12, <2>1, <3>1
    <3> QED BY <3>2, <3>3, ZenonT(30) DEF OwnedOnce
  <2>2. CASE added(j, m)
    <3>1. added(k, n)
      BY <1>12, <2>2
    <3>2. j = k
      BY <1>10, <1>12, <2>2, <3>1
    <3>3. m \in Nat /\ n \in Nat /\ m <= n /\ n <= m
      BY <1>11, <2>2, <3>1, <3>2
    <3> QED BY <3>2, <3>3
  <2> QED BY <1>12, <2>1, <2>2
<1>14. SentInOrder' /\ DispatchingInOrder'
  <2> SUFFICES ASSUME NEW id \in DOMAIN clients',
                      NEW m \in DOMAIN clients'[id].commands,
                      NEW n \in DOMAIN clients'[id].commands, m < n,
                      command_objects'[clients'[id].commands[n]].sent
               PROVE  command_objects'[clients'[id].commands[m]].sent
    BY <1>6 DEF DispatchingInOrder, SentInOrder
  <2>1. kept(id, n)
    BY <1>12
  <2>2. m \in Nat /\ n \in Nat
    BY <1>11
  <2>3. kept(id, m)
    BY <1>12, <2>2
  <2>4. objects[s.clients[id].commands[n]].sent
    BY <1>8, <2>1
  <2>5. objects[s.clients[id].commands[m]].sent
    BY <1>1, <1>12, <2>1, <2>3, <2>4 DEF GoodSnapshot, OrderKept, objects
  <2> QED BY <1>8, <2>3, <2>5
<1>15. KeyedByOwnId'
  <2>1. Keyed(s.clients) /\ Keyed(s.pending_approvals)
    BY <1>1 DEF GoodSnapshot
  <2> QED BY <1>3, <1>5, <1>6, <2>1 DEF KeyedByOwnId, Keyed, RestoredClients, Comes, s
<1>16. IsFiniteSet(DOMAIN clients')
  <2>1. DOMAIN clients' \subseteq DOMAIN s.clients
    BY <1>12
  <2> QED BY <1>1, <2>1, FS_Subset DEF GoodSnapshot
<1>17. GoodSnapshot(snapshot', minted')
  BY <1>1, <1>6, <1>7, SnapshotOfMore DEF s
<1> QED BY <1>9, <1>13, <1>14, <1>15, <1>16, <1>17 DEF RestoredInv, StoreInv, QueueOrder

LEMMA RestoredInvHolds == RestoredSpec => []RestoredInv
<1>1. RestoredInit => RestoredInv
  <2> SUFFICES ASSUME RestoredInit PROVE RestoredInv
    OBVIOUS
  <2>1. TypeInv
    BY InitTyped DEF RestoredInit
  <2>2. QueueOrder /\ KeyedByOwnId
    BY DEF RestoredInit, Init, QueueOrder, CommandsOwnedOnce, DispatchingInOrder,
           SentInOrder, KeyedByOwnId
  <2>3. IsFiniteSet(DOMAIN clients)
    BY FS_EmptySet DEF RestoredInit, Init
  <2> QED BY <2>1, <2>2, <2>3 DEF RestoredInv, StoreInv, RestoredInit
<1>2. RestoredInv /\ [RestoredNext]_restoredVars => RestoredInv'
  BY RunningStep, SaveStep, EmptyStep, RestoreStep DEF RestoredNext
<1> QED BY <1>1, <1>2, PTL DEF RestoredSpec

\* A restored store is as well formed as the one that was saved, and its queues
\* are in order: the requests the import adds are objects of their own, each at
\* the end of one queue, whichever fields the snapshot lacks.
THEOREM RestoredQueuesCorrect == RestoredSpec => []QueueInvariant
<1>1. RestoredInv => QueueInvariant
  BY DEF RestoredInv, StoreInv, TypeInv, QueueOrder, QueueInvariant
<1> QED BY <1>1, RestoredInvHolds, PTL

\* A restored record is found under the id it carries.
THEOREM RestoredKeyedByOwnId == RestoredSpec => []KeyedByOwnId
<1>1. RestoredInv => KeyedByOwnId
  BY DEF RestoredInv, StoreInv
<1> QED BY <1>1, RestoredInvHolds, PTL

LEMMA RestoreAsks ==
  ASSUME RestoredInv, NEW lacking, Restore(lacking),
         NEW id \in DOMAIN clients', IsValidInstanceUid(id)
  PROVE  LET asks == UnsentResyncs(clients'[id], command_objects')
         IN  /\ asks # {}
             /\ \A i \in asks :
                   clients'[id].commands[i] > Len(snapshot.command_objects) => asks = {i}
<1> DEFINE s == snapshot
           objects == s.command_objects
           records == RestoredRecords(s.clients, lacking)
           rec == records[id]
           new == clients'[id]
           asked == Refreshed(records, objects, lacking)
           asks == UnsentResyncs(new, command_objects')
<1>1. GoodSnapshot(s, minted) /\ TypeOK
  BY DEF RestoredInv, Restore, StoreInv, TypeInv
<1>2. Comes(records, s.clients)
  BY <1>1, RecordsCome DEF GoodSnapshot, AllGood, GoodRecord
<1>3. PICK place : Imported(records, asked, place)
  BY RestoreImports
<1>4. id \in DOMAIN records /\ rec \in ClientRecord
  BY <1>2, <1>3 DEF Imported, Comes
<1>5. /\ objects \in Seq(CommandObject) /\ DOMAIN objects = 1..Len(objects)
      /\ Len(objects) \in Nat
  BY <1>1 DEF GoodSnapshot
<1>6. \A i \in DOMAIN rec.commands :
         /\ rec.commands[i] \in DOMAIN objects
         /\ command_objects'[rec.commands[i]] = objects[rec.commands[i]]
  <2>1. \A i \in DOMAIN rec.commands : rec.commands[i] \in DOMAIN objects
    BY <1>1, <1>2, <1>4 DEF Comes, GoodSnapshot, AllGood, GoodRecord
  <2> QED BY <1>3, <2>1 DEF Imported
<1>7. id \in asked <=> ~HasUnsentResync(rec, objects)
  <2>1. "auth_value" \in MissingFields(lacking)
    BY DEF MissingFields, ExportedFields, ModelFields
  <2> QED BY <1>4, <2>1 DEF Refreshed
<1> HIDE DEF records, asked, rec, objects
<1>8. CASE id \notin asked
  <2>1. new = rec
    BY <1>3, <1>4, <1>8 DEF Imported, rec
  <2>2. asks = {i \in UnsentPositions(rec, objects) : objects[rec.commands[i]].action = ForceResync}
    BY <1>6, <2>1 DEF UnsentResyncs, UnsentPositions
  <2>3. asks # {}
    BY <1>7, <1>8, <2>2 DEF HasUnsentResync
  <2>4. \A i \in asks : ~(new.commands[i] > Len(objects))
    <3>1. \A i \in asks : i \in DOMAIN rec.commands
      BY <2>2 DEF UnsentPositions
    <3> QED BY <1>5, <1>6, <2>1, <3>1
  <2> QED BY <2>3, <2>4 DEF objects
<1>9. CASE id \in asked
  <2>1. /\ new = WithCommand(rec, place[id])
        /\ place[id] \in DOMAIN command_objects' /\ command_objects' \in Seq(CommandObject)
        /\ command_objects'[place[id]] = Fresh(ForceResync)
    BY <1>3, <1>9 DEF Imported, rec
  <2>2. new.commands = Append(rec.commands, place[id])
    BY <1>4, <2>1 DEF WithCommand, ClientRecord
  <2>3. rec.commands \in Seq(Nat \ {0}) /\ place[id] \in Nat \ {0}
    BY <1>4, <2>1 DEF ClientRecord
  <2> DEFINE last == Len(rec.commands) + 1
  <2>4. /\ DOMAIN new.commands = DOMAIN rec.commands \cup {last}
        /\ new.commands[last] = place[id]
        /\ \A i \in DOMAIN rec.commands : new.commands[i] = rec.commands[i]
    BY <2>2, <2>3
  <2> HIDE DEF last, new
  <2>5. last \in asks
    BY <2>1, <2>4 DEF UnsentResyncs, UnsentPositions, Fresh
  <2>6. \A i \in asks : i = last
    <3>1. \A i \in DOMAIN rec.commands :
             objects[rec.commands[i]].sent \/ objects[rec.commands[i]].action # ForceResync
      BY <1>7, <1>9 DEF HasUnsentResync, UnsentPositions
    <3>2. \A i \in DOMAIN rec.commands : i \notin asks
      BY <1>6, <2>4, <3>1 DEF UnsentResyncs, UnsentPositions
    <3>3. asks \subseteq DOMAIN new.commands
      BY DEF UnsentResyncs, UnsentPositions
    <3> QED BY <2>4, <3>2, <3>3
  <2>7. asks = {last}
    BY <2>5, <2>6
  <2> QED BY <2>7 DEF new
<1> QED BY <1>8, <1>9

\* Every agent with a proper UID is asked for its full state after a restart with
\* --restore, once, whatever fields the version that saved did not write: the field
\* auth_value is never exported, so that something is missing in every snapshot.
THEOREM RestoredAreAskedOnceAlways == RestoredSpec => RestoredAreAskedOnce
<1>1. RestoredInv /\ [RestoredNext]_restoredVars =>
        ((\E lacking \in Lacking : Restore(lacking)) =>
           \A id \in DOMAIN clients' :
               LET asked == UnsentResyncs(clients'[id], command_objects')
               IN  IsValidInstanceUid(id) =>
                       /\ asked # {}
                       /\ \A i \in asked :
                             clients'[id].commands[i] > Len(snapshot.command_objects)
                             => asked = {i})
  BY RestoreAsks
<1> QED BY <1>1, RestoredInvHolds, PTL DEF RestoredSpec, RestoredAreAskedOnce
=============================================================================
