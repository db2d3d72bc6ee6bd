---------------------------- MODULE RestoredStore ----------------------------
(***************************************************************************)
(* ClientStore over the end and the restart of the provider: what          *)
(* export_persisted_state writes and import_persisted_state makes of it    *)
(* (opamp_provider/state.py).  StateSnapshots follows a snapshot on its    *)
(* way through the disk; here it is what one provider wrote and the next   *)
(* one reads, perhaps a later version of the program, which knows fields   *)
(* that the first did not.                                                 *)
(*                                                                         *)
(* A restart makes new CommandRecord objects.  They keep the positions of  *)
(* the ones they were exported from, as nobody holds those any more.       *)
(***************************************************************************)
EXTENDS ClientStore

CONSTANTS
    Misread,       \* UID -> the UID made of the bytes of its hex text
    OtherKeys,     \* keys of agents that are no 16-byte UID, as "unknown" is
    Lacking,       \* the sets of fields an earlier version may not have written
    MaxRestarts    \* bound: how often the provider is started again

ASSUME RestoredAssumption ==
    /\ Misread \in [DOMAIN Misread -> ServerUids]
    /\ DOMAIN Misread \subseteq ServerUids
    /\ IsInjective(Misread)
    /\ DOMAIN Misread \cap Range(Misread) = {}
    /\ OtherKeys \subseteq AgentUids
    /\ MaxRestarts \in Nat

VARIABLES
    snapshot,  \* the provider_state in the file that --restore would read
    restarts   \* how often the provider has been started again

restoredVars == <<vars, snapshot, restarts>>

\* generate_uuid7_bytes never comes up with the bytes of a hex text.
GeneratedUids == ServerUids \ Range(Misread)

-----------------------------------------------------------------------------
(* Export *)

NoSnapshot == <<>>

ExportPersistedState ==
    [clients |-> clients,
     pending_approvals |-> pending_approvals,
     blocked_agents |-> blocked_agents,
     replacements |-> replacements,
     default_heartbeat |-> default_heartbeat,
     command_objects |-> command_objects]

\* The fields a model_dump of a record has: those of ClientRecord that are not
\* excluded.  "others" stands for the fields ClientStore leaves out.
ModelFields ==
    {"client_id", "message_id", "commands", "next_actions", "requested_config",
     "heartbeat_frequency", "disconnected", "pending_agent_identification",
     "auth_value", "others"}

\* Seeded error: the field that is excluded is exported, so none is missing.
FaultyExportedFields == ModelFields

ExportedFields == ModelFields \ {"auth_value"}

-----------------------------------------------------------------------------
(* Import *)

IsValidInstanceUid(id) == id \notin OtherKeys \cup Range(Misread)

\* _normalize_record_payload: what a record gets for a field that is missing.
Normalized(rec, lacking) ==
    LET blank == [NewRecord(rec.client_id) EXCEPT
                     !.heartbeat_frequency = DEFAULT_HEARTBEAT_FREQUENCY]
    IN  [field \in DOMAIN rec |-> IF field \in lacking THEN blank[field] ELSE rec[field]]

\* The UID was exported as hex text, and pydantic encodes that text.
ReadAsBytes(uid) == IF uid \in DOMAIN Misread THEN Misread[uid] ELSE NoUid

Deserialized(rec, lacking) ==
    LET normalized == Normalized(rec, lacking)
    IN  [normalized EXCEPT !.pending_agent_identification = ReadAsBytes(@)]

\* A record without its client_id is dropped.
RestoredRecords(map, lacking) ==
    IF "client_id" \in lacking THEN <<>>
    ELSE [id \in DOMAIN map |-> Deserialized(map[id], lacking)]

MissingFields(lacking) == ModelFields \ (ExportedFields \ lacking)

\* The clients that are asked for their full state.
Refreshed(records, objects, lacking) ==
    {id \in DOMAIN records :
        /\ MissingFields(lacking) # {}
        /\ IsValidInstanceUid(id)
        /\ ~HasUnsentResync(records[id], objects)}

ImportPersistedState(lacking) ==
    LET records == RestoredRecords(snapshot.clients, lacking)
        order == SetToSeq(Refreshed(records, snapshot.command_objects, lacking))
        resync == [i \in DOMAIN order |-> Fresh(ForceResync)]
        place(id) == Len(snapshot.command_objects)
                     + (CHOOSE i \in DOMAIN order : order[i] = id)
    IN  /\ clients' = [id \in DOMAIN records |->
                          IF id \in Range(order)
                          THEN WithCommand(records[id], place(id)) ELSE records[id]]
        /\ command_objects' = snapshot.command_objects \o resync
        /\ pending_approvals' = RestoredRecords(snapshot.pending_approvals, lacking)
        /\ blocked_agents' = snapshot.blocked_agents
        /\ replacements' = snapshot.replacements
        /\ default_heartbeat' = snapshot.default_heartbeat

-----------------------------------------------------------------------------
\* A method of the running store.
StoreStep ==
    /\ Next
    /\ minted' \ minted \subseteq GeneratedUids
    /\ UNCHANGED <<snapshot, restarts>>

Save ==
    /\ snapshot' = ExportPersistedState
    /\ UNCHANGED <<vars, restarts>>

\* The provider stops or is killed and starts with --restore.  What its handlers
\* had taken is gone; what it has told agents is not.  minted takes in the UIDs
\* the import made up.
Restore(lacking) ==
    /\ restarts < MaxRestarts
    /\ snapshot # NoSnapshot
    /\ ImportPersistedState(lacking)
    /\ Len(command_objects') <= MaxCommands
    /\ dispatching' = {}
    /\ minted' = minted \cup ({clients'[id].pending_agent_identification :
                                  id \in DOMAIN clients'} \ {NoUid})
    /\ restarts' = restarts + 1
    /\ UNCHANGED <<handed_out, snapshot>>

\* The provider starts without --restore: empty, with the frequency of its
\* configuration.
StartEmpty ==
    /\ restarts < MaxRestarts
    /\ clients' = <<>> /\ pending_approvals' = <<>>
    /\ blocked_agents' = {} /\ replacements' = <<>>
    /\ \E frequency \in Frequencies \cup {DEFAULT_HEARTBEAT_FREQUENCY} :
          default_heartbeat' = AtLeastOne(frequency)
    /\ command_objects' = <<>> /\ dispatching' = {}
    /\ restarts' = restarts + 1
    /\ UNCHANGED <<minted, handed_out, snapshot>>

RestoredInit == Init /\ snapshot = NoSnapshot /\ restarts = 0

RestoredNext ==
    \/ StoreStep
    \/ Save
    \/ \E lacking \in Lacking : Restore(lacking)
    \/ StartEmpty

RestoredSpec == RestoredInit /\ [][RestoredNext]_restoredVars

-----------------------------------------------------------------------------
(* What a restart promises *)

UnsentResyncs(rec, objects) ==
    {i \in UnsentPositions(rec, objects) : objects[rec.commands[i]].action = ForceResync}

\* Every agent with a proper UID is asked for its full state after a restore,
\* whichever fields the snapshot lacks: the sequence check would not notice an
\* agent that was silent while the provider was down, or one the snapshot is older
\* than.  The import asks once, and not where the snapshot had a request already.
RestoredAreAskedOnce ==
    [][(\E lacking \in Lacking : Restore(lacking)) =>
           \A id \in DOMAIN clients' :
               LET asked == UnsentResyncs(clients'[id], command_objects')
               IN  IsValidInstanceUid(id) =>
                       /\ asked # {}
                       /\ \A i \in asked :
                             clients'[id].commands[i] > Len(snapshot.command_objects)
                             => asked = {i}]_restoredVars

=============================================================================
