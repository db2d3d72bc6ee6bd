----------------------------- MODULE OpampEndpoint -----------------------------
(***************************************************************************)
(* The provider's OpAMP transport and its REST operations on top of the    *)
(* client store (opamp_provider/app.py).                                   *)
(*                                                                         *)
(* A handler serves one WebSocket connection, or one HTTP request after    *)
(* another.  All handlers run on one asyncio event loop and give it up     *)
(* only at an await: a WebSocket handler while its reply is being sent, an *)
(* HTTP handler only before it has read the request.  Between awaits each  *)
(* call of the store is still a step of its own, because MCP tools run in  *)
(* worker threads and queue commands between them.                         *)
(*                                                                         *)
(* Requests that are refused before they touch any state (authentication,  *)
(* undecodable frames, unsupported fields) are left out.                   *)
(***************************************************************************)
EXTENDS ClientStore

CONSTANTS
    HttpHandlers,      \* handlers of POST /v1/opamp
    WebSocketHandlers, \* handlers of the WebSocket /v1/opamp
    LoopFree,          \* nobody is between two awaits
    ToolActions,       \* the actions MCP tools may queue: custom ones
    Anonymous,         \* the store's key for messages without instance_uid
    PackageAvailable   \* the next action whose builder needs an instance_uid

Handlers == HttpHandlers \cup WebSocketHandlers

ASSUME HandlersAssumption ==
    /\ HttpHandlers \cap WebSocketHandlers = {}
    /\ LoopFree \notin Handlers
    /\ ToolActions \subseteq Actions

VARIABLES
    human_in_loop,  \* CONFIG.human_in_loop_approval
    running,        \* the handler that has the event loop
    handlers,       \* the local variables of every handler
    received,       \* replacement UIDs that have reached an agent
    replied,        \* commands in replies that went out
    vetted,         \* clients an operator approved, or that were heard while
                    \* no approval was required
    addressed       \* clients whose record an operator or a tool created

endpoint == <<human_in_loop, running, handlers, received, replied, vetted, addressed>>
endpointVars == <<vars, endpoint>>

NoCommand == 0

\* uid is the key of the message being handled, kept in _WEBSOCKET_CLIENTS
\* between messages; command and identification are what the reply carries.
Handler ==
    [phase: {"receiving", "staging", "taking", "identifying", "acting", "replying"},
     uid: Ids \cup {NoUid},
     command: Nat,
     identification: Ids \cup {NoUid}]

IdleHandler ==
    [phase |-> "receiving", uid |-> NoUid, command |-> NoCommand,
     identification |-> NoUid]

Idle == running = LoopFree

\* The UIDs an agent can put into a message sent to the endpoint.
Claimable == AgentUids \cup received

\* Seeded error: a connection that was let in is not looked at again.
FaultyBlockedAtFirstMessage(h, uid) ==
    handlers[h].uid = NoUid /\ uid \in blocked_agents

\* A message without instance_uid has an empty client_id, which is never looked up.
Blocked(h, uid) == uid # Anonymous /\ uid \in blocked_agents

\* Seeded error: only agents that are already waiting need approval.
FaultyNeedsApproval(uid) ==
    human_in_loop /\ uid \in DOMAIN pending_approvals

NeedsApproval(uid) ==
    human_in_loop /\ (uid = Anonymous \/ uid \notin DOMAIN clients)

-----------------------------------------------------------------------------
EndpointInit ==
    /\ Init
    /\ human_in_loop \in BOOLEAN
    /\ running = LoopFree
    /\ handlers = [h \in Handlers |-> IdleHandler]
    /\ received = {}
    /\ replied = {}
    /\ vetted = {}
    /\ addressed = {}

Becomes(h, local) == handlers' = [handlers EXCEPT ![h] = local]

\* The message is acknowledged with an error; a WebSocket is closed as well.
Refuse(h, uid) ==
    /\ Idle
    /\ handlers[h].phase = "receiving"
    /\ \/ Blocked(h, uid)
       \/ NeedsApproval(uid) /\ uid \in DOMAIN pending_approvals \cup {Anonymous}
    /\ Becomes(h, IdleHandler)
    /\ UNCHANGED <<vars, human_in_loop, running, received, replied, vetted, addressed>>

\* The handler has found that the UID is unknown and not pending yet.
BeginStaging(h, uid) ==
    /\ Idle
    /\ handlers[h].phase = "receiving"
    /\ ~Blocked(h, uid)
    /\ uid # Anonymous
    /\ NeedsApproval(uid)
    /\ uid \notin DOMAIN pending_approvals
    /\ running' = h
    /\ Becomes(h, [IdleHandler EXCEPT !.phase = "staging", !.uid = uid])
    /\ UNCHANGED <<vars, human_in_loop, received, replied, vetted, addressed>>

\* The message is staged, unless a tool has just created a client record for
\* the UID, or its payload cannot be turned into a record.
Stage(h) ==
    LET uid == handlers[h].uid
    IN  /\ handlers[h].phase = "staging"
        /\ \/ \E msg \in AgentToServer : msg.uid = uid /\ AddPendingApproval(msg)
           \/ uid \in DOMAIN clients /\ UNCHANGED vars
           \/ uid \notin DOMAIN clients /\ BlockAgent(uid)
        /\ running' = LoopFree
        /\ Becomes(h, IdleHandler)
        /\ UNCHANGED <<human_in_loop, received, replied, vetted, addressed>>

Accept(h, msg) ==
    /\ Idle
    /\ handlers[h].phase = "receiving"
    /\ ~Blocked(h, msg.uid)
    /\ ~NeedsApproval(msg.uid)
    /\ UpsertFromAgentMsg(msg)
    /\ running' = h
    /\ Becomes(h, [IdleHandler EXCEPT !.phase = "taking", !.uid = msg.uid])
    /\ vetted' = DOMAIN clients' \cap
                    IF human_in_loop THEN vetted ELSE vetted \cup {msg.uid}
    /\ UNCHANGED <<human_in_loop, received, replied, addressed>>

TakeCommand(h) ==
    LET uid == handlers[h].uid
        next == FirstUnsent(clients[uid], command_objects)
    IN  /\ handlers[h].phase = "taking"
        /\ \/ /\ NextPendingCommand(uid)
              /\ \E i \in next :
                    Becomes(h, [handlers[h] EXCEPT
                                   !.phase = "identifying",
                                   !.command = clients[uid].commands[i]])
           \/ /\ next = {}
              /\ Becomes(h, [handlers[h] EXCEPT !.phase = "identifying"])
              /\ UNCHANGED vars
        /\ UNCHANGED <<human_in_loop, running, received, replied, vetted, addressed>>

\* Seeded error: the identification is read and not popped.
FaultyTakeIdentification(h) ==
    /\ handlers[h].phase = "identifying"
    /\ Becomes(h, [handlers[h] EXCEPT
                     !.phase = IF h \in HttpHandlers THEN "acting" ELSE "replying",
                     !.identification =
                         clients[handlers[h].uid].pending_agent_identification])
    /\ running' = IF h \in HttpHandlers THEN h ELSE LoopFree
    /\ UNCHANGED <<vars, human_in_loop, received, replied, vetted, addressed>>

\* Over a WebSocket the reply is then complete, and the handler awaits its sending.
TakeIdentification(h) ==
    LET uid == handlers[h].uid
        identification == clients[uid].pending_agent_identification
    IN  /\ handlers[h].phase = "identifying"
        /\ Becomes(h, [handlers[h] EXCEPT
                          !.phase = IF h \in HttpHandlers THEN "acting" ELSE "replying",
                          !.identification = identification])
        /\ running' = IF h \in HttpHandlers THEN h ELSE LoopFree
        /\ PopAgentIdentification(uid) \/ (identification = NoUid /\ UNCHANGED vars)
        /\ UNCHANGED <<human_in_loop, received, replied, vetted, addressed>>

\* The builder of PackageAvailable raises when the reply has no instance_uid.
CannotBuild(uid) ==
    /\ uid = Anonymous
    /\ clients[uid].next_actions # <<>>
    /\ Head(clients[uid].next_actions) = PackageAvailable

TakeNextAction(h) ==
    LET uid == handlers[h].uid
    IN  /\ handlers[h].phase = "acting"
        /\ PopNextAction(uid) \/ (clients[uid].next_actions = <<>> /\ UNCHANGED vars)
        /\ IF CannotBuild(uid)
           THEN running' = LoopFree /\ Becomes(h, IdleHandler)
           ELSE running' = h /\ Becomes(h, [handlers[h] EXCEPT !.phase = "replying"])
        /\ UNCHANGED <<human_in_loop, received, replied, vetted, addressed>>

\* Seeded error: the client is looked up by the key the message came with.
FaultyHolders(h) ==
    {id \in DOMAIN clients :
        /\ id = handlers[h].uid
        /\ \E i \in DOMAIN clients[id].commands :
              clients[id].commands[i] = handlers[h].command}

\* The handler looks its client up by the client_id of the record object, which
\* is the key that object is stored under now, and the command by identity.
Holders(h) ==
    {id \in DOMAIN clients :
        \E i \in DOMAIN clients[id].commands :
            clients[id].commands[i] = handlers[h].command}

Mark(h) ==
    IF handlers[h].command \in dispatching /\ Holders(h) # {}
    THEN \E id \in Holders(h) : MarkCommandSent(id, handlers[h].command)
    ELSE UNCHANGED vars

\* The reply goes out, and reaches the agent or not.  Over HTTP the command is
\* marked before that, over a WebSocket as soon as the sending has returned.
Reply(h) ==
    /\ handlers[h].phase = "replying"
    /\ h \in HttpHandlers \/ Idle
    /\ Mark(h)
    /\ replied' = replied \cup ({handlers[h].command} \ {NoCommand})
    /\ received' \in {received, received \cup ({handlers[h].identification} \ {NoUid})}
    /\ running' = LoopFree
    /\ Becomes(h, [IdleHandler EXCEPT
                     !.uid = IF h \in HttpHandlers THEN NoUid ELSE handlers[h].uid])
    /\ UNCHANGED <<human_in_loop, vetted, addressed>>

\* The WebSocket breaks, perhaps while a reply is being sent: nothing is marked.
Disconnect(h) ==
    /\ Idle
    /\ h \in WebSocketHandlers
    /\ handlers[h] # IdleHandler
    /\ Becomes(h, IdleHandler)
    /\ UNCHANGED <<vars, human_in_loop, running, received, replied, vetted, addressed>>

-----------------------------------------------------------------------------
(* Requests of operators and tools *)

\* Records that disappear have to be vetted again, those that appear are noted.
RecordsCreatedOrDropped ==
    /\ vetted' = vetted \cap DOMAIN clients'
    /\ addressed' = (addressed \cap DOMAIN clients') \cup (DOMAIN clients' \ DOMAIN clients)
    /\ UNCHANGED <<running, handlers, received, replied>>

OperatorRequest ==
    /\ Idle
    /\ OperatorStep \/ Housekeeping
    /\ RecordsCreatedOrDropped
    /\ UNCHANGED human_in_loop

\* tool_invoke_custom_command, in a worker thread.
ToolRequest ==
    /\ \E id \in Ids, action \in ToolActions : QueueCommand(id, action)
    /\ RecordsCreatedOrDropped
    /\ UNCHANGED human_in_loop

ApprovalDecision(id) ==
    /\ Idle
    /\ \/ ApprovePendingApproval(id) /\ vetted' = vetted \cup {id}
       \/ BlockAgent(id) /\ UNCHANGED vetted
    /\ UNCHANGED <<human_in_loop, running, handlers, received, replied, addressed>>

UpdateCommsSettings ==
    /\ Idle
    /\ human_in_loop' = ~human_in_loop
    /\ UNCHANGED <<vars, running, handlers, received, replied, vetted, addressed>>

-----------------------------------------------------------------------------
HandlerStep(h) ==
    \/ \E uid \in Claimable : Refuse(h, uid) \/ BeginStaging(h, uid)
    \/ Stage(h)
    \/ \E msg \in AgentToServer : msg.uid \in Claimable /\ Accept(h, msg)
    \/ TakeCommand(h)
    \/ TakeIdentification(h)
    \/ TakeNextAction(h)
    \/ Reply(h)
    \/ Disconnect(h)

EndpointNext ==
    \/ \E h \in Handlers : HandlerStep(h)
    \/ OperatorRequest
    \/ ToolRequest
    \/ \E id \in Ids : ApprovalDecision(id)
    \/ UpdateCommsSettings

EndpointSpec == EndpointInit /\ [][EndpointNext]_endpointVars

-----------------------------------------------------------------------------
(* What the endpoint promises *)

\* Type invariant.  What handlers hold comes from the store: a UID that an agent
\* can claim, a replacement UID that was popped.
EndpointTypeOK ==
    /\ human_in_loop \in BOOLEAN
    /\ running \in Handlers \cup {LoopFree}
    /\ handlers \in [Handlers -> Handler]
    /\ received \subseteq handed_out
    /\ \A h \in Handlers :
          /\ handlers[h].uid \in Presentable \cup {NoUid}
          /\ handlers[h].identification \in handed_out \cup {NoUid}
          /\ handlers[h].phase # "receiving" => handlers[h].uid # NoUid

\* The endpoint uses the store only as the store allows: each of its steps is
\* one method of the store, or none.
UsesStoreProperly == Spec

\* A command still queued is marked sent exactly when a reply carried it out,
\* although other handlers may move its record while the reply is being sent.
SentExactlyWhenReplied ==
    \A obj \in Owned : command_objects[obj].sent <=> obj \in replied

\* A replacement UID goes into one reply only, so two agents never adopt it.
IdentificationHandedOnce ==
    \A h \in Handlers :
        LET uid == handlers[h].identification
        IN  uid # NoUid =>
                /\ uid \notin received
                /\ \A other \in Handlers \ {h} : handlers[other].identification # uid
                /\ \A id \in DOMAIN clients : clients[id].pending_agent_identification # uid

\* Blocking decides: an agent that is blocked is not offered for approval.
BlockedNeverPending == blocked_agents \cap DOMAIN pending_approvals = {}

\* Nothing is prepared for an agent after it was blocked, whenever that happens.
NothingPreparedForBlocked ==
    \A h \in Handlers :
        handlers[h].phase \in {"taking", "identifying", "acting"} =>
            handlers[h].uid \notin blocked_agents \ {Anonymous}

Heard(id) == clients[id].message_id # MIN_INTEGER

\* A client the provider listens to was approved, was heard when no approval was
\* required, or owes its record to an operator's or a tool's request for its UID,
\* for which UnknownWaitForApproval is violated.  There is no other way in.
AdmittedForAReason ==
    \A id \in DOMAIN clients : Heard(id) => id \in vetted \cup addressed

\* "When `provider.human_in_loop_approval=true`, unknown agent UIDs are staged into
\* pending approval and rejected until explicitly approved" (docs/endpoints.md:82):
\* a client the provider listens to was approved, or was heard when no approval was
\* required.  (A request that names an unknown UID makes it known, state.py:570.)
UnknownWaitForApproval ==
    \A id \in DOMAIN clients : Heard(id) => id \in vetted
=============================================================================
