------------------------- MODULE OpampEndpointProofs -------------------------
(***************************************************************************)
(* Proofs about OpampEndpoint for every value of its constants: what the   *)
(* handlers hold is well formed, every step of the endpoint is a step of   *)
(* the store or none, so that the theorems about the store carry over, and *)
(* blocking an agent decides about it.                                     *)
(***************************************************************************)
EXTENDS OpampEndpoint, ClientStoreProofs

\* The part of EndpointTypeOK that speaks of the handlers' local variables.
LocalsOK ==
    /\ running \in Handlers \cup {LoopFree}
    /\ handlers \in [Handlers -> Handler]
    /\ received \subseteq handed_out
    /\ \A h \in Handlers :
          /\ handlers[h].uid \in Presentable \cup {NoUid}
          /\ handlers[h].identification \in handed_out \cup {NoUid}
          /\ handlers[h].phase # "receiving" => handlers[h].uid # NoUid

\* The inductive invariant of type correctness: the handlers' and the store's.
EndpointTypeInv == LocalsOK /\ human_in_loop \in BOOLEAN /\ TypeInv

-----------------------------------------------------------------------------
(* Every step of the endpoint is one of the store's, or none *)

LEMMA HandlerFields ==
  ASSUME EndpointTypeInv, NEW h \in Handlers
  PROVE  /\ handlers[h] \in Handler
         /\ handlers[h].uid \in Ids \cup {NoUid}
         /\ handlers[h].phase # "receiving" =>
                handlers[h].uid \in Ids /\ handlers[h].uid \in Presentable
BY DEF EndpointTypeInv, LocalsOK, Handler

LEMMA StageIsStoreStep ==
  ASSUME EndpointTypeInv, NEW h \in Handlers, Stage(h)
  PROVE  [Next]_vars
<1> DEFINE uid == handlers[h].uid
<1>1. uid \in Ids /\ uid \in Presentable
  BY HandlerFields DEF Stage
<1>2. CASE \E msg \in AgentToServer : msg.uid = uid /\ AddPendingApproval(msg)
  BY <1>1, <1>2 DEF Next, AgentMessage
<1>3. CASE BlockAgent(uid)
  BY <1>1, <1>3 DEF Next, ApprovalStep
<1> QED BY <1>2, <1>3 DEF Stage

LEMMA ReplyIsStoreStep ==
  ASSUME EndpointTypeInv, NEW h \in Handlers, Mark(h)
  PROVE  [Next]_vars
<1>1. Holders(h) \subseteq Ids
  BY DEF EndpointTypeInv, TypeInv, TypeOK, Maps, Holders
<1> QED BY <1>1 DEF Mark, Next, DispatchStep

LEMMA HandlerIsStoreStep ==
  ASSUME EndpointTypeInv, NEW h \in Handlers, HandlerStep(h)
  PROVE  [Next]_vars
<1>1. ASSUME NEW uid, Refuse(h, uid) \/ BeginStaging(h, uid) \/ Disconnect(h)
      PROVE  [Next]_vars
  BY <1>1 DEF Refuse, BeginStaging, Disconnect
<1>2. ASSUME NEW msg \in AgentToServer, msg.uid \in Claimable, Accept(h, msg)
      PROVE  [Next]_vars
  <2>1. msg.uid \in Presentable
    BY <1>2 DEF Claimable, Presentable, EndpointTypeInv, LocalsOK
  <2> QED BY <1>2, <2>1 DEF Accept, Next, AgentMessage
<1>3. CASE TakeCommand(h)
  <2>1. handlers[h].uid \in Ids
    BY <1>3, HandlerFields DEF TakeCommand
  <2> QED BY <1>3, <2>1 DEF TakeCommand, Next, DispatchStep
<1>4. CASE TakeIdentification(h)
  <2>1. handlers[h].uid \in Ids
    BY <1>4, HandlerFields DEF TakeIdentification
  <2> QED BY <1>4, <2>1 DEF TakeIdentification, Next, DispatchStep
<1>5. CASE TakeNextAction(h)
  <2>1. handlers[h].uid \in Ids
    BY <1>5, HandlerFields DEF TakeNextAction
  <2> QED BY <1>5, <2>1 DEF TakeNextAction, Next, DispatchStep
<1> QED BY <1>1, <1>2, <1>3, <1>4, <1>5, StageIsStoreStep, ReplyIsStoreStep
        DEF HandlerStep, Reply

LEMMA EndpointStepIsStoreStep ==
  EndpointTypeInv /\ [EndpointNext]_endpointVars => [Next]_vars
<1> SUFFICES ASSUME EndpointTypeInv, [EndpointNext]_endpointVars PROVE [Next]_vars
  OBVIOUS
<1>1. CASE \E h \in Handlers : HandlerStep(h)
  BY <1>1, HandlerIsStoreStep
<1>2. CASE OperatorRequest
  BY <1>2 DEF OperatorRequest, Next
<1>3. CASE ToolRequest
  BY <1>3, HandlersAssumption DEF ToolRequest, Next, OperatorStep
<1>4. CASE \E id \in Ids : ApprovalDecision(id)
  BY <1>4 DEF ApprovalDecision, Next, ApprovalStep
<1>5. CASE UpdateCommsSettings
  BY <1>5 DEF UpdateCommsSettings
<1>6. CASE UNCHANGED endpointVars
  BY <1>6 DEF endpointVars
<1> QED BY <1>1, <1>2, <1>3, <1>4, <1>5, <1>6 DEF EndpointNext

-----------------------------------------------------------------------------
(* Type correctness *)

\* A replacement UID, once handed out, stays so.
LEMMA HandedOutGrows == [Next]_vars => handed_out \subseteq handed_out'
<1> SUFFICES ASSUME [Next]_vars PROVE handed_out \subseteq handed_out'
  OBVIOUS
<1>1. CASE AgentMessage
  BY <1>1 DEF AgentMessage, UpsertFromAgentMsg, AddPendingApproval
<1>2. CASE DispatchStep
  BY <1>2 DEF DispatchStep, NextPendingCommand, MarkCommandSent, PopNextAction,
              PopAgentIdentification, Rewrite
<1>3. CASE OperatorStep \/ ReservedStep
  BY <1>3 DEF OperatorStep, ReservedStep, QueueForceResync, QueueCommand,
              SetRequestedConfig, SetNextActions, AddEvent,
              SetClientHeartbeatFrequency, Rewrite, RemoveClient,
              SetAgentIdentification, SetDefaultHeartbeatFrequency
<1>4. CASE ApprovalStep \/ Housekeeping
  BY <1>4 DEF ApprovalStep, ApprovePendingApproval, BlockAgent, Housekeeping,
              PurgeDisconnected
<1>5. CASE UNCHANGED vars
  BY <1>5 DEF vars
<1> QED BY <1>1, <1>2, <1>3, <1>4, <1>5 DEF Next

\* A handler's step leaves the locals well formed if the new locals are.
LEMMA LocalsAfter ==
  ASSUME EndpointTypeInv, handed_out \subseteq handed_out',
         NEW h \in Handlers, NEW local \in Handler, Becomes(h, local),
         local.uid \in Presentable \cup {NoUid},
         local.identification \in handed_out' \cup {NoUid},
         local.phase # "receiving" => local.uid # NoUid,
         running' \in Handlers \cup {LoopFree},
         received' \subseteq handed_out'
  PROVE  LocalsOK'
<1>1. /\ handlers' \in [Handlers -> Handler]
      /\ handlers'[h] = local
      /\ \A other \in Handlers \ {h} : handlers'[other] = handlers[other]
  BY DEF Becomes, EndpointTypeInv, LocalsOK
<1>2. Presentable \subseteq Presentable'
  BY DEF Presentable
<1>3. ASSUME NEW other \in Handlers
      PROVE  /\ handlers'[other].uid \in Presentable' \cup {NoUid}
             /\ handlers'[other].identification \in handed_out' \cup {NoUid}
             /\ handlers'[other].phase # "receiving" => handlers'[other].uid # NoUid
  BY <1>1, <1>2 DEF EndpointTypeInv, LocalsOK
<1> QED BY <1>1, <1>3 DEF LocalsOK

LEMMA LocalsUnchanged ==
  ASSUME EndpointTypeInv, handed_out \subseteq handed_out',
         UNCHANGED <<running, handlers, received>>
  PROVE  LocalsOK'
BY DEF EndpointTypeInv, LocalsOK, Presentable

\* What TakeCommand takes is a position in command_objects.
LEMMA QueuedIsPosition ==
  ASSUME TypeInv, NEW id \in DOMAIN clients, NEW i \in FirstUnsent(clients[id], command_objects)
  PROVE  clients[id].commands[i] \in Nat
<1>1. clients[id] \in ClientRecord
  BY DEF TypeInv, TypeOK, Maps
<1>2. i \in DOMAIN clients[id].commands
  BY DEF FirstUnsent, UnsentPositions
<1> QED BY <1>1, <1>2 DEF ClientRecord

LEMMA IdleHandlerTyped ==
  /\ IdleHandler \in Handler
  /\ IdleHandler.uid = NoUid
  /\ IdleHandler.identification = NoUid
  /\ IdleHandler.phase = "receiving"
BY DEF IdleHandler, Handler, NoCommand

LEMMA HandlerKeepsLocals ==
  ASSUME EndpointTypeInv, NEW h \in Handlers, HandlerStep(h),
         handed_out \subseteq handed_out'
  PROVE  LocalsOK' /\ human_in_loop' \in BOOLEAN
<1>0. /\ handlers[h] \in Handler
      /\ handlers[h].uid \in Presentable \cup {NoUid}
      /\ handlers[h].identification \in handed_out \cup {NoUid}
      /\ received \subseteq handed_out
      /\ running \in Handlers \cup {LoopFree}
      /\ human_in_loop \in BOOLEAN
  BY DEF EndpointTypeInv, LocalsOK
<1>1. human_in_loop' \in BOOLEAN
  BY <1>0 DEF HandlerStep, Refuse, BeginStaging, Stage, Accept, TakeCommand,
              TakeIdentification, TakeNextAction, Reply, Disconnect
<1> SUFFICES LocalsOK'
  BY <1>1
<1>2. ASSUME Becomes(h, IdleHandler), running' \in Handlers \cup {LoopFree},
             received' = received
      PROVE  LocalsOK'
  BY <1>0, <1>2, IdleHandlerTyped, LocalsAfter
<1>3. ASSUME NEW uid \in Claimable, Refuse(h, uid) PROVE LocalsOK'
  BY <1>0, <1>2, <1>3 DEF Refuse
<1>4. ASSUME NEW uid \in Claimable, BeginStaging(h, uid) PROVE LocalsOK'
  <2> DEFINE local == [IdleHandler EXCEPT !.phase = "staging", !.uid = uid]
  <2>1. uid \in Presentable /\ uid \in Ids /\ uid # NoUid
    BY <1>0, <1>4, ConstantsAssumption
       DEF Claimable, Presentable, EndpointTypeInv, TypeInv, TypeOK, Ids
  <2>2. local \in Handler /\ local.uid = uid /\ local.identification = NoUid
    BY <2>1 DEF IdleHandler, Handler, NoCommand
  <2>3. Becomes(h, local) /\ running' = h /\ received' = received
    BY <1>4 DEF BeginStaging
  <2> HIDE DEF local
  <2> QED BY <1>0, <2>1, <2>2, <2>3, LocalsAfter
<1>5. CASE Stage(h)
  BY <1>2, <1>5 DEF Stage
<1>6. ASSUME NEW msg \in AgentToServer, msg.uid \in Claimable, Accept(h, msg)
      PROVE  LocalsOK'
  <2> DEFINE local == [IdleHandler EXCEPT !.phase = "taking", !.uid = msg.uid]
  <2>1. msg.uid \in Presentable /\ msg.uid \in Ids /\ msg.uid # NoUid
    BY <1>0, <1>6, ConstantsAssumption
       DEF Claimable, Presentable, EndpointTypeInv, TypeInv, TypeOK, Ids
  <2>2. local \in Handler /\ local.uid = msg.uid /\ local.identification = NoUid
    BY <2>1 DEF IdleHandler, Handler, NoCommand
  <2>3. Becomes(h, local) /\ running' = h /\ received' = received
    BY <1>6 DEF Accept
  <2> HIDE DEF local
  <2> QED BY <1>0, <2>1, <2>2, <2>3, LocalsAfter
<1>7. CASE TakeCommand(h)
  <2> DEFINE uid == handlers[h].uid
  <2>1. uid # NoUid /\ running' = running /\ received' = received
    BY <1>7 DEF TakeCommand, EndpointTypeInv, LocalsOK
  <2>2. CASE /\ NextPendingCommand(uid)
             /\ \E i \in FirstUnsent(clients[uid], command_objects) :
                   Becomes(h, [handlers[h] EXCEPT
                                  !.phase = "identifying",
                                  !.command = clients[uid].commands[i]])
    <3>1. PICK i \in FirstUnsent(clients[uid], command_objects) :
             Becomes(h, [handlers[h] EXCEPT
                            !.phase = "identifying",
                            !.command = clients[uid].commands[i]])
      BY <2>2
    <3>2. clients[uid].commands[i] \in Nat
      BY <2>2, QueuedIsPosition DEF NextPendingCommand, EndpointTypeInv
    <3> DEFINE local == [handlers[h] EXCEPT !.phase = "identifying",
                                            !.command = clients[uid].commands[i]]
    <3>3. /\ local \in Handler
          /\ local.uid = uid
          /\ local.identification = handlers[h].identification
      BY <1>0, <3>2 DEF Handler
    <3>4. Becomes(h, local)
      BY <3>1
    <3> HIDE DEF local
    <3> QED BY <1>0, <2>1, <3>3, <3>4, LocalsAfter
  <2>3. CASE Becomes(h, [handlers[h] EXCEPT !.phase = "identifying"])
    <3> DEFINE local == [handlers[h] EXCEPT !.phase = "identifying"]
    <3>1. /\ local \in Handler
          /\ local.uid = uid
          /\ local.identification = handlers[h].identification
      BY <1>0 DEF Handler
    <3>2. Becomes(h, local)
      BY <2>3
    <3> HIDE DEF local
    <3> QED BY <1>0, <2>1, <3>1, <3>2, LocalsAfter
  <2> QED BY <1>7, <2>2, <2>3 DEF TakeCommand
<1>8. CASE TakeIdentification(h)
  <2> DEFINE uid == handlers[h].uid
             identification == clients[uid].pending_agent_identification
             phase == IF h \in HttpHandlers THEN "acting" ELSE "replying"
             local == [handlers[h] EXCEPT !.phase = phase,
                                          !.identification = identification]
  <2>1. /\ uid # NoUid /\ received' = received
        /\ running' \in Handlers \cup {LoopFree}
        /\ Becomes(h, local)
    BY <1>8 DEF TakeIdentification, EndpointTypeInv, LocalsOK
  <2>2. identification \in handed_out' \cup {NoUid}
    BY <1>8 DEF TakeIdentification, PopAgentIdentification
  <2>3. handed_out' \subseteq Ids
    BY <1>8 DEF TakeIdentification, PopAgentIdentification, vars, EndpointTypeInv,
                TypeInv, TypeOK, Maps, ClientRecord, Ids
  <2>4. /\ local \in Handler
        /\ local.uid = uid
        /\ local.identification = identification
    BY <1>0, <2>2, <2>3 DEF Handler
  <2> HIDE DEF local
  <2> QED BY <1>0, <2>1, <2>2, <2>4, LocalsAfter
<1>9. CASE TakeNextAction(h)
  <2>1. received' = received
    BY <1>9 DEF TakeNextAction
  <2>2. CASE running' = LoopFree /\ Becomes(h, IdleHandler)
    BY <1>2, <2>1, <2>2
  <2>3. CASE running' = h /\ Becomes(h, [handlers[h] EXCEPT !.phase = "replying"])
    <3> DEFINE local == [handlers[h] EXCEPT !.phase = "replying"]
    <3>1. /\ local \in Handler
          /\ local.uid = handlers[h].uid
          /\ local.identification = handlers[h].identification
      BY <1>0 DEF Handler
    <3>2. Becomes(h, local) /\ handlers[h].uid # NoUid
      BY <1>9, <2>3 DEF TakeNextAction, EndpointTypeInv, LocalsOK
    <3> HIDE DEF local
    <3> QED BY <1>0, <2>1, <2>3, <3>1, <3>2, LocalsAfter
  <2> QED BY <1>9, <2>2, <2>3 DEF TakeNextAction
<1>10. CASE Reply(h)
  <2> DEFINE uid == IF h \in HttpHandlers THEN NoUid ELSE handlers[h].uid
             local == [IdleHandler EXCEPT !.uid = uid]
  <2>1. /\ local \in Handler
        /\ local.uid \in Presentable \cup {NoUid}
        /\ local.identification = NoUid
        /\ local.phase = "receiving"
    BY <1>0 DEF IdleHandler, Handler, NoCommand
  <2>2. Becomes(h, local) /\ running' = LoopFree
    BY <1>10 DEF Reply
  <2>3. received' \subseteq handed_out'
    BY <1>0, <1>10 DEF Reply
  <2> HIDE DEF local
  <2> QED BY <2>1, <2>2, <2>3, LocalsAfter
<1>11. CASE Disconnect(h)
  BY <1>0, <1>2, <1>11 DEF Disconnect
<1> QED BY <1>3, <1>4, <1>5, <1>6, <1>7, <1>8, <1>9, <1>10, <1>11 DEF HandlerStep

LEMMA EndpointTypeInvStep ==
  EndpointTypeInv /\ [EndpointNext]_endpointVars => EndpointTypeInv'
<1> SUFFICES ASSUME EndpointTypeInv, [EndpointNext]_endpointVars PROVE EndpointTypeInv'
  OBVIOUS
<1>1. [Next]_vars /\ handed_out \subseteq handed_out'
  BY EndpointStepIsStoreStep, HandedOutGrows
<1>2. TypeInv'
  BY <1>1, TypeInvStep DEF EndpointTypeInv
<1>3. CASE \E h \in Handlers : HandlerStep(h)
  BY <1>1, <1>2, <1>3, HandlerKeepsLocals DEF EndpointTypeInv
<1>4. CASE OperatorRequest \/ ToolRequest \/ (\E id \in Ids : ApprovalDecision(id))
           \/ UpdateCommsSettings
  <2>1. UNCHANGED <<running, handlers, received>> /\ human_in_loop' \in BOOLEAN
    BY <1>4 DEF OperatorRequest, ToolRequest, RecordsCreatedOrDropped,
                ApprovalDecision, UpdateCommsSettings, EndpointTypeInv
  <2> QED BY <1>1, <1>2, <2>1, LocalsUnchanged DEF EndpointTypeInv
<1>5. CASE UNCHANGED endpointVars
  <2>1. UNCHANGED <<running, handlers, received, human_in_loop>>
    BY <1>5 DEF endpointVars, endpoint
  <2> QED BY <1>1, <1>2, <2>1, LocalsUnchanged DEF EndpointTypeInv
<1> QED BY <1>3, <1>4, <1>5 DEF EndpointNext

LEMMA EndpointTypeInvHolds == EndpointSpec => []EndpointTypeInv
<1>1. EndpointInit => EndpointTypeInv
  <2> SUFFICES ASSUME EndpointInit PROVE EndpointTypeInv
    OBVIOUS
  <2>1. LocalsOK
    BY IdleHandlerTyped DEF EndpointInit, LocalsOK
  <2> QED BY <2>1, InitTyped DEF EndpointInit, EndpointTypeInv
<1> QED BY <1>1, EndpointTypeInvStep, PTL DEF EndpointSpec

\* What a handler holds is a UID some agent can claim, a replacement UID that
\* the store handed out, and a command: for any number of agents and handlers.
THEOREM EndpointTypeCorrect == EndpointSpec => []EndpointTypeOK
<1>1. EndpointTypeInv => EndpointTypeOK
  BY DEF EndpointTypeInv, LocalsOK, EndpointTypeOK
<1> QED BY <1>1, EndpointTypeInvHolds, PTL

\* The endpoint implements the store's specification: between two awaits it
\* calls the store's methods one at a time, each where the store allows it.
THEOREM EndpointUsesStoreProperly == EndpointSpec => UsesStoreProperly
<1>1. EndpointInit => Init
  BY DEF EndpointInit
<1>2. EndpointSpec => Spec
  BY <1>1, EndpointTypeInvHolds, EndpointStepIsStoreStep, PTL DEF EndpointSpec, Spec
<1> QED BY <1>2 DEF UsesStoreProperly

\* Hence commands keep their one owner and their order under the real handlers.
THEOREM EndpointQueuesCorrect == EndpointSpec => []QueueInvariant
BY EndpointUsesStoreProperly, QueuesCorrect, PTL DEF UsesStoreProperly

-----------------------------------------------------------------------------
(* Blocking *)

Preparing(h) == handlers[h].phase \in {"staging", "taking", "identifying", "acting"}

\* Inductive: a handler that has decided to serve or stage an agent keeps the
\* event loop until it is done with the store, so no decision to block that
\* agent can come in between.
AdmissionInv ==
    /\ \A h \in Handlers :
          /\ Preparing(h) \/ (h \in HttpHandlers /\ handlers[h].phase = "replying")
                => running = h
          /\ Preparing(h) => handlers[h].uid \notin blocked_agents \ {Anonymous}
          /\ handlers[h].phase = "staging" => handlers[h].uid # Anonymous
    /\ BlockedNeverPending

LEMMA HandlerAfter ==
  ASSUME handlers \in [Handlers -> Handler], NEW h \in Handlers, NEW local, Becomes(h, local)
  PROVE  /\ handlers'[h] = local
         /\ \A other \in Handlers \ {h} : handlers'[other] = handlers[other]
BY DEF Becomes

\* Only one handler has the event loop.
LEMMA AdmissionAfter ==
  ASSUME handlers \in [Handlers -> Handler], AdmissionInv,
         NEW h \in Handlers, running \in {h, LoopFree},
         NEW local, Becomes(h, local),
         local.phase \in {"staging", "taking", "identifying", "acting"}
             \/ (h \in HttpHandlers /\ local.phase = "replying") => running' = h,
         local.phase \in {"staging", "taking", "identifying", "acting"}
             => local.uid \notin blocked_agents' \ {Anonymous},
         local.phase = "staging" => local.uid # Anonymous,
         BlockedNeverPending'
  PROVE  AdmissionInv'
<1>1. ASSUME NEW other \in Handlers \ {h}
      PROVE  /\ handlers[other] = handlers'[other]
             /\ ~Preparing(other)
             /\ ~(other \in HttpHandlers /\ handlers[other].phase = "replying")
  BY <1>1, HandlerAfter, HandlersAssumption DEF AdmissionInv
<1>2. handlers'[h] = local
  BY HandlerAfter
<1> QED BY <1>1, <1>2 DEF AdmissionInv, Preparing

\* What AddPendingApproval, BlockAgent and the others do to the pending UIDs.
LEMMA PendingDomain ==
  /\ \A msg : AddPendingApproval(msg) =>
        DOMAIN pending_approvals' = DOMAIN pending_approvals \cup {msg.uid}
  /\ \A id : RemoveClient(id) \/ ApprovePendingApproval(id) \/ BlockAgent(id) =>
        DOMAIN pending_approvals' = DOMAIN pending_approvals \ {id}
<1>1. ASSUME NEW msg, AddPendingApproval(msg)
      PROVE  DOMAIN pending_approvals' = DOMAIN pending_approvals \cup {msg.uid}
  BY <1>1 DEF AddPendingApproval, Stored
<1>2. ASSUME NEW id, RemoveClient(id) \/ ApprovePendingApproval(id) \/ BlockAgent(id)
      PROVE  DOMAIN pending_approvals' = DOMAIN pending_approvals \ {id}
  <2>1. pending_approvals' = Without(pending_approvals, {id})
    BY <1>2 DEF RemoveClient, ApprovePendingApproval, BlockAgent
  <2> QED BY <2>1, WithoutIsRemoval
<1> QED BY <1>1, <1>2

LEMMA RequestsKeepBlocked ==
  ASSUME OperatorStep \/ Housekeeping
  PROVE  blocked_agents' = blocked_agents /\ DOMAIN pending_approvals' \subseteq DOMAIN pending_approvals
<1>1. CASE \E id \in Ids : RemoveClient(id)
  BY <1>1, PendingDomain DEF RemoveClient
<1>2. CASE UNCHANGED <<blocked_agents, pending_approvals>>
  BY <1>2
<1> QED BY <1>1, <1>2
        DEF OperatorStep, Housekeeping, PurgeDisconnected, QueueCommand, SetRequestedConfig,
            SetNextActions, SetClientHeartbeatFrequency, Rewrite, SetAgentIdentification,
            SetDefaultHeartbeatFrequency

LEMMA HandlerKeepsAdmission ==
  ASSUME handlers \in [Handlers -> Handler], running \in Handlers \cup {LoopFree},
         AdmissionInv, NEW h \in Handlers, HandlerStep(h)
  PROVE  AdmissionInv'
<1>1. ASSUME NEW uid, Refuse(h, uid) PROVE AdmissionInv'
  BY <1>1, AdmissionAfter, IdleHandlerTyped
     DEF Refuse, Idle, vars, AdmissionInv, BlockedNeverPending
<1>2. ASSUME NEW uid, BeginStaging(h, uid) PROVE AdmissionInv'
  <2> DEFINE local == [IdleHandler EXCEPT !.phase = "staging", !.uid = uid]
  <2>1. local.phase = "staging" /\ local.uid = uid
    BY DEF IdleHandler
  <2>2. Becomes(h, local) /\ running' = h /\ running = LoopFree
    BY <1>2 DEF BeginStaging, Idle
  <2>3. uid \notin blocked_agents' /\ uid # Anonymous /\ BlockedNeverPending'
    BY <1>2 DEF BeginStaging, Blocked, vars, AdmissionInv, BlockedNeverPending
  <2> HIDE DEF local
  <2> QED BY <2>1, <2>2, <2>3, AdmissionAfter
<1>3. CASE Stage(h)
  <2> DEFINE uid == handlers[h].uid
  <2>1. uid \notin blocked_agents /\ running = h
    BY <1>3 DEF Stage, AdmissionInv, Preparing
  <2>2. BlockedNeverPending'
    <3>1. ASSUME NEW msg, msg.uid = uid, AddPendingApproval(msg) PROVE BlockedNeverPending'
      BY <2>1, <3>1, PendingDomain DEF AddPendingApproval, AdmissionInv, BlockedNeverPending
    <3>2. CASE BlockAgent(uid)
      BY <3>2, PendingDomain DEF BlockAgent, AdmissionInv, BlockedNeverPending
    <3>3. CASE UNCHANGED vars
      BY <3>3 DEF vars, AdmissionInv, BlockedNeverPending
    <3> QED BY <1>3, <3>1, <3>2, <3>3 DEF Stage
  <2> QED BY <1>3, <2>1, <2>2, AdmissionAfter, IdleHandlerTyped DEF Stage
<1>4. ASSUME NEW msg, Accept(h, msg) PROVE AdmissionInv'
  <2> DEFINE local == [IdleHandler EXCEPT !.phase = "taking", !.uid = msg.uid]
  <2>1. local.phase = "taking" /\ local.uid = msg.uid
    BY DEF IdleHandler
  <2>2. Becomes(h, local) /\ running' = h /\ running = LoopFree
    BY <1>4 DEF Accept, Idle
  <2>3. msg.uid \notin blocked_agents' \ {Anonymous} /\ BlockedNeverPending'
    BY <1>4 DEF Accept, Blocked, UpsertFromAgentMsg, AdmissionInv, BlockedNeverPending
  <2> HIDE DEF local
  <2> QED BY <2>1, <2>2, <2>3, AdmissionAfter
<1>5. CASE TakeCommand(h)
  <2>1. /\ running = h /\ running' = h
        /\ handlers[h].uid \notin blocked_agents \ {Anonymous}
    BY <1>5 DEF TakeCommand, AdmissionInv, Preparing
  <2>2. UNCHANGED <<blocked_agents, pending_approvals>>
    BY <1>5 DEF TakeCommand, NextPendingCommand, vars
  <2>3. BlockedNeverPending'
    BY <2>2 DEF AdmissionInv, BlockedNeverPending
  <2>4. PICK local : /\ Becomes(h, local)
                     /\ local.phase = "identifying"
                     /\ local.uid = handlers[h].uid
    <3>1. ASSUME NEW command
          PROVE  LET local == [handlers[h] EXCEPT !.phase = "identifying", !.command = command]
                 IN  local.phase = "identifying" /\ local.uid = handlers[h].uid
      BY DEF Handler
    <3>2. CASE \E command : Becomes(h, [handlers[h] EXCEPT !.phase = "identifying",
                                                           !.command = command])
      BY <3>1, <3>2
    <3>3. CASE Becomes(h, [handlers[h] EXCEPT !.phase = "identifying"])
      <4>1. LET local == [handlers[h] EXCEPT !.phase = "identifying"]
            IN  local.phase = "identifying" /\ local.uid = handlers[h].uid
        BY DEF Handler
      <4> QED BY <3>3, <4>1
    <3> QED BY <1>5, <3>2, <3>3 DEF TakeCommand
  <2> QED BY <2>1, <2>2, <2>3, <2>4, AdmissionAfter
<1>6. CASE TakeIdentification(h)
  <2> DEFINE local == [handlers[h] EXCEPT
                          !.phase = IF h \in HttpHandlers THEN "acting" ELSE "replying",
                          !.identification =
                              clients[handlers[h].uid].pending_agent_identification]
  <2>1. /\ running = h
        /\ h \in HttpHandlers => running' = h
        /\ handlers[h].uid \notin blocked_agents \ {Anonymous}
    BY <1>6 DEF TakeIdentification, AdmissionInv, Preparing
  <2>2. UNCHANGED <<blocked_agents, pending_approvals>>
    BY <1>6 DEF TakeIdentification, PopAgentIdentification, vars
  <2>3. BlockedNeverPending'
    BY <2>2 DEF AdmissionInv, BlockedNeverPending
  <2>4. Becomes(h, local)
    BY <1>6 DEF TakeIdentification
  <2>5. /\ local.uid = handlers[h].uid
        /\ local.phase = IF h \in HttpHandlers THEN "acting" ELSE "replying"
    BY DEF Handler
  <2> HIDE DEF local
  <2> QED BY <2>1, <2>2, <2>3, <2>4, <2>5, AdmissionAfter
<1>7. CASE TakeNextAction(h)
  <2>1. running = h
    BY <1>7 DEF TakeNextAction, AdmissionInv, Preparing
  <2>2. BlockedNeverPending'
    BY <1>7 DEF TakeNextAction, PopNextAction, Rewrite, vars, AdmissionInv,
                BlockedNeverPending
  <2>3. PICK local : /\ Becomes(h, local)
                     /\ local.phase \in {"receiving", "replying"}
                     /\ local.phase = "replying" => running' = h
    BY <1>7, IdleHandlerTyped DEF TakeNextAction, Handler
  <2> QED BY <2>1, <2>2, <2>3, AdmissionAfter
<1>8. CASE Reply(h)
  <2>1. running \in {h, LoopFree}
    BY <1>8 DEF Reply, AdmissionInv, Idle
  <2>2. BlockedNeverPending'
    BY <1>8 DEF Reply, Mark, MarkCommandSent, vars, AdmissionInv, BlockedNeverPending
  <2>3. PICK local : Becomes(h, local) /\ local.phase = "receiving"
    BY <1>8 DEF Reply, IdleHandler
  <2> QED BY <2>1, <2>2, <2>3, AdmissionAfter
<1>9. CASE Disconnect(h)
  BY <1>9, AdmissionAfter, IdleHandlerTyped
     DEF Disconnect, Idle, vars, AdmissionInv, BlockedNeverPending
<1> QED BY <1>1, <1>2, <1>3, <1>4, <1>5, <1>6, <1>7, <1>8, <1>9 DEF HandlerStep

LEMMA AdmissionStep ==
  EndpointTypeInv /\ AdmissionInv /\ [EndpointNext]_endpointVars => AdmissionInv'
<1> SUFFICES ASSUME EndpointTypeInv, AdmissionInv, [EndpointNext]_endpointVars
             PROVE  AdmissionInv'
  OBVIOUS
<1>0. handlers \in [Handlers -> Handler] /\ running \in Handlers \cup {LoopFree}
  BY DEF EndpointTypeInv, LocalsOK
<1>1. CASE \E h \in Handlers : HandlerStep(h)
  BY <1>0, <1>1, HandlerKeepsAdmission
<1>2. CASE OperatorRequest \/ ToolRequest
  <2>1. UNCHANGED <<handlers, running>>
    BY <1>2 DEF OperatorRequest, ToolRequest, RecordsCreatedOrDropped
  <2>2. /\ blocked_agents' = blocked_agents
        /\ DOMAIN pending_approvals' \subseteq DOMAIN pending_approvals
    BY <1>2, RequestsKeepBlocked DEF OperatorRequest, ToolRequest, QueueCommand
  <2> QED BY <2>1, <2>2 DEF AdmissionInv, Preparing, BlockedNeverPending
<1>3. ASSUME NEW id \in Ids, ApprovalDecision(id) PROVE AdmissionInv'
  <2>1. UNCHANGED <<handlers, running>> /\ running = LoopFree
    BY <1>3 DEF ApprovalDecision, Idle
  <2>2. \A h \in Handlers : ~Preparing(h)
    BY <2>1, HandlersAssumption DEF AdmissionInv
  <2>3. BlockedNeverPending'
    BY <1>3, PendingDomain
       DEF ApprovalDecision, ApprovePendingApproval, BlockAgent, AdmissionInv,
           BlockedNeverPending
  <2> QED BY <2>1, <2>2, <2>3 DEF AdmissionInv, Preparing
<1>4. CASE UpdateCommsSettings
  BY <1>4 DEF UpdateCommsSettings, vars, AdmissionInv, Preparing, BlockedNeverPending
<1>5. CASE UNCHANGED endpointVars
  BY <1>5 DEF endpointVars, endpoint, vars, AdmissionInv, Preparing, BlockedNeverPending
<1> QED BY <1>1, <1>2, <1>3, <1>4, <1>5 DEF EndpointNext

LEMMA AdmissionHolds == EndpointSpec => []AdmissionInv
<1>1. EndpointInit => AdmissionInv
  BY DEF EndpointInit, Init, AdmissionInv, Preparing, IdleHandler, BlockedNeverPending
<1> QED BY <1>1, EndpointTypeInvHolds, AdmissionStep, PTL DEF EndpointSpec

\* An agent that is blocked is never offered for approval again, although its
\* message may be in the middle of being staged when the decision is made.
THEOREM BlockedNeverPendingAlways == EndpointSpec => []BlockedNeverPending
<1>1. AdmissionInv => BlockedNeverPending
  BY DEF AdmissionInv
<1> QED BY <1>1, AdmissionHolds, PTL

\* Nothing is prepared for an agent after it was blocked.
THEOREM NothingPreparedForBlockedAlways == EndpointSpec => []NothingPreparedForBlocked
<1>1. AdmissionInv => NothingPreparedForBlocked
  BY DEF AdmissionInv, NothingPreparedForBlocked, Preparing
<1> QED BY <1>1, AdmissionHolds, PTL

-----------------------------------------------------------------------------
(* Commands are marked sent when a reply carries them, and only then *)

\* Inductive: a command that a handler carries is still taken, or someone has
\* sent it already.
CarriedInv ==
    /\ replied \subseteq DOMAIN command_objects
    /\ \A h \in Handlers : handlers[h].command # NoCommand =>
          /\ handlers[h].command \in DOMAIN command_objects
          /\ \/ handlers[h].command \in dispatching
             \/ command_objects[handlers[h].command].sent

SentInv == CarriedInv /\ SentExactlyWhenReplied

\* The command that a handler carries after a step of its own.
LEMMA CarriedAfter ==
  ASSUME EndpointTypeInv, NEW h \in Handlers, HandlerStep(h)
  PROVE  /\ \A other \in Handlers \ {h} : handlers'[other] = handlers[other]
         /\ \/ handlers'[h].command \in {NoCommand, handlers[h].command}
            \/ handlers'[h].command \in dispatching'
<1>0. handlers \in [Handlers -> Handler] /\ handlers[h] \in Handler
  BY DEF EndpointTypeInv, LocalsOK
<1>1. ASSUME NEW local, Becomes(h, local),
             \/ local.command \in {NoCommand, handlers[h].command}
             \/ local.command \in dispatching'
      PROVE  /\ \A other \in Handlers \ {h} : handlers'[other] = handlers[other]
             /\ \/ handlers'[h].command \in {NoCommand, handlers[h].command}
                \/ handlers'[h].command \in dispatching'
  BY <1>0, <1>1, HandlerAfter
<1>2. IdleHandler.command = NoCommand
  BY DEF IdleHandler
<1>4. ASSUME NEW uid, Refuse(h, uid) \/ BeginStaging(h, uid)
      PROVE  /\ \A other \in Handlers \ {h} : handlers'[other] = handlers[other]
             /\ handlers'[h].command = NoCommand
  <2>1. CASE Refuse(h, uid)
    BY <1>0, <1>2, <2>1, HandlerAfter DEF Refuse
  <2>2. CASE BeginStaging(h, uid)
    BY <1>0, <2>2 DEF BeginStaging, Becomes, IdleHandler
  <2> QED BY <1>4, <2>1, <2>2
<1>5. CASE Stage(h) \/ Disconnect(h)
  BY <1>1, <1>2, <1>5 DEF Stage, Disconnect
<1>6. ASSUME NEW msg, Accept(h, msg)
      PROVE  /\ \A other \in Handlers \ {h} : handlers'[other] = handlers[other]
             /\ handlers'[h].command = NoCommand
  BY <1>0, <1>6 DEF Accept, Becomes, IdleHandler
<1>7. CASE TakeCommand(h)
  <2> DEFINE uid == handlers[h].uid
  <2>1. CASE /\ NextPendingCommand(uid)
             /\ \E i \in FirstUnsent(clients[uid], command_objects) :
                   Becomes(h, [handlers[h] EXCEPT
                                  !.phase = "identifying",
                                  !.command = clients[uid].commands[i]])
    <3>1. PICK i \in FirstUnsent(clients[uid], command_objects) :
             Becomes(h, [handlers[h] EXCEPT
                            !.phase = "identifying",
                            !.command = clients[uid].commands[i]])
      BY <2>1
    <3>2. PICK j \in FirstUnsent(clients[uid], command_objects) :
             dispatching' = dispatching \cup {clients[uid].commands[j]}
      BY <2>1 DEF NextPendingCommand
    <3>3. i = j
      <4>1. DOMAIN clients[uid].commands \subseteq Nat
        BY <2>1 DEF NextPendingCommand, EndpointTypeInv, TypeInv, TypeOK, Maps, ClientRecord
      <4>2. i \in Nat /\ j \in Nat /\ i <= j /\ j <= i
        BY <3>1, <3>2, <4>1 DEF FirstUnsent, UnsentPositions
      <4> QED BY <4>2
    <3>4. handlers'[h].command = clients[uid].commands[i]
      BY <1>0, <3>1 DEF Becomes, Handler
    <3>6. handlers'[h].command \in dispatching'
      BY <3>2, <3>3, <3>4
    <3>5. \A other \in Handlers \ {h} : handlers'[other] = handlers[other]
      BY <1>0, <3>1 DEF Becomes
    <3> QED BY <3>5, <3>6
  <2>2. CASE Becomes(h, [handlers[h] EXCEPT !.phase = "identifying"])
    <3>1. [handlers[h] EXCEPT !.phase = "identifying"].command = handlers[h].command
      BY <1>0 DEF Handler
    <3> QED BY <1>1, <2>2, <3>1
  <2> QED BY <1>7, <2>1, <2>2 DEF TakeCommand
<1>8. CASE TakeIdentification(h)
  <2>1. \A phase, identification :
           [handlers[h] EXCEPT !.phase = phase, !.identification = identification].command
              = handlers[h].command
    BY <1>0 DEF Handler
  <2> QED BY <1>1, <1>8, <2>1 DEF TakeIdentification
<1>9. CASE TakeNextAction(h)
  <2>1. [handlers[h] EXCEPT !.phase = "replying"].command = handlers[h].command
    BY <1>0 DEF Handler
  <2> QED BY <1>1, <1>2, <1>9, <2>1 DEF TakeNextAction
<1>10. CASE Reply(h)
  <2>1. \A uid : [IdleHandler EXCEPT !.uid = uid].command = NoCommand
    BY DEF IdleHandler
  <2> QED BY <1>1, <1>10, <2>1 DEF Reply
<1> QED BY <1>4, <1>5, <1>6, <1>7, <1>8, <1>9, <1>10 DEF HandlerStep

\* Only a reply marks a command or is noted in replied.
LEMMA UnmarkedAfter ==
  ASSUME EndpointTypeInv, [EndpointNext]_endpointVars, \A h \in Handlers : ~Reply(h)
  PROVE  /\ replied' = replied
         /\ \A obj \in DOMAIN command_objects : command_objects'[obj] = command_objects[obj]
<1> DEFINE Goal ==
       /\ replied' = replied
       /\ \A obj \in DOMAIN command_objects : command_objects'[obj] = command_objects[obj]
<1>1. ASSUME NEW action \in CommandAction,
             command_objects' = Append(command_objects, Fresh(action))
      PROVE  \A obj \in DOMAIN command_objects :
                command_objects'[obj] = command_objects[obj]
  BY <1>1, AppendedObject DEF EndpointTypeInv, TypeInv
<1>2. Actions \subseteq CommandAction /\ ForceResync \in CommandAction
  BY DEF CommandAction
<1>3. ASSUME NEW h \in Handlers, HandlerStep(h) PROVE Goal
  <2>1. ASSUME NEW msg, Accept(h, msg) PROVE Goal
    BY <1>1, <1>2, <2>1 DEF Accept, UpsertFromAgentMsg, UpsertedObjects
  <2>2. CASE command_objects' = command_objects /\ replied' = replied
    BY <2>2
  <2>3. \/ \E msg : Accept(h, msg)
        \/ command_objects' = command_objects /\ replied' = replied
    BY <1>3 DEF HandlerStep, Refuse, BeginStaging, Stage, AddPendingApproval, BlockAgent,
                TakeCommand, NextPendingCommand, TakeIdentification,
                PopAgentIdentification, TakeNextAction, PopNextAction, Rewrite,
                Disconnect, vars
  <2> QED BY <2>1, <2>2, <2>3
<1>4. ASSUME OperatorRequest \/ ToolRequest PROVE Goal
  <2>1. \/ command_objects' = command_objects
        \/ \E id \in Ids : \E action \in Actions : QueueCommand(id, action)
    BY <1>4, HandlersAssumption
       DEF OperatorRequest, ToolRequest, OperatorStep, Housekeeping, PurgeDisconnected,
           SetRequestedConfig, SetNextActions, SetClientHeartbeatFrequency, Rewrite,
           RemoveClient, SetAgentIdentification, SetDefaultHeartbeatFrequency
  <2>2. replied' = replied
    BY <1>4 DEF OperatorRequest, ToolRequest, RecordsCreatedOrDropped
  <2> QED BY <1>1, <1>2, <2>1, <2>2 DEF QueueCommand
<1>5. ASSUME UpdateCommsSettings \/ (\E id \in Ids : ApprovalDecision(id))
             \/ UNCHANGED endpointVars
      PROVE  Goal
  BY <1>5 DEF UpdateCommsSettings, ApprovalDecision, ApprovePendingApproval, BlockAgent,
              vars, endpointVars, endpoint
<1> QED BY <1>3, <1>4, <1>5 DEF EndpointNext

LEMMA SentInvStep == EndpointTypeInv /\ SentInv /\ [EndpointNext]_endpointVars => SentInv'
<1> SUFFICES ASSUME EndpointTypeInv, SentInv, [EndpointNext]_endpointVars PROVE SentInv'
  OBVIOUS
<1>1. TypeInv /\ [Next]_vars
  BY EndpointStepIsStoreStep DEF EndpointTypeInv
<1>2. \A obj \in DOMAIN command_objects :
         /\ obj \in DOMAIN command_objects'
         /\ command_objects[obj].sent => command_objects'[obj].sent
         /\ obj \in dispatching => obj \in dispatching' \/ command_objects'[obj].sent
  BY <1>1, ObjectsAfter
<1>3. ASSUME NEW h \in Handlers, handlers'[h].command # NoCommand
      PROVE  /\ handlers'[h].command \in DOMAIN command_objects'
             /\ \/ handlers'[h].command \in dispatching'
                \/ command_objects'[handlers'[h].command].sent
  <2>1. \/ handlers'[h].command = handlers[h].command
        \/ handlers'[h].command \in dispatching'
    <3>1. CASE \E other \in Handlers : HandlerStep(other)
      BY <1>3, <3>1, CarriedAfter
    <3>2. CASE handlers' = handlers
      BY <3>2
    <3> QED BY <3>1, <3>2 DEF EndpointNext, OperatorRequest, ToolRequest,
               RecordsCreatedOrDropped, ApprovalDecision, UpdateCommsSettings,
               endpointVars, endpoint
  <2>2. CASE handlers'[h].command = handlers[h].command
    BY <1>2, <1>3, <2>2 DEF SentInv, CarriedInv
  <2>3. CASE handlers'[h].command \in dispatching'
    <3>1. TypeInv'
      BY <1>1, TypeInvStep
    <3> QED BY <2>3, <3>1 DEF TypeInv, TypeOK
  <2> QED BY <2>1, <2>2, <2>3
<1>4. CASE \A h \in Handlers : ~Reply(h)
  <2>1. /\ replied' = replied
        /\ \A obj \in DOMAIN command_objects : command_objects'[obj] = command_objects[obj]
    BY <1>4, UnmarkedAfter
  <2>2. replied' \subseteq DOMAIN command_objects'
    BY <1>2, <2>1 DEF SentInv, CarriedInv
  <2>3. ASSUME NEW obj \in Owned' PROVE command_objects'[obj].sent <=> obj \in replied'
    <3>1. CASE obj \in Owned
      <4>1. obj \in DOMAIN command_objects
        BY <3>1 DEF Owned
      <4>2. command_objects[obj].sent <=> obj \in replied
        BY <3>1 DEF SentInv, SentExactlyWhenReplied
      <4> QED BY <2>1, <4>1, <4>2
    <3>2. CASE obj \notin DOMAIN command_objects /\ ~command_objects'[obj].sent
      BY <2>1, <3>2 DEF SentInv, CarriedInv
    <3> QED BY <1>1, <3>1, <3>2, OwnedAfter
  <2> QED BY <1>3, <2>2, <2>3 DEF SentInv, CarriedInv, SentExactlyWhenReplied
<1>5. ASSUME NEW h \in Handlers, Reply(h) PROVE SentInv'
  <2> DEFINE command == handlers[h].command
  <2>1. /\ Mark(h) /\ clients' = clients
        /\ replied' = replied \cup ({command} \ {NoCommand})
    BY <1>5 DEF Reply, Mark, MarkCommandSent, vars
  <2>2. replied' \subseteq DOMAIN command_objects'
    BY <1>2, <2>1 DEF SentInv, CarriedInv
  <2>3. ASSUME NEW obj \in Owned' PROVE command_objects'[obj].sent <=> obj \in replied'
    <3>1. obj \in Owned /\ obj \in DOMAIN command_objects
      <4>1. \E id \in DOMAIN clients :
               \E i \in DOMAIN clients[id].commands : clients[id].commands[i] = obj
        BY <2>1, <2>3 DEF Owned
      <4> QED BY <4>1 DEF Owned, EndpointTypeInv, TypeInv, TypeOK
    <3>2. command_objects[obj].sent <=> obj \in replied
      BY <3>1 DEF SentInv, SentExactlyWhenReplied
    <3>3. CASE obj = command
      <4>1. obj \in Nat \ {0}
        BY <3>1 DEF EndpointTypeInv, TypeInv, TypeOK
      <4>2. obj \in replied'
        BY <2>1, <3>3, <4>1 DEF NoCommand
      <4>3. CASE obj \in dispatching
        <5>1. Holders(h) # {}
          BY <3>1, <3>3 DEF Owned, Holders
        <5>2. command_objects' = MarkedSent(command_objects, obj)
          BY <2>1, <3>3, <4>3, <5>1 DEF Mark, MarkCommandSent
        <5>3. command_objects[obj] \in CommandObject
          BY <3>1 DEF EndpointTypeInv, TypeInv, TypeOK
        <5> QED BY <3>1, <4>2, <5>2, <5>3 DEF MarkedSent, CommandObject
      <4>4. CASE command_objects[obj].sent
        BY <1>2, <3>1, <4>2, <4>4
      <4> QED BY <3>3, <4>1, <4>3, <4>4 DEF SentInv, CarriedInv, NoCommand
    <3>4. CASE obj # command
      <4>1. command_objects'[obj] = command_objects[obj]
        BY <2>1, <3>1, <3>4 DEF Mark, MarkCommandSent, MarkedSent, vars
      <4> QED BY <2>1, <3>2, <3>4, <4>1
    <3> QED BY <3>3, <3>4
  <2> QED BY <1>3, <2>2, <2>3 DEF SentInv, CarriedInv, SentExactlyWhenReplied
<1> QED BY <1>4, <1>5

\* A command still queued is marked sent exactly when a reply carried it out,
\* however many connections take, move and delete it while replies are sent.
THEOREM SentExactlyWhenRepliedAlways == EndpointSpec => []SentExactlyWhenReplied
<1>1. EndpointInit => SentInv
  BY DEF EndpointInit, Init, SentInv, CarriedInv, SentExactlyWhenReplied, Owned,
         IdleHandler
<1>2. EndpointSpec => []SentInv
  BY <1>1, EndpointTypeInvHolds, SentInvStep, PTL DEF EndpointSpec
<1>3. SentInv => SentExactlyWhenReplied
  BY DEF SentInv
<1> QED BY <1>2, <1>3, PTL

-----------------------------------------------------------------------------
(* A replacement UID reaches one agent *)

\* Inductive: a UID that waits in a record has not been handed out, and one that
\* was is in the hands of one handler, or of none any more.
HandedInv ==
    /\ \A id \in DOMAIN clients :
          clients[id].pending_agent_identification # NoUid
              => clients[id].pending_agent_identification \notin handed_out
    /\ \A h \in Handlers : handlers[h].identification # NoUid =>
          /\ handlers[h].identification \notin received
          /\ \A other \in Handlers \ {h} :
                handlers[other].identification # handlers[h].identification

\* Only popping an identification hands it out.
LEMMA HandedOutAfter ==
  ASSUME TypeInv, [Next]_vars
  PROVE  handed_out' = handed_out \/ \E k \in Ids : PopAgentIdentification(k)
<1>1. \/ handed_out' = handed_out
      \/ \E k \in Ids : PopAgentIdentification(k)
      \/ \E k \in Ids : \E action \in CommandAction : QueueCommand(k, action)
  BY DEF Next, AgentMessage, DispatchStep, OperatorStep, ReservedStep, ApprovalStep,
         Housekeeping, UpsertFromAgentMsg, AddPendingApproval, NextPendingCommand,
         MarkCommandSent, PopNextAction, QueueCommand, QueueForceResync,
         SetRequestedConfig, SetNextActions, AddEvent, SetClientHeartbeatFrequency,
         SetDefaultHeartbeatFrequency, Rewrite, RemoveClient, SetAgentIdentification,
         ApprovePendingApproval, BlockAgent, PurgeDisconnected, vars
<1> QED BY <1>1 DEF QueueCommand

LEMMA PendingNotHanded ==
  ASSUME TypeInv, IdentificationsDiffer, [Next]_vars,
         \A id \in DOMAIN clients :
            clients[id].pending_agent_identification # NoUid
                => clients[id].pending_agent_identification \notin handed_out,
         NEW id \in DOMAIN clients', clients'[id].pending_agent_identification # NoUid
  PROVE  clients'[id].pending_agent_identification \notin handed_out'
<1>1. ASSUME NEW k \in Ids, NEW uid \in ServerUids, SetAgentIdentification(k, uid)
      PROVE  clients'[id].pending_agent_identification \notin handed_out'
  <2>1. uid \notin handed_out /\ handed_out' = handed_out
    BY <1>1 DEF SetAgentIdentification, TypeInv, TypeOK
  <2> QED BY <1>1, <2>1, IdentificationSet
<1>2. ASSUME NEW k \in Ids, PopAgentIdentification(k)
      PROVE  clients'[id].pending_agent_identification \notin handed_out'
  <2>1. clients[k] \in ClientRecord /\ k \in DOMAIN clients
    BY <1>2 DEF PopAgentIdentification, TypeInv, TypeOK, Maps
  <2>2. id \in DOMAIN clients /\ id # k /\ clients'[id] = clients[id]
    BY <1>2, <2>1 DEF PopAgentIdentification, ClientRecord
  <2>3. handed_out' = handed_out \cup {clients[k].pending_agent_identification}
    BY <1>2 DEF PopAgentIdentification
  <2> QED BY <2>1, <2>2, <2>3 DEF IdentificationsDiffer
<1>3. CASE handed_out' = handed_out
  BY <1>1, <1>3, IdentificationAfter
<1> QED BY <1>2, <1>3, HandedOutAfter

\* What a handler's step does to the identification that it carries.
LEMMA IdentificationCarried ==
  ASSUME EndpointTypeInv, NEW h \in Handlers, HandlerStep(h)
  PROVE  /\ \A other \in Handlers \ {h} : handlers'[other] = handlers[other]
         /\ \/ /\ handlers'[h].identification \in {NoUid, handlers[h].identification}
               /\ received' = received
            \/ /\ handlers'[h].identification = NoUid
               /\ received' \subseteq received \cup {handlers[h].identification}
            \/ \E uid : /\ PopAgentIdentification(uid)
                        /\ handlers'[h].identification
                              = clients[uid].pending_agent_identification
                        /\ received' = received
<1> DEFINE Carried ==
       \/ /\ handlers'[h].identification \in {NoUid, handlers[h].identification}
          /\ received' = received
       \/ /\ handlers'[h].identification = NoUid
          /\ received' \subseteq received \cup {handlers[h].identification}
       \/ \E uid : /\ PopAgentIdentification(uid)
                   /\ handlers'[h].identification = clients[uid].pending_agent_identification
                   /\ received' = received
<1>0. handlers \in [Handlers -> Handler] /\ handlers[h] \in Handler
  BY DEF EndpointTypeInv, LocalsOK
<1>1. IdleHandler.identification = NoUid
  BY DEF IdleHandler
<1>2. ASSUME NEW uid, Refuse(h, uid) PROVE Carried
  BY <1>0, <1>1, <1>2, HandlerAfter DEF Refuse
<1>3. ASSUME NEW uid, BeginStaging(h, uid) PROVE Carried
  BY <1>0, <1>3 DEF BeginStaging, Becomes, IdleHandler
<1>4. ASSUME Stage(h) \/ Disconnect(h) PROVE Carried
  BY <1>0, <1>1, <1>4, HandlerAfter DEF Stage, Disconnect
<1>5. ASSUME NEW msg, Accept(h, msg) PROVE Carried
  BY <1>0, <1>5 DEF Accept, Becomes, IdleHandler
<1>6. ASSUME TakeCommand(h) PROVE Carried
  <2>1. \A c : /\ [handlers[h] EXCEPT !.phase = "identifying", !.command = c].identification
                     = handlers[h].identification
               /\ [handlers[h] EXCEPT !.phase = "identifying"].identification
                     = handlers[h].identification
    BY <1>0 DEF Handler
  <2>2. PICK local : Becomes(h, local) /\ local.identification = handlers[h].identification
    BY <1>6, <2>1 DEF TakeCommand
  <2> QED BY <1>0, <1>6, <2>2, HandlerAfter DEF TakeCommand
<1>7. ASSUME TakeIdentification(h) PROVE Carried
  <2> DEFINE uid == handlers[h].uid
             identification == clients[uid].pending_agent_identification
  <2>1. handlers'[h].identification = identification
    BY <1>0, <1>7 DEF TakeIdentification, Becomes, Handler
  <2>2. received' = received
    BY <1>7 DEF TakeIdentification
  <2>3. PopAgentIdentification(uid) \/ identification = NoUid
    BY <1>7 DEF TakeIdentification
  <2> QED BY <2>1, <2>2, <2>3
<1>8. ASSUME TakeNextAction(h) PROVE Carried
  <2>1. [handlers[h] EXCEPT !.phase = "replying"].identification = handlers[h].identification
    BY <1>0 DEF Handler
  <2>2. PICK local : /\ Becomes(h, local)
                     /\ local.identification \in {NoUid, handlers[h].identification}
    BY <1>1, <1>8, <2>1 DEF TakeNextAction
  <2> QED BY <1>0, <1>8, <2>2, HandlerAfter DEF TakeNextAction
<1>9. ASSUME Reply(h) PROVE Carried
  <2>1. handlers'[h].identification = NoUid
    BY <1>0, <1>9 DEF Reply, Becomes, IdleHandler
  <2>2. received' \subseteq received \cup {handlers[h].identification}
    BY <1>9 DEF Reply
  <2> QED BY <2>1, <2>2
<1>10. \A other \in Handlers \ {h} : handlers'[other] = handlers[other]
  BY CarriedAfter
<1> QED BY <1>2, <1>3, <1>4, <1>5, <1>6, <1>7, <1>8, <1>9, <1>10 DEF HandlerStep

LEMMA HandedInvStep ==
  EndpointTypeInv /\ IdentificationsDiffer /\ HandedInv /\ [EndpointNext]_endpointVars
     => HandedInv'
<1> SUFFICES ASSUME EndpointTypeInv, IdentificationsDiffer, HandedInv,
                    [EndpointNext]_endpointVars
             PROVE  HandedInv'
  OBVIOUS
<1>1. TypeInv /\ [Next]_vars
  BY EndpointStepIsStoreStep DEF EndpointTypeInv
<1>2. \A id \in DOMAIN clients' :
         clients'[id].pending_agent_identification # NoUid
             => clients'[id].pending_agent_identification \notin handed_out'
  BY <1>1, PendingNotHanded DEF HandedInv
<1>3. ASSUME NEW h \in Handlers, HandlerStep(h),
             NEW g \in Handlers, handlers'[g].identification # NoUid
      PROVE  /\ handlers'[g].identification \notin received'
             /\ \A other \in Handlers \ {g} :
                   handlers'[other].identification # handlers'[g].identification
  <2>1. \A other \in Handlers \ {h} : handlers'[other] = handlers[other]
    BY <1>3, IdentificationCarried
  <2>2. CASE /\ handlers'[h].identification \in {NoUid, handlers[h].identification}
             /\ received' = received
    BY <1>3, <2>1, <2>2 DEF HandedInv
  <2>3. CASE /\ handlers'[h].identification = NoUid
             /\ received' \subseteq received \cup {handlers[h].identification}
    <3>1. g # h /\ handlers'[g] = handlers[g]
      BY <1>3, <2>1, <2>3
    <3>2. handlers[g].identification \notin received \cup {handlers[h].identification}
      BY <1>3, <3>1 DEF HandedInv
    <3>3. \A other \in Handlers \ {g} :
             handlers'[other].identification # handlers[g].identification
      BY <1>3, <2>1, <2>3, <3>1 DEF HandedInv
    <3> QED BY <2>3, <3>1, <3>2, <3>3
  <2>4. ASSUME NEW uid, PopAgentIdentification(uid),
               handlers'[h].identification = clients[uid].pending_agent_identification,
               received' = received
        PROVE  /\ handlers'[g].identification \notin received'
               /\ \A other \in Handlers \ {g} :
                     handlers'[other].identification # handlers'[g].identification
    <3>1. /\ handlers'[h].identification # NoUid
          /\ handlers'[h].identification \notin handed_out
      BY <2>4 DEF PopAgentIdentification, HandedInv
    <3>2. \A other \in Handlers \ {h} :
             /\ handlers'[other] = handlers[other]
             /\ handlers[other].identification \in handed_out \cup {NoUid}
      BY <2>1 DEF EndpointTypeInv, LocalsOK
    <3>3. received \subseteq handed_out
      BY DEF EndpointTypeInv, LocalsOK
    <3>4. CASE g = h
      BY <2>4, <3>1, <3>2, <3>3, <3>4
    <3>5. CASE g # h
      <4>1. handlers[g].identification \in handed_out /\ handlers'[g] = handlers[g]
        BY <1>3, <3>2, <3>5
      <4>2. handlers[g].identification \notin received
        BY <1>3, <4>1 DEF HandedInv
      <4>3. \A other \in Handlers \ {g} :
               handlers'[other].identification # handlers[g].identification
        BY <1>3, <3>1, <3>2, <4>1 DEF HandedInv
      <4> QED BY <2>4, <4>1, <4>2, <4>3
    <3> QED BY <3>4, <3>5
  <2> QED BY <1>3, <2>2, <2>3, <2>4, IdentificationCarried
<1>4. CASE UNCHANGED <<handlers, received>>
  BY <1>2, <1>4 DEF HandedInv
<1>5. CASE \E h \in Handlers : HandlerStep(h)
  BY <1>2, <1>3, <1>5 DEF HandedInv
<1> QED BY <1>4, <1>5 DEF EndpointNext, OperatorRequest, ToolRequest,
           RecordsCreatedOrDropped, ApprovalDecision, UpdateCommsSettings,
           endpointVars, endpoint

\* A replacement UID goes into one reply only: no two agents ever adopt it.
THEOREM IdentificationHandedOnceAlways == EndpointSpec => []IdentificationHandedOnce
<1>1. EndpointInit => HandedInv
  BY DEF EndpointInit, Init, HandedInv, IdleHandler
<1>2. EndpointSpec => []IdentificationsDiffer
  BY EndpointUsesStoreProperly, IdentificationsDifferHolds, PTL DEF UsesStoreProperly
<1>3. EndpointSpec => []HandedInv
  BY <1>1, <1>2, EndpointTypeInvHolds, HandedInvStep, PTL DEF EndpointSpec
<1>4. EndpointTypeInv /\ HandedInv => IdentificationHandedOnce
  BY DEF EndpointTypeInv, LocalsOK, HandedInv, IdentificationHandedOnce
<1> QED BY <1>3, <1>4, EndpointTypeInvHolds, PTL

-----------------------------------------------------------------------------
(* Nobody is listened to without a reason *)

\* Inductive, and more than AdmittedForAReason says: heard or not, every record
\* is one that was vetted or that an operator or a tool created.
RecordsAccountedFor == DOMAIN clients \subseteq vetted \cup addressed

LEMMA AccountedStep ==
  EndpointTypeInv /\ RecordsAccountedFor /\ [EndpointNext]_endpointVars
     => RecordsAccountedFor'
<1> SUFFICES ASSUME EndpointTypeInv, RecordsAccountedFor, [EndpointNext]_endpointVars
             PROVE  RecordsAccountedFor'
  OBVIOUS
<1>1. CASE UNCHANGED <<vetted, addressed>> /\ DOMAIN clients' \subseteq DOMAIN clients
  BY <1>1 DEF RecordsAccountedFor
<1>2. ASSUME NEW h \in Handlers, NEW msg, Accept(h, msg) PROVE RecordsAccountedFor'
  <2>1. DOMAIN clients' \subseteq DOMAIN clients \cup {msg.uid}
    BY <1>2, UpsertedOthers DEF Accept
  <2>2. /\ addressed' = addressed
        /\ vetted' = DOMAIN clients' \cap
                        IF human_in_loop THEN vetted ELSE vetted \cup {msg.uid}
        /\ ~human_in_loop \/ msg.uid \in DOMAIN clients
    BY <1>2 DEF Accept, NeedsApproval
  <2> QED BY <2>1, <2>2 DEF RecordsAccountedFor
<1>3. ASSUME NEW h \in Handlers, HandlerStep(h) PROVE RecordsAccountedFor'
  <2>1. ASSUME NEW id, PopAgentIdentification(id) PROVE DOMAIN clients' = DOMAIN clients
    BY <2>1 DEF PopAgentIdentification
  <2>2. ASSUME NEW id, PopNextAction(id) PROVE DOMAIN clients' = DOMAIN clients
    BY <2>2 DEF PopNextAction, Rewrite, Stored
  <2>3. \/ \E msg : Accept(h, msg)
        \/ UNCHANGED <<vetted, addressed>> /\ DOMAIN clients' \subseteq DOMAIN clients
    BY <1>3, <2>1, <2>2
       DEF HandlerStep, Refuse, BeginStaging, Stage, AddPendingApproval, BlockAgent,
           TakeCommand, NextPendingCommand, TakeIdentification, TakeNextAction, Reply,
           Mark, MarkCommandSent, Disconnect, vars
  <2> QED BY <1>1, <1>2, <2>3
<1>4. CASE OperatorRequest \/ ToolRequest
  BY <1>4 DEF OperatorRequest, ToolRequest, RecordsCreatedOrDropped, RecordsAccountedFor
<1>5. ASSUME NEW id \in Ids, ApprovalDecision(id) PROVE RecordsAccountedFor'
  <2>1. CASE ApprovePendingApproval(id) /\ vetted' = vetted \cup {id}
    <3>1. DOMAIN clients' = DOMAIN clients \cup {id}
      BY <2>1 DEF ApprovePendingApproval, Stored
    <3> QED BY <1>5, <2>1, <3>1 DEF ApprovalDecision, RecordsAccountedFor
  <2>2. CASE BlockAgent(id) /\ vetted' = vetted
    BY <1>1, <1>5, <2>2 DEF ApprovalDecision, BlockAgent
  <2> QED BY <1>5, <2>1, <2>2 DEF ApprovalDecision
<1>6. CASE UpdateCommsSettings \/ UNCHANGED endpointVars
  BY <1>1, <1>6 DEF UpdateCommsSettings, vars, endpointVars, endpoint
<1> QED BY <1>3, <1>4, <1>5, <1>6 DEF EndpointNext

\* A client the provider listens to was approved, was heard when no approval was
\* required, or owes its record to a request for its UID.
THEOREM AdmittedForAReasonAlways == EndpointSpec => []AdmittedForAReason
<1>1. EndpointInit => RecordsAccountedFor
  BY DEF EndpointInit, Init, RecordsAccountedFor
<1>2. EndpointSpec => []RecordsAccountedFor
  BY <1>1, EndpointTypeInvHolds, AccountedStep, PTL DEF EndpointSpec
<1>3. RecordsAccountedFor => AdmittedForAReason
  BY DEF RecordsAccountedFor, AdmittedForAReason
<1> QED BY <1>2, <1>3, PTL
=============================================================================
