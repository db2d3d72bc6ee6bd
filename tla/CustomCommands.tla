--------------------------- MODULE CustomCommands ---------------------------
(***************************************************************************)
(* A command, from the request that queues it on the provider to the      *)
(* handler that runs it on the agent: validation and routing (the REST    *)
(* route and the MCP tool), the registry of command classes, the builders *)
(* that turn a queued command into a ServerToAgent, and on the agent the  *)
(* registry of custom handlers, cached, rebuilt after a miss, and         *)
(* switched off by allow_custom_capabilities.                             *)
(*                                                                         *)
(* ClientStore models the queue for any number of clients and AgentSession*)
(* the numbering of reports; here one agent reports, and what is followed *)
(* is the meaning of the command.  A dictionary is a function from its    *)
(* keys to their values; a missing key reads as None.                     *)
(***************************************************************************)
EXTENDS Naturals, Sequences, SequencesExt

CONSTANTS
    RestPayloads,    \* the key/value pairs clients of the REST route send
    McpPayloads,     \* the pairs the MCP tool builds: no reserved parameter
    Capabilities,    \* the capabilities handlers in the agent's folder may have
    NextActions,     \* the next actions an operator may have set, or None
    MaxCommands      \* bound: commands ever queued

None == ""

ASSUME CommandsAssumption == MaxCommands \in Nat

VARIABLES
    queue,        \* provider: the commands of the agent, in order of arrival
    advertised,   \* provider: the custom capabilities the agent last reported
    config,       \* agent: config.allow_custom_capabilities and whether it runs
    handlers,     \* agent: the capabilities whose handler files load
    lookup,       \* agent: _custom_handler_lookup, the classes found earlier
    reporting,    \* agent: the flag REPORT_CUSTOM_CAPABILITIES
    exchange,     \* the report on its way, or the reply and how often it is handled
    calls,        \* agent: the handlers that ran, and for which command
    errors        \* agent: the commands that ended in an AgentException

provider == <<queue, advertised>>
agent == <<config, handlers, lookup, reporting>>
outcome == <<calls, errors>>
vars == <<queue, advertised, config, handlers, lookup, reporting, exchange,
          calls, errors>>

-----------------------------------------------------------------------------
(* The registry of command classes *)

RestartAgent == [classifier |-> "command", action |-> "restart", fqdn |-> None]

ChatOpCommand == [classifier |-> "custom", action |-> "chatopcommand", fqdn |-> "chatopcommand"]

CommandNullCommand == [classifier |-> "custom", action |-> "nullcommand", fqdn |-> "nullcommand"]

CommandShutdownAgent ==
    [classifier |-> "custom", action |-> "shutdownagent", fqdn |-> "command_shutdown_agent"]

CommandRegistry == {RestartAgent, ChatOpCommand, CommandNullCommand, CommandShutdownAgent}

CustomClasses == {c \in CommandRegistry : c.classifier = "custom"}

Lookup(values, key) == IF key \in DOMAIN values THEN values[key] ELSE None

\* What the pairs ask for: the capability under either of its keys.
CapabilityOf(values) ==
    IF Lookup(values, "capability") # None
    THEN Lookup(values, "capability") ELSE Lookup(values, "fqdn")

\* The class for these values, in a set that is empty when there is none.
ResolveCustomCommandClass(values) ==
    LET byCapability == {c \in CustomClasses : c.fqdn = CapabilityOf(values)}
        byOperation == {c \in CustomClasses : c.action = Lookup(values, "operation")}
        byAction == {c \in CustomClasses : c.action = Lookup(values, "action")}
    IN IF byCapability # {} THEN byCapability
       ELSE IF byOperation # {} THEN byOperation ELSE byAction

CommandObjectFactory(classifier, values) ==
    CASE classifier = "command" -> {RestartAgent}
      [] classifier \in {"custom", "custom_command"} -> ResolveCustomCommandClass(values)
      [] OTHER -> {}

\* Seeded error: the capability is left out of what is stored.
FaultyKeyValuesNoCapability(class, values) ==
    LET kept == DOMAIN values \ {"capability", "fqdn"}
    IN  [key \in kept \cup {"classifier", "action"} |->
            IF key \in kept THEN values[key] ELSE class[key]]

\* set_key_value_dictionary: the values given, over the defaults of the class.
KeyValues(class, values) ==
    [key \in DOMAIN values \cup {"classifier", "action"} |->
        IF key \in DOMAIN values THEN values[key] ELSE class[key]]

-----------------------------------------------------------------------------
(* Queueing *)

RestBuilders == {<<"command", "restart">>, <<"command", "forceresync">>,
                 <<"custom", "*">>, <<"custom_command", "*">>}

McpBuilders == {<<"custom", "*">>, <<"custom_command", "*">>}

RoutingAction(values) ==
    IF Lookup(values, "operation") # None
    THEN Lookup(values, "operation") ELSE Lookup(values, "action")

\* The checks of queue_command_from_payload, before anything is queued.
Accepted(values, builders) ==
    LET classifier == Lookup(values, "classifier")
    IN /\ classifier \in {"command", "custom", "custom_command"}
       /\ RoutingAction(values) # None
       /\ {<<classifier, RoutingAction(values)>>, <<classifier, "*">>} \cap builders # {}
       /\ classifier = "custom" => CommandObjectFactory("custom", values) # {}

\* The classes a command object is made of: for restart and custom commands.
ObjectsFor(values) ==
    LET classifier == Lookup(values, "classifier")
    IN IF classifier = "custom" \/ (classifier = "command" /\ RoutingAction(values) = "restart")
       THEN CommandObjectFactory(classifier, values) ELSE {}

\* The record that is queued; describes is the class its event describes.
CommandFor(values) ==
    LET objects == ObjectsFor(values)
        class == CHOOSE c \in objects : TRUE
        merged == KeyValues(class, values)
    IN IF objects = {}
       THEN [classifier |-> values["classifier"], action |-> RoutingAction(values),
             values |-> values, describes |-> {}, sent |-> FALSE]
       ELSE [classifier |-> class.classifier,
             action |-> IF class.classifier = "custom" /\ merged["action"] # None
                        THEN merged["action"] ELSE RoutingAction(values),
             values |-> merged, describes |-> objects, sent |-> FALSE]

QueueCommandFromPayload(values, builders) ==
    /\ Len(queue) < MaxCommands
    /\ Accepted(values, builders)
    /\ queue' = Append(queue, CommandFor(values))
    /\ UNCHANGED <<advertised, agent, exchange, outcome>>

QueueCommand == \E values \in RestPayloads : QueueCommandFromPayload(values, RestBuilders)

InvokeCustomCommand == \E values \in McpPayloads : QueueCommandFromPayload(values, McpBuilders)

-----------------------------------------------------------------------------
(* Building the reply *)

NoPayload == [error |-> FALSE, command |-> FALSE, flags |-> FALSE, custom |-> None, of |-> 0]

BuildRestartCommand(reply, i) == [reply EXCEPT !.command = TRUE, !.of = i]

BuildForceResyncCommand(reply, i) == [reply EXCEPT !.flags = TRUE, !.of = i]

\* The class's own message, else the generic one for the pairs.
BuildCustomCommandPayload(reply, i) ==
    LET command == queue[i]
        objects == IF command.classifier = "custom"
                   THEN CommandObjectFactory("custom", command.values) ELSE {}
        named == Lookup(command.values, "capability")
        capability == CASE objects # {} -> (CHOOSE c \in objects : TRUE).fqdn
                        [] objects = {} /\ named # None -> named
                        [] OTHER -> "custom_command"
    IN [reply EXCEPT !.custom = capability, !.of = i]

\* The builder of the command at position i, if there is one, fills the reply.
ApplyCommandIntent(reply, i) ==
    IF i = 0 THEN reply
    ELSE LET key == <<queue[i].classifier, queue[i].action>>
         IN CASE key = <<"command", "restart">> -> BuildRestartCommand(reply, i)
              [] key = <<"command", "forceresync">> -> BuildForceResyncCommand(reply, i)
              [] queue[i].classifier \in {"custom", "custom_command"} -> BuildCustomCommandPayload(reply, i)
              [] OTHER -> reply

BuildPackageAvailable(reply) == [reply EXCEPT !.error = TRUE]

\* Of the next actions, package availability answers with an error, the two
\* command actions build the pending command; the configuration and connection
\* settings the others add are only logged by the agent, and left out.
ApplyNextAction(reply, action, i) ==
    CASE action = "PackageAvailable" -> BuildPackageAvailable(reply)
      [] action \in {"CommandAgent", "CustomAgentCommand"} -> ApplyCommandIntent(reply, i)
      [] OTHER -> reply

\* Seeded error: a full-state flag is not taken for a command.
FaultyHasDispatchedNoFlags(reply) == reply.command \/ reply.custom # None

HasDispatchedCommandPayload(reply) == reply.command \/ reply.custom # None \/ reply.flags

\* The position of the first command not sent, 0 when there is none.
PendingCommand == SelectInSeq(queue, LAMBDA command : ~command.sent)

Idle == [phase |-> "idle", reply |-> NoPayload]

-----------------------------------------------------------------------------
(* The registry of custom handlers on the agent *)

\* Seeded error: the registry is discovered whatever the configuration says.
FaultyBuildFactoryLookupAlways(allow) == handlers

BuildFactoryLookup(allow) == IF allow THEN handlers ELSE {}

\* Seeded error: an empty lookup is used as it is.
FaultyCreateHandlerNoRebuild(known) == known

\* The capabilities create_handler finds a class for: an empty lookup is
\* rebuilt.  A class found earlier still works when its file has gone.
CreateHandler(known) ==
    IF known # {} THEN known ELSE BuildFactoryLookup(config.allow)

\* get_custom_capabilities_payload keeps what it rebuilds.
ReportedLookup == CreateHandler(lookup)

\* _heartbeat_loop: the report carries the capabilities when they are due.
Report ==
    /\ config.running /\ exchange = Idle
    /\ exchange' = [exchange EXCEPT !.phase = "report"]
    /\ lookup' = IF reporting THEN ReportedLookup ELSE lookup
    /\ advertised' = IF reporting /\ ReportedLookup # {} THEN ReportedLookup ELSE advertised
    /\ reporting' = FALSE
    /\ UNCHANGED <<queue, config, handlers, outcome>>

\* The provider answers and marks the command sent when the reply carries it.
Answer(action) ==
    /\ exchange.phase = "report"
    /\ LET i == PendingCommand
           reply == ApplyCommandIntent(ApplyNextAction(NoPayload, action, i), i)
       IN /\ exchange' = [phase |-> "answered", reply |-> reply]
          /\ queue' = IF i # 0 /\ HasDispatchedCommandPayload(reply)
                      THEN [queue EXCEPT ![i].sent = TRUE] ELSE queue
    /\ UNCHANGED <<advertised, agent, outcome>>

\* The reply does not arrive: the send fails, the loop goes on.
LoseReply ==
    /\ exchange.phase = "answered"
    /\ exchange' = Idle
    /\ UNCHANGED <<provider, agent, outcome>>

-----------------------------------------------------------------------------
(* Handling the reply: by the transport, and again by the heartbeat loop *)

AfterHandling ==
    IF exchange.phase = "answered"
    THEN [exchange EXCEPT !.phase = "handled once"] ELSE Idle

Failed(i, why) == errors' = errors \cup {[command |-> i, why |-> why]}

\* What becomes of the ChatOps handler's call of the local endpoint: a 2xx
\* answer, no answer, or another status, which it returns as a failure message.
ChatOpsOutcomes == {"done", "raised", "failure"}

\* The null command logs what it was sent.
NullCommandOutcomes == {"done"}

Outcomes(capability) ==
    IF capability = ChatOpCommand.fqdn THEN ChatOpsOutcomes ELSE NullCommandOutcomes

\* execute of the handlers' interface: a message the action returns would be
\* sent with asyncio.run, which raises as all of this runs in the event loop of
\* _heartbeat_loop; so the provider does not hear of the failure.
Execute(capability, i) ==
    /\ calls' = calls \cup {[command |-> i, handler |-> capability]}
    /\ \E end \in Outcomes(capability) :
          \/ end = "done" /\ UNCHANGED errors
          \/ end = "raised" /\ Failed(i, "raised")
          \/ end = "failure" /\ Failed(i, "refused")

\* A miss rebuilds the lookup without the configuration's flag, to {}, and
\* create_handler rebuilds it again with the flag for this call only.
HandleCustomMessage(capability, i) ==
    /\ lookup' = IF capability \in CreateHandler(lookup) THEN lookup ELSE {}
    /\ IF capability \in CreateHandler(lookup) \cup CreateHandler({})
       THEN Execute(capability, i)
       ELSE Failed(i, "unregistered") /\ UNCHANGED calls

\* The reply reaches the handler that shuts the agent down.
ShutsDown ==
    /\ exchange.reply.custom = CommandShutdownAgent.fqdn
    /\ exchange.reply.custom \in CreateHandler(lookup) \cup CreateHandler({})

\* A full-state flag and an error set every reporting flag.
AsksForFullState(reply) == reply.flags \/ reply.error

\* _handle_server_to_agent, for every reply but one that shuts the agent down.
\* A restart command restarts the agent process (ConsumerRuntime).
HandleReply ==
    /\ config.running /\ exchange.phase \in {"answered", "handled once"}
    /\ ~ShutsDown
    /\ exchange' = AfterHandling
    /\ reporting' = (reporting \/ AsksForFullState(exchange.reply))
    /\ IF exchange.reply.custom # None
       THEN HandleCustomMessage(exchange.reply.custom, exchange.reply.of)
       ELSE UNCHANGED <<lookup, outcome>>
    /\ UNCHANGED <<provider, config, handlers>>

\* ShutdownCommand stops the heartbeat, says goodbye, stops the agent and
\* leaves the process; when the goodbye raises, the loop ends the process
\* (ConsumerRuntime has the steps).
ShutDown ==
    /\ config.running /\ exchange.phase \in {"answered", "handled once"}
    /\ ShutsDown
    /\ calls' = calls \cup {[command |-> exchange.reply.of, handler |-> exchange.reply.custom]}
    /\ Failed(exchange.reply.of, "raised") \/ UNCHANGED errors
    /\ config' = [config EXCEPT !.running = FALSE]
    /\ exchange' = Idle
    /\ UNCHANGED <<provider, handlers, lookup, reporting>>

\* The supervisor is started again, perhaps with another configuration.
StartAgent(allow) ==
    /\ ~config.running
    /\ config' = [running |-> TRUE, allow |-> allow]
    /\ lookup' = IF allow THEN handlers ELSE {}
    /\ reporting' = TRUE
    /\ UNCHANGED <<provider, handlers, exchange, outcome>>

\* Someone adds a handler file to the folder or removes one.
FolderChanges(present) ==
    /\ handlers' = present /\ present # handlers
    /\ UNCHANGED <<provider, config, lookup, reporting, exchange, outcome>>

-----------------------------------------------------------------------------
Init ==
    /\ queue = <<>> /\ advertised = {}
    /\ config \in [running : {TRUE}, allow : BOOLEAN]
    /\ handlers = Capabilities
    /\ lookup = IF config.allow THEN handlers ELSE {}
    /\ reporting = TRUE
    /\ exchange = Idle
    /\ calls = {} /\ errors = {}

Next ==
    \/ QueueCommand \/ InvokeCustomCommand
    \/ Report
    \/ \E action \in NextActions \cup {None} : Answer(action)
    \/ LoseReply
    \/ HandleReply \/ ShutDown
    \/ \E allow \in BOOLEAN : StartAgent(allow)
    \/ \E present \in SUBSET Capabilities : FolderChanges(present)

Spec == Init /\ [][Next]_vars

\* The heartbeat loop goes on, the provider answers what it receives, and a
\* reply that is handled ends.
FairSpec ==
    /\ Spec
    /\ WF_vars(Report)
    /\ WF_vars(\E action \in NextActions \cup {None} : Answer(action))
    /\ WF_vars(HandleReply \/ ShutDown)

-----------------------------------------------------------------------------
(* Properties *)

Positions == 1 .. MaxCommands

TypeOK ==
    /\ Len(queue) <= MaxCommands
    /\ \A i \in DOMAIN queue :
          /\ queue[i].sent \in BOOLEAN
          /\ queue[i].describes \subseteq CommandRegistry
    /\ advertised \subseteq Capabilities /\ lookup \subseteq Capabilities
    /\ handlers \subseteq Capabilities
    /\ config \in [running : BOOLEAN, allow : BOOLEAN] /\ reporting \in BOOLEAN
    /\ exchange.phase \in {"idle", "report", "answered", "handled once"}
    /\ calls \subseteq [command : Positions, handler : Capabilities]
    /\ errors \subseteq [command : Positions, why : {"raised", "refused", "unregistered"}]

\* A command is validated when it is queued and resolved again, from the pairs
\* that were stored, when a reply is built: the reply carries the command of
\* the class the operator was told about (the event's description).
CommandsKeepTheirMeaning ==
    \A i \in DOMAIN queue : \A class \in queue[i].describes :
        LET built == ApplyCommandIntent(NoPayload, i)
        IN IF class = RestartAgent THEN built.command ELSE built.custom = class.fqdn

\* The shape of the state, and commands that stay what they were accepted as
\* (command_queue.py:207-288, app.py:_apply_command_intent).
CommandsInvariant == TypeOK /\ CommandsKeepTheirMeaning

\* A capability whose handler is in the folder of an agent that allows custom
\* capabilities is never called unregistered, whatever was asked for before:
\* the miss that empties the lookup does not cost the next command its handler.
HandlerInFolderIsFound ==
    [][\A i \in Positions :
          [command |-> i, why |-> "unregistered"] \in errors' \ errors
          => ~config.allow \/ exchange.reply.custom \notin handlers]_vars

\* allow_custom_capabilities = false holds on each of the three ways the
\* lookup is filled: no handler runs, and none is advertised by that process.
DisabledRunsNothing ==
    [][~config.allow => calls' = calls /\ advertised' = advertised]_vars

\* No command blocks those behind it: while the agent runs and reports, every
\* command the provider accepted is sent.
EveryCommandSent ==
    <>[](~config.running)
    \/ \A i \in Positions : (i <= Len(queue)) ~> (i <= Len(queue) /\ queue[i].sent)

=============================================================================
