------------------------- MODULE CustomCommandsProofs -------------------------
(***************************************************************************)
(* Proofs about CustomCommands, for any pairs that clients may send, any   *)
(* capabilities and any number of commands: what is queued is built again  *)
(* from the pairs that were stored as the command it was accepted as; and  *)
(* the registry of handlers, which is cached, emptied and built again,     *)
(* neither loses a handler that is there nor offers one that is not        *)
(* allowed.                                                                *)
(***************************************************************************)
EXTENDS CustomCommands, WellFoundedInduction, TLAPS

-----------------------------------------------------------------------------
(* Resolving a command class twice *)

\* The pairs name at most one class, of the custom ones.
LEMMA AtMostOneClass ==
  ASSUME NEW values
  PROVE  \/ ResolveCustomCommandClass(values) = {}
         \/ \E class \in CustomClasses : ResolveCustomCommandClass(values) = {class}
<1>1. \A c, d \in CustomClasses : c.fqdn = d.fqdn \/ c.action = d.action => c = d
  BY DEF CustomClasses, CommandRegistry, RestartAgent, ChatOpCommand, CommandNullCommand,
         CommandShutdownAgent
<1>2. \A name : \/ {c \in CustomClasses : c.fqdn = name} = {}
                \/ \E class \in CustomClasses : {c \in CustomClasses : c.fqdn = name} = {class}
  BY <1>1
<1>3. \A name : \/ {c \in CustomClasses : c.action = name} = {}
                \/ \E class \in CustomClasses : {c \in CustomClasses : c.action = name} = {class}
  BY <1>1
<1> QED BY <1>2, <1>3 DEF ResolveCustomCommandClass

\* The pairs that are stored name the same class.
LEMMA StoredPairsResolveAlike ==
  ASSUME NEW values, NEW class \in CustomClasses, ResolveCustomCommandClass(values) = {class}
  PROVE  ResolveCustomCommandClass(KeyValues(class, values)) = {class}
<1> DEFINE stored == KeyValues(class, values)
<1>1. DOMAIN stored = DOMAIN values \cup {"classifier", "action"}
  BY DEF KeyValues
<1>2. \A key \in DOMAIN values : stored[key] = values[key]
  BY DEF KeyValues
<1> HIDE DEF stored
<1>3. \A key : key \notin {"classifier", "action"} => Lookup(stored, key) = Lookup(values, key)
  BY <1>1, <1>2 DEF Lookup
<1>4. /\ CapabilityOf(stored) = CapabilityOf(values)
      /\ Lookup(stored, "operation") = Lookup(values, "operation")
  BY <1>3 DEF CapabilityOf
<1>5. "action" \in DOMAIN values => Lookup(stored, "action") = Lookup(values, "action")
  BY <1>1, <1>2 DEF Lookup
<1>6. "action" \notin DOMAIN values => {c \in CustomClasses : c.action = Lookup(values, "action")} = {}
  <2>1. \A c \in CustomClasses : c.action # None
    <3>1. CustomClasses \subseteq {ChatOpCommand, CommandNullCommand, CommandShutdownAgent}
      BY DEF CustomClasses, CommandRegistry, RestartAgent
    <3>2. /\ ChatOpCommand.action # None /\ CommandNullCommand.action # None
          /\ CommandShutdownAgent.action # None
      BY DEF None, ChatOpCommand, CommandNullCommand, CommandShutdownAgent
    <3> QED BY <3>1, <3>2
  <2> QED BY <2>1 DEF Lookup
<1> QED BY <1>4, <1>5, <1>6 DEF ResolveCustomCommandClass, stored

-----------------------------------------------------------------------------
(* What is in the queue *)

\* The records that are ever queued, before and after they are sent.
Queued == {[CommandFor(values) EXCEPT !.sent = sent] :
              values \in RestPayloads \cup McpPayloads, sent \in BOOLEAN}

\* A record is the command its event describes, if any.
Described(command) ==
    /\ command = [classifier |-> command.classifier, action |-> command.action,
                  values |-> command.values, describes |-> command.describes,
                  sent |-> command.sent]
    /\ command.sent \in BOOLEAN
    /\ \/ command.describes = {}
       \/ /\ command.describes = {RestartAgent}
          /\ command.classifier = "command"
          /\ command.action = "restart"
       \/ \E class \in CustomClasses :
             /\ command.describes = {class}
             /\ command.classifier = "custom"
             /\ ResolveCustomCommandClass(command.values) = {class}

LEMMA AcceptedIsDescribed ==
  ASSUME NEW values
  PROVE  Described(CommandFor(values)) /\ ~CommandFor(values).sent
<1>1. CASE ObjectsFor(values) = {}
  BY <1>1 DEF CommandFor, Described
<1>2. CASE ObjectsFor(values) # {} /\ Lookup(values, "classifier") = "custom"
  <2>1. ObjectsFor(values) = ResolveCustomCommandClass(values)
    BY <1>2 DEF ObjectsFor, CommandObjectFactory
  <2>2. PICK class \in CustomClasses : ResolveCustomCommandClass(values) = {class}
    BY <1>2, <2>1, AtMostOneClass
  <2>3. (CHOOSE c \in ObjectsFor(values) : TRUE) = class
    BY <2>1, <2>2
  <2>4. class.classifier = "custom"
    BY DEF CustomClasses
  <2>5. /\ CommandFor(values).classifier = "custom"
        /\ CommandFor(values).values = KeyValues(class, values)
        /\ CommandFor(values).describes = {class}
        /\ CommandFor(values).sent = FALSE
        /\ CommandFor(values) =
              [classifier |-> CommandFor(values).classifier, action |-> CommandFor(values).action,
               values |-> CommandFor(values).values, describes |-> CommandFor(values).describes,
               sent |-> CommandFor(values).sent]
    BY <1>2, <2>1, <2>2, <2>3, <2>4 DEF CommandFor
  <2>6. ResolveCustomCommandClass(CommandFor(values).values) = {class}
    BY <2>2, <2>5, StoredPairsResolveAlike
  <2> QED BY <2>5, <2>6 DEF Described
<1>3. CASE ObjectsFor(values) # {} /\ Lookup(values, "classifier") # "custom"
  <2>1. ObjectsFor(values) = {RestartAgent} /\ RoutingAction(values) = "restart"
    BY <1>3 DEF ObjectsFor, CommandObjectFactory
  <2>2. (CHOOSE c \in ObjectsFor(values) : TRUE) = RestartAgent
    BY <2>1
  <2>3. RestartAgent.classifier = "command"
    BY DEF RestartAgent
  <2>4. /\ CommandFor(values).classifier = "command"
        /\ CommandFor(values).action = "restart"
        /\ CommandFor(values).describes = {RestartAgent}
        /\ CommandFor(values).sent = FALSE
        /\ CommandFor(values) =
              [classifier |-> CommandFor(values).classifier, action |-> CommandFor(values).action,
               values |-> CommandFor(values).values, describes |-> CommandFor(values).describes,
               sent |-> CommandFor(values).sent]
    BY <1>3, <2>1, <2>2, <2>3 DEF CommandFor
  <2> QED BY <2>4 DEF Described
<1> QED BY <1>1, <1>2, <1>3

\* Marking a command sent leaves it what it is.
LEMMA SentIsDescribed ==
  ASSUME NEW command, Described(command), NEW sent \in BOOLEAN
  PROVE  Described([command EXCEPT !.sent = sent])
<1> DEFINE marked == [command EXCEPT !.sent = sent]
<1>1. /\ marked.classifier = command.classifier /\ marked.action = command.action
      /\ marked.values = command.values /\ marked.describes = command.describes
      /\ marked.sent = sent
      /\ marked = [classifier |-> marked.classifier, action |-> marked.action,
                   values |-> marked.values, describes |-> marked.describes,
                   sent |-> marked.sent]
  BY DEF Described
<1> HIDE DEF marked
<1>2. Described(marked)
  BY <1>1 DEF Described
<1> QED BY <1>2 DEF marked

LEMMA QueuedIsDescribed == \A command \in Queued : Described(command)
<1> SUFFICES ASSUME NEW command \in Queued PROVE Described(command)
  OBVIOUS
<1>1. PICK values \in RestPayloads \cup McpPayloads, sent \in BOOLEAN :
         command = [CommandFor(values) EXCEPT !.sent = sent]
  BY DEF Queued
<1> QED BY <1>1, AcceptedIsDescribed, SentIsDescribed

\* The reply built from a record is the command of the class it describes.
LEMMA DescribedIsBuilt ==
  ASSUME NEW i, i # 0, Described(queue[i]), NEW class \in queue[i].describes
  PROVE  LET built == ApplyCommandIntent(NoPayload, i)
         IN  IF class = RestartAgent THEN built.command ELSE built.custom = class.fqdn
<1> DEFINE built == ApplyCommandIntent(NoPayload, i)
<1>1. CASE /\ queue[i].describes = {RestartAgent}
           /\ queue[i].classifier = "command" /\ queue[i].action = "restart"
  <2>1. built = [NoPayload EXCEPT !.command = TRUE, !.of = i]
    BY <1>1 DEF ApplyCommandIntent, BuildRestartCommand
  <2>2. built.command
    BY <2>1 DEF NoPayload
  <2> QED BY <1>1, <2>2
<1>2. ASSUME NEW custom \in CustomClasses, queue[i].describes = {custom},
             queue[i].classifier = "custom",
             ResolveCustomCommandClass(queue[i].values) = {custom}
      PROVE  built.custom = class.fqdn /\ class # RestartAgent
  <2>1. class = custom /\ class # RestartAgent
    BY <1>2 DEF CustomClasses, RestartAgent
  <2>2. CommandObjectFactory("custom", queue[i].values) = {class}
    BY <1>2, <2>1 DEF CommandObjectFactory
  <2>3. built = BuildCustomCommandPayload(NoPayload, i)
    BY <1>2 DEF ApplyCommandIntent
  <2>4. built = [NoPayload EXCEPT !.custom = class.fqdn, !.of = i]
    BY <1>2, <2>2, <2>3 DEF BuildCustomCommandPayload
  <2>5. built.custom = class.fqdn
    BY <2>4 DEF NoPayload
  <2> QED BY <2>1, <2>5
<1> QED BY <1>1, <1>2 DEF Described

-----------------------------------------------------------------------------
(* Replies *)

Earlier == {pair \in Nat \X Nat : pair[1] < pair[2]}

LEMMA EarlierIsWellFounded == IsWellFoundedOn(Earlier, Nat)
BY NatLessThanWellFounded, Zenon DEF OpToRel, Earlier

\* The first command that is not sent has a position in the queue, or is none.
LEMMA PendingCommandInQueue ==
  ASSUME queue \in Seq(Queued)
  PROVE  PendingCommand \in 0 .. Len(queue)
<1> DEFINE I == {i \in 1 .. Len(queue) : ~queue[i].sent}
<1>1. PendingCommand = IF I # {} THEN Min(I) ELSE 0
  BY DEF PendingCommand, SelectInSeq
<1>2. I \subseteq Nat /\ I \subseteq 1 .. Len(queue) /\ Len(queue) \in Nat
  OBVIOUS
<1> HIDE DEF I
<1>3. ASSUME I # {} PROVE Min(I) \in I
  <2>1. IsWellFoundedOn(Earlier, Nat)
    BY EarlierIsWellFounded
  <2>2. PICK first \in I : \A other \in I : ~ (<<other, first>> \in Earlier)
    BY <1>2, <1>3, <2>1, WFMin, Zenon
  <2>3. ASSUME NEW other \in I PROVE first =< other
    <3>1. first \in Nat /\ other \in Nat
      BY <1>2
    <3>2. ~ (other < first)
      BY <2>2, <3>1 DEF Earlier
    <3> QED BY <3>1, <3>2
  <2> QED BY <2>3 DEF Min
<1>4. I = {} \/ PendingCommand \in 1 .. Len(queue)
  BY <1>1, <1>2, <1>3
<1>5. I = {} => PendingCommand = 0
  BY <1>1
<1> QED BY <1>2, <1>4, <1>5

\* A custom message belongs to a command in the queue.
IsReply(reply) ==
    /\ {"custom", "of"} \subseteq DOMAIN reply
    /\ reply.custom # None => reply.of \in Positions

LEMMA NoPayloadIsReply == IsReply(NoPayload)
BY DEF NoPayload, IsReply

\* What the builders do to a reply.
LEMMA FilledIsReply ==
  ASSUME NEW reply, IsReply(reply), NEW i \in Positions
  PROVE  /\ IsReply([reply EXCEPT !.command = TRUE, !.of = i])
         /\ IsReply([reply EXCEPT !.flags = TRUE, !.of = i])
         /\ \A capability : IsReply([reply EXCEPT !.custom = capability, !.of = i])
<1>1. IsReply([reply EXCEPT !.command = TRUE, !.of = i])
  BY DEF IsReply
<1>2. IsReply([reply EXCEPT !.flags = TRUE, !.of = i])
  BY DEF IsReply
<1>3. \A capability : IsReply([reply EXCEPT !.custom = capability, !.of = i])
  BY DEF IsReply
<1> QED BY <1>1, <1>2, <1>3

LEMMA IntentIsReply ==
  ASSUME NEW reply, IsReply(reply), NEW i \in {0} \cup Positions
  PROVE  IsReply(ApplyCommandIntent(reply, i))
<1>1. i = 0 => ApplyCommandIntent(reply, i) = reply
  BY DEF ApplyCommandIntent
<1>2. ASSUME i # 0
      PROVE  /\ IsReply([reply EXCEPT !.command = TRUE, !.of = i])
             /\ IsReply([reply EXCEPT !.flags = TRUE, !.of = i])
             /\ \A capability : IsReply([reply EXCEPT !.custom = capability, !.of = i])
  BY <1>2, FilledIsReply
<1>3. i # 0 => \/ ApplyCommandIntent(reply, i) = reply
               \/ ApplyCommandIntent(reply, i) = [reply EXCEPT !.command = TRUE, !.of = i]
               \/ ApplyCommandIntent(reply, i) = [reply EXCEPT !.flags = TRUE, !.of = i]
               \/ \E capability :
                     ApplyCommandIntent(reply, i) = [reply EXCEPT !.custom = capability, !.of = i]
  <2>1. \E capability :
           BuildCustomCommandPayload(reply, i) = [reply EXCEPT !.custom = capability, !.of = i]
    BY DEF BuildCustomCommandPayload
  <2> QED BY <2>1 DEF ApplyCommandIntent, BuildRestartCommand, BuildForceResyncCommand
<1> QED BY <1>1, <1>2, <1>3

LEMMA AnswerIsReply ==
  ASSUME NEW action, NEW i \in {0} \cup Positions
  PROVE  IsReply(ApplyCommandIntent(ApplyNextAction(NoPayload, action, i), i))
<1>1. IsReply([NoPayload EXCEPT !.error = TRUE])
  BY DEF NoPayload, IsReply
<1>2. IsReply(ApplyNextAction(NoPayload, action, i))
  BY <1>1, NoPayloadIsReply, IntentIsReply DEF ApplyNextAction, BuildPackageAvailable
<1> QED BY <1>2, IntentIsReply

-----------------------------------------------------------------------------
(* The inductive invariant *)

\* A consumer that does not allow custom capabilities has found no handler.
NotAllowedNotFound == ~config.allow => lookup = {}

ExchangeTyped ==
    /\ {"phase", "reply"} \subseteq DOMAIN exchange
    /\ exchange.phase \in {"idle", "report", "answered", "handled once"}
    /\ IsReply(exchange.reply)

AgentTyped ==
    /\ lookup \subseteq Capabilities
    /\ handlers \subseteq Capabilities
    /\ config \in [running : BOOLEAN, allow : BOOLEAN]
    /\ reporting \in BOOLEAN
    /\ NotAllowedNotFound

OutcomeTyped ==
    /\ calls \subseteq [command : Positions, handler : Capabilities]
    /\ errors \subseteq [command : Positions, why : {"raised", "refused", "unregistered"}]

ProviderTyped ==
    /\ queue \in Seq(Queued) /\ Len(queue) <= MaxCommands
    /\ advertised \subseteq Capabilities

CommandsInv == ProviderTyped /\ AgentTyped /\ ExchangeTyped /\ OutcomeTyped

LEMMA CommandsInvImplies == CommandsInv => CommandsInvariant
<1> SUFFICES ASSUME CommandsInv PROVE CommandsInvariant
  OBVIOUS
<1>1. \A i \in DOMAIN queue : Described(queue[i]) /\ i # 0
  BY QueuedIsDescribed DEF CommandsInv, ProviderTyped
<1>2. \A i \in DOMAIN queue : queue[i].describes \subseteq CommandRegistry
  BY <1>1 DEF Described, CustomClasses, CommandRegistry
<1>3. \A i \in DOMAIN queue : queue[i].sent \in BOOLEAN
  BY <1>1 DEF Described
<1>4. TypeOK
  BY <1>2, <1>3 DEF TypeOK, CommandsInv, ProviderTyped, AgentTyped, ExchangeTyped, OutcomeTyped
<1>5. CommandsKeepTheirMeaning
  BY <1>1, DescribedIsBuilt DEF CommandsKeepTheirMeaning
<1> QED BY <1>4, <1>5 DEF CommandsInvariant

\* Whatever the lookup holds, only handlers of the folder or of the lookup are
\* found, and none where they are not allowed.
LEMMA FoundHandlers ==
  ASSUME AgentTyped
  PROVE  /\ CreateHandler(lookup) \subseteq Capabilities
         /\ CreateHandler({}) \subseteq Capabilities
         /\ ~config.allow => CreateHandler(lookup) = {} /\ CreateHandler({}) = {}
         /\ config.allow => CreateHandler({}) = handlers
BY DEF AgentTyped, NotAllowedNotFound, CreateHandler, BuildFactoryLookup

-----------------------------------------------------------------------------
(* Every step *)

LEMMA QueueingKeeps ==
  ASSUME CommandsInv, QueueCommand \/ InvokeCustomCommand
  PROVE  CommandsInv'
<1>1. PICK values \in RestPayloads \cup McpPayloads :
         /\ Len(queue) < MaxCommands
         /\ queue' = Append(queue, CommandFor(values))
         /\ UNCHANGED <<advertised, agent, exchange, outcome>>
  BY DEF QueueCommand, InvokeCustomCommand, QueueCommandFromPayload
<1>2. CommandFor(values) \in Queued
  <2>1. Described(CommandFor(values)) /\ ~CommandFor(values).sent
    BY AcceptedIsDescribed
  <2>2. CommandFor(values) = [CommandFor(values) EXCEPT !.sent = CommandFor(values).sent]
    BY <2>1 DEF Described
  <2>3. CommandFor(values).sent \in BOOLEAN
    BY <2>1 DEF Described
  <2> QED BY <2>2, <2>3 DEF Queued
<1>3. queue' \in Seq(Queued) /\ Len(queue') = Len(queue) + 1 /\ Len(queue) \in Nat
  BY <1>1, <1>2 DEF CommandsInv, ProviderTyped
<1>4. ProviderTyped'
  BY <1>1, <1>3, CommandsAssumption DEF CommandsInv, ProviderTyped
<1> QED
  BY <1>1, <1>4 DEF CommandsInv, AgentTyped, NotAllowedNotFound, ExchangeTyped, OutcomeTyped,
                    agent, outcome

LEMMA ReportKeeps ==
  ASSUME CommandsInv, Report
  PROVE  CommandsInv'
<1>1. ReportedLookup \subseteq Capabilities /\ (~config.allow => ReportedLookup = {})
  BY FoundHandlers DEF ReportedLookup, CommandsInv
<1>2. ProviderTyped'
  BY <1>1 DEF Report, CommandsInv, ProviderTyped
<1>3. AgentTyped'
  BY <1>1 DEF Report, CommandsInv, AgentTyped, NotAllowedNotFound
<1>4. ExchangeTyped'
  BY DEF Report, CommandsInv, ExchangeTyped
<1> QED BY <1>2, <1>3, <1>4 DEF Report, CommandsInv, OutcomeTyped, outcome

LEMMA AnswerKeeps ==
  ASSUME CommandsInv, NEW action, Answer(action)
  PROVE  CommandsInv'
<1> DEFINE i     == PendingCommand
           reply == ApplyCommandIntent(ApplyNextAction(NoPayload, action, i), i)
<1>1. i \in 0 .. Len(queue) /\ Len(queue) \in Nat
  BY PendingCommandInQueue DEF CommandsInv, ProviderTyped
<1>2. i \in {0} \cup Positions
  BY <1>1, CommandsAssumption DEF Positions, CommandsInv, ProviderTyped
<1>3. IsReply(reply)
  BY <1>2, AnswerIsReply
<1>4. /\ exchange' = [phase |-> "answered", reply |-> reply]
      /\ queue' = queue \/ (i # 0 /\ queue' = [queue EXCEPT ![i].sent = TRUE])
      /\ UNCHANGED <<advertised, agent, outcome>>
  BY DEF Answer
<1> HIDE DEF i, reply
<1>5. queue' \in Seq(Queued) /\ Len(queue') = Len(queue)
  <2>1. CASE queue' = queue
    BY <2>1 DEF CommandsInv, ProviderTyped
  <2>2. CASE i # 0 /\ queue' = [queue EXCEPT ![i].sent = TRUE]
    <3>1. i \in 1 .. Len(queue) /\ queue \in Seq(Queued)
      BY <1>1, <2>2 DEF CommandsInv, ProviderTyped
    <3>2. PICK values \in RestPayloads \cup McpPayloads, sent \in BOOLEAN :
             queue[i] = [CommandFor(values) EXCEPT !.sent = sent]
      BY <3>1 DEF Queued
    <3>3. [queue[i] EXCEPT !.sent = TRUE] = [CommandFor(values) EXCEPT !.sent = TRUE]
      BY <3>2
    <3>4. [queue[i] EXCEPT !.sent = TRUE] \in Queued
      <4>1. \A marked \in BOOLEAN : [CommandFor(values) EXCEPT !.sent = marked] \in Queued
        BY DEF Queued
      <4>2. [CommandFor(values) EXCEPT !.sent = TRUE] \in Queued
        BY <4>1, Zenon
      <4> QED BY <3>3, <4>2
    <3>5. queue' = [queue EXCEPT ![i] = [queue[i] EXCEPT !.sent = TRUE]]
      BY <2>2, <3>1
    <3> QED BY <3>1, <3>4, <3>5
  <2> QED BY <1>4, <2>1, <2>2
<1>6. ProviderTyped'
  BY <1>4, <1>5 DEF CommandsInv, ProviderTyped
<1>7. ExchangeTyped'
  BY <1>3, <1>4 DEF ExchangeTyped
<1> QED
  BY <1>4, <1>6, <1>7 DEF CommandsInv, AgentTyped, NotAllowedNotFound, OutcomeTyped, agent, outcome

LEMMA IdleTyped ==
  ASSUME exchange' = Idle
  PROVE  ExchangeTyped'
BY NoPayloadIsReply DEF ExchangeTyped, Idle

LEMMA LoseReplyKeeps ==
  ASSUME CommandsInv, LoseReply
  PROVE  CommandsInv'
BY IdleTyped DEF LoseReply, CommandsInv, ProviderTyped, AgentTyped, NotAllowedNotFound,
                 OutcomeTyped, provider, agent, outcome

LEMMA HandleReplyKeeps ==
  ASSUME CommandsInv, HandleReply
  PROVE  CommandsInv'
<1> DEFINE capability == exchange.reply.custom
           of         == exchange.reply.of
<1>1. ProviderTyped'
  BY DEF HandleReply, CommandsInv, ProviderTyped, provider
<1>2. ExchangeTyped'
  <2>1. CASE exchange.phase = "answered"
    BY <2>1 DEF HandleReply, AfterHandling, CommandsInv, ExchangeTyped
  <2>2. CASE exchange.phase # "answered"
    BY <2>2, IdleTyped DEF HandleReply, AfterHandling
  <2> QED BY <2>1, <2>2
<1>3. lookup' = lookup \/ lookup' = {}
  BY DEF HandleReply, HandleCustomMessage
<1>4. AgentTyped'
  <2>1. reporting' \in BOOLEAN
    BY DEF HandleReply
  <2> QED BY <1>3, <2>1 DEF HandleReply, CommandsInv, AgentTyped, NotAllowedNotFound
<1>5. OutcomeTyped'
  <2>1. CASE capability = None
    BY <2>1 DEF HandleReply, CommandsInv, OutcomeTyped, outcome
  <2>2. CASE capability # None
    <3>1. of \in Positions
      BY <2>2 DEF CommandsInv, ExchangeTyped, IsReply
    <3>2. \A why \in {"raised", "refused", "unregistered"} :
             [command |-> of, why |-> why] \in [command : Positions, why : {"raised", "refused", "unregistered"}]
      BY <3>1
    <3>3. errors' \subseteq [command : Positions, why : {"raised", "refused", "unregistered"}]
      BY <2>2, <3>2 DEF HandleReply, HandleCustomMessage, Execute, Failed, CommandsInv, OutcomeTyped
    <3>4. CASE capability \in CreateHandler(lookup) \cup CreateHandler({})
      <4>1. capability \in Capabilities
        BY <3>4, FoundHandlers DEF CommandsInv
      <4>2. calls' = calls \cup {[command |-> of, handler |-> capability]}
        BY <2>2, <3>4 DEF HandleReply, HandleCustomMessage, Execute
      <4> QED BY <3>1, <3>3, <4>1, <4>2 DEF CommandsInv, OutcomeTyped
    <3>5. CASE capability \notin CreateHandler(lookup) \cup CreateHandler({})
      <4>1. calls' = calls
        BY <2>2, <3>5 DEF HandleReply, HandleCustomMessage
      <4> QED BY <3>3, <4>1 DEF CommandsInv, OutcomeTyped
    <3> QED BY <3>4, <3>5
  <2> QED BY <2>1, <2>2
<1> QED BY <1>1, <1>2, <1>4, <1>5 DEF CommandsInv

LEMMA ShutDownKeeps ==
  ASSUME CommandsInv, ShutDown
  PROVE  CommandsInv'
<1>1. exchange.reply.custom \in Capabilities
  BY FoundHandlers DEF ShutDown, ShutsDown, CommandsInv
<1>2. exchange.reply.of \in Positions
  <2>1. exchange.reply.custom # None
    BY DEF ShutDown, ShutsDown, CommandShutdownAgent, None
  <2> QED BY <2>1 DEF CommandsInv, ExchangeTyped, IsReply
<1>3. OutcomeTyped'
  <2>1. calls' \subseteq [command : Positions, handler : Capabilities]
    <3>1. calls' = calls \cup {[command |-> exchange.reply.of, handler |-> exchange.reply.custom]}
      BY DEF ShutDown
    <3>2. [command |-> exchange.reply.of, handler |-> exchange.reply.custom]
             \in [command : Positions, handler : Capabilities]
      BY <1>1, <1>2
    <3> QED BY <3>1, <3>2 DEF CommandsInv, OutcomeTyped
  <2>2. errors' \subseteq [command : Positions, why : {"raised", "refused", "unregistered"}]
    <3>1. \/ errors' = errors
          \/ errors' = errors \cup {[command |-> exchange.reply.of, why |-> "raised"]}
      BY DEF ShutDown, Failed
    <3>2. [command |-> exchange.reply.of, why |-> "raised"]
             \in [command : Positions, why : {"raised", "refused", "unregistered"}]
      BY <1>2
    <3> QED BY <3>1, <3>2 DEF CommandsInv, OutcomeTyped
  <2> QED BY <2>1, <2>2 DEF OutcomeTyped
<1>4. config' \in [running : BOOLEAN, allow : BOOLEAN] /\ config'.allow = config.allow
  BY DEF ShutDown, CommandsInv, AgentTyped
<1>5. AgentTyped'
  BY <1>4 DEF ShutDown, CommandsInv, AgentTyped, NotAllowedNotFound
<1>6. ExchangeTyped'
  BY IdleTyped DEF ShutDown
<1> QED BY <1>3, <1>5, <1>6 DEF ShutDown, CommandsInv, ProviderTyped, provider

LEMMA StartAgentKeeps ==
  ASSUME CommandsInv, NEW allow \in BOOLEAN, StartAgent(allow)
  PROVE  CommandsInv'
<1>1. config' \in [running : BOOLEAN, allow : BOOLEAN] /\ (config'.allow <=> allow)
  BY DEF StartAgent
<1>2. AgentTyped'
  BY <1>1 DEF StartAgent, CommandsInv, AgentTyped, NotAllowedNotFound
<1> QED BY <1>2 DEF StartAgent, CommandsInv, ProviderTyped, ExchangeTyped, OutcomeTyped,
                    provider, outcome

LEMMA FolderChangesKeeps ==
  ASSUME CommandsInv, NEW present \in SUBSET Capabilities, FolderChanges(present)
  PROVE  CommandsInv'
BY DEF FolderChanges, CommandsInv, ProviderTyped, AgentTyped, NotAllowedNotFound, ExchangeTyped,
       OutcomeTyped, provider, outcome

LEMMA CommandsInvInit == Init => CommandsInv
<1> SUFFICES ASSUME Init PROVE CommandsInv
  OBVIOUS
<1>1. ProviderTyped
  BY CommandsAssumption DEF Init, ProviderTyped
<1>2. AgentTyped
  BY DEF Init, AgentTyped, NotAllowedNotFound
<1>3. ExchangeTyped
  BY NoPayloadIsReply DEF Init, ExchangeTyped, Idle
<1> QED BY <1>1, <1>2, <1>3 DEF Init, CommandsInv, OutcomeTyped

LEMMA CommandsInvStep == CommandsInv /\ [Next]_vars => CommandsInv'
<1> SUFFICES ASSUME CommandsInv, [Next]_vars PROVE CommandsInv'
  OBVIOUS
<1>1. CASE UNCHANGED vars
  BY <1>1 DEF vars, CommandsInv, ProviderTyped, AgentTyped, NotAllowedNotFound, ExchangeTyped,
              OutcomeTyped
<1> QED
  BY <1>1, QueueingKeeps, ReportKeeps, AnswerKeeps, LoseReplyKeeps, HandleReplyKeeps,
     ShutDownKeeps, StartAgentKeeps, FolderChangesKeeps DEF Next

LEMMA CommandsInvAlways == Spec => []CommandsInv
BY CommandsInvInit, CommandsInvStep, PTL DEF Spec

-----------------------------------------------------------------------------
(* Theorems *)

\* A command is sent as what it was accepted as, whatever pairs it was asked for
\* with: command_queue.py:207-288, app.py:_apply_command_intent.
THEOREM CommandsInvariantAlways == Spec => []CommandsInvariant
BY CommandsInvImplies, CommandsInvAlways, PTL

\* A handler in the folder of an agent that allows custom capabilities is never
\* called unregistered, also after a miss has emptied the lookup.
THEOREM HandlerInFolderIsFoundAlways == Spec => HandlerInFolderIsFound
<1> DEFINE Found(i) ==
       [command |-> i, why |-> "unregistered"] \in errors' \ errors
           => ~config.allow \/ exchange.reply.custom \notin handlers
<1>1. ASSUME CommandsInv, [Next]_vars, NEW i \in Positions
      PROVE  Found(i)
  <2>1. CASE HandleReply
    <3>1. CASE exchange.reply.custom = None
      BY <2>1, <3>1 DEF HandleReply, outcome
    <3>2. CASE exchange.reply.custom # None
      <4>1. CASE exchange.reply.custom \in CreateHandler(lookup) \cup CreateHandler({})
        <5>1. \/ errors' = errors
              \/ errors' = errors \cup {[command |-> exchange.reply.of, why |-> "raised"]}
              \/ errors' = errors \cup {[command |-> exchange.reply.of, why |-> "refused"]}
          BY <2>1, <3>2, <4>1 DEF HandleReply, HandleCustomMessage, Execute, Failed
        <5> QED BY <5>1
      <4>2. CASE exchange.reply.custom \notin CreateHandler(lookup) \cup CreateHandler({})
        <5>1. config.allow => CreateHandler({}) = handlers
          BY <1>1, FoundHandlers DEF CommandsInv
        <5> QED BY <4>2, <5>1
      <4> QED BY <4>1, <4>2
    <3> QED BY <3>1, <3>2
  <2>2. CASE ShutDown
    <3>1. errors' = errors
          \/ errors' = errors \cup {[command |-> exchange.reply.of, why |-> "raised"]}
      BY <2>2 DEF ShutDown, Failed
    <3> QED BY <3>1
  <2>3. CASE errors' = errors
    BY <2>3
  <2>4. HandleReply \/ ShutDown \/ errors' = errors
    BY <1>1 DEF Next, vars, QueueCommand, InvokeCustomCommand, QueueCommandFromPayload, Report,
                Answer, LoseReply, StartAgent, FolderChanges, outcome
  <2> QED BY <2>1, <2>2, <2>3, <2>4
<1>2. CommandsInv /\ [Next]_vars => \A i \in Positions : Found(i)
  BY <1>1
<1>3. CommandsInv /\ [Next]_vars =>
         [\A i \in Positions :
             [command |-> i, why |-> "unregistered"] \in errors' \ errors
             => ~config.allow \/ exchange.reply.custom \notin handlers]_vars
  BY <1>2
<1> QED BY <1>3, CommandsInvAlways, PTL DEF Spec, HandlerInFolderIsFound

\* Without allow_custom_capabilities no handler runs and none is advertised, on
\* each of the three ways the lookup is filled.
THEOREM DisabledRunsNothingAlways == Spec => DisabledRunsNothing
<1>1. ASSUME CommandsInv, [Next]_vars, ~config.allow
      PROVE  calls' = calls /\ advertised' = advertised
  <2>1. CreateHandler(lookup) = {} /\ CreateHandler({}) = {}
    BY <1>1, FoundHandlers DEF CommandsInv
  <2>2. CASE Report
    BY <2>1, <2>2 DEF Report, ReportedLookup, outcome
  <2>3. CASE HandleReply
    BY <2>1, <2>3 DEF HandleReply, HandleCustomMessage, outcome, provider
  <2>4. ~ShutDown
    BY <2>1 DEF ShutDown, ShutsDown
  <2>5. Report \/ HandleReply \/ ShutDown \/ UNCHANGED <<calls, advertised>>
    BY <1>1 DEF Next, vars, QueueCommand, InvokeCustomCommand, QueueCommandFromPayload, Answer,
                LoseReply, StartAgent, FolderChanges, outcome, provider
  <2> QED BY <2>2, <2>3, <2>4, <2>5
<1>2. CommandsInv /\ [Next]_vars => [~config.allow => calls' = calls /\ advertised' = advertised]_vars
  BY <1>1
<1> QED BY <1>2, CommandsInvAlways, PTL DEF Spec, DisabledRunsNothing
=============================================================================
