------------------------- MODULE BrokerConversation -------------------------
(***************************************************************************)
(* What the agent broker does with a message: it plans a call of one of    *)
(* the tools that the provider offers over MCP, asks for a confirmation or *)
(* calls the tool, and replies.  All handlers share one MCP client with    *)
(* one session id, and one cache of tools, filled at the start of the      *)
(* broker or, while it is empty, by any message.  The provider goes away   *)
(* and comes back without its sessions.                                    *)
(*                                                                         *)
(* Everything runs in one event loop; a step goes from one await to the    *)
(* next.  The sessions of the threads are in BrokerSessions.               *)
(***************************************************************************)
EXTENDS Integers, FiniteSets

CONSTANTS
    Messages,      \* messages of users, each handled by a task of its own
    Main,          \* the task of broker_app.main
    Tools,         \* what the provider offers
    Fits(_),       \* the words of the planner's rules that are in a tool's name
    NoTool,
    MaxAttempts,   \* startup_discovery_max_attempts
    MaxSessions,   \* bound: sessions that the provider opens
    MaxOutages     \* bound: how often the provider goes away

\* Hints of the rules, and the names of what wants a confirmation.
Words == {"agents", "status", "config", "restart", "delete"}
Dangerous == {"restart", "delete"}

ASSUME ConversationAssumption ==
    /\ Main \notin Messages
    /\ NoTool \notin Tools
    /\ \A tool \in Tools : Fits(tool) \subseteq Words
    /\ {MaxAttempts, MaxSessions} \subseteq Nat \ {0}
    /\ MaxOutages \in Nat

Tasks == Messages \cup {Main}
MaybeTool == Tools \cup {NoTool}

\* What the client can hold for a session id: none, that of a session that was never
\* initialised, or one that an initialize opened.
NoSession == 0
Uninitialised == -1
SessionIds == {Uninitialised} \cup 0 .. MaxSessions

\* protocol_version_attempts has two versions
Versions == 1 .. 2

\* What a user writes, as far as the planner tells it apart: the name of a tool; a
\* sentence that begins with a keyword; or one that asks for help, for agents, or for
\* anything else.
Texts == [says : {"name"}, tool : Tools]
             \cup [says : {"status", "config", "restart", "help", "agents", "other"},
                   tool : {NoTool}]

NoPlan == [tool |-> NoTool, confirm |-> FALSE]
Plans == [tool : MaybeTool, confirm : BOOLEAN]

VARIABLES
    planner,       \* create_planner: "rules" or "llm"
    provider,      \* "up" or "away"
    serverSessions, \* the sessions that it knows, and how many it has opened
    outages,
    cachedTools,   \* MCPToolRegistry._tools
    mcpSession,    \* MCPClient._mcp_session_id
    attempts,      \* attempts of the discovery at the start
    task,          \* what each task is doing
    disturbed,     \* history: since a discovery began alone, the provider went
                   \* away, or an attempt to open a session failed;
    overlapped     \* another discovery began

conversationVars == <<planner, provider, serverSessions, outages, cachedTools, mcpSession,
                      attempts, task, disturbed, overlapped>>

Task == [at : {"idle", "planning", "initialize", "list", "llm", "call", "done", "backoff"},
         version : Versions,
         sent : {"no", "yes",          \* the request has left; the headers of a
                 "begun", "refused"},  \* good response or of a refusal are there;
         header : SessionIds,          \* the session id that the request had
         tools : SUBSET Tools,         \* tool_names in plan_action
         plan : Plans,
         reply : {"none", "offline", "error", "confirm?", "text", "result"}]

Rest == [at |-> "idle", version |-> 1, sent |-> "no",
         header |-> NoSession, tools |-> {}, plan |-> NoPlan,
         reply |-> "none"]

ConversationTypeOK ==
    /\ planner \in {"rules", "llm"}
    /\ provider \in {"up", "away"}
    /\ serverSessions \in [known : SUBSET (1 .. MaxSessions), opened : 0 .. MaxSessions]
    /\ outages \in 0 .. MaxOutages
    /\ cachedTools \subseteq Tools
    /\ mcpSession \in {Uninitialised} \cup 0 .. serverSessions.opened
    /\ attempts \in 0 .. MaxAttempts
    /\ task \in [Tasks -> Task]
    /\ \A t \in Tasks : (t # Main /\ task[t].at = "done") <=> task[t].reply # "none"
    /\ disturbed \in BOOLEAN
    /\ overlapped \in BOOLEAN

ConversationInit ==
    /\ planner \in {"rules", "llm"}
    /\ provider \in {"up", "away"}
    /\ serverSessions = [known |-> {}, opened |-> 0]
    /\ outages = 0
    /\ cachedTools = {}
    /\ mcpSession = NoSession
    /\ attempts = 0
    /\ task = [t \in Tasks |-> IF t = Main THEN [Rest EXCEPT !.at = "backoff"] ELSE Rest]
    /\ disturbed = FALSE
    /\ overlapped = FALSE

environment == <<planner, provider, serverSessions, outages>>
history == <<disturbed, overlapped>>

-----------------------------------------------------------------------------
\* Ends of a handler

\* execute_or_summarize, then the reply of the Slack handler.
Replies(t, text) ==
    task' = [task EXCEPT ![t] = [Rest EXCEPT !.at = "done", !.reply = text]]

\* The tools and the planner to be used.
PlansWith(t, tools) ==
    task' = [task EXCEPT ![t] = [Rest EXCEPT !.at = "llm", !.tools = tools]]

\* A discovery that failed: the message goes on with what is cached; unless the
\* provider could not be reached, which ends it.
DiscoveryFails(t, unreachable) ==
    \/ /\ t = Main
       /\ task' = [task EXCEPT ![t] = [Rest EXCEPT !.at = "backoff"]]
    \/ /\ t # Main
       /\ unreachable
       /\ Replies(t, "offline")
    \/ /\ t # Main
       /\ ~unreachable
       /\ PlansWith(t, cachedTools)

-----------------------------------------------------------------------------
\* Discovery of tools: MCPClient.discover_tools, MCPToolRegistry.refresh

Discovers(t) == task[t].at \in {"initialize", "list"}

BeginDiscovery(t) ==
    /\ mcpSession' = NoSession
    /\ overlapped' = \E u \in Tasks \ {t} : Discovers(u)
    /\ disturbed' = (disturbed /\ overlapped')
    /\ task' = [task EXCEPT ![t].at = "initialize", ![t].version = 1]

\* _refresh_tools_with_backoff; after the last attempt main goes on without tools.
StartupDiscovery ==
    /\ task[Main].at = "backoff"
    /\ IF attempts < MaxAttempts
       THEN /\ attempts' = attempts + 1
            /\ BeginDiscovery(Main)
       ELSE /\ task' = [task EXCEPT ![Main].at = "done"]
            /\ UNCHANGED <<attempts, mcpSession, disturbed, overlapped>>
    /\ UNCHANGED <<environment, cachedTools>>

\* _rpc up to the request: the session id is read when the request leaves.
SendRequest(t) ==
    /\ task[t].at \in {"initialize", "list", "call"}
    /\ task[t].sent = "no"
    /\ task' = [task EXCEPT ![t].sent = "yes",
                   ![t].header = IF task[t].at = "initialize" THEN NoSession ELSE mcpSession]
    /\ UNCHANGED <<environment, cachedTools, mcpSession, attempts, history>>

\* The server answers a request with a session that it knows, and says its id
\* again.  (External.)
Knows(header) == header \in serverSessions.known

\* The server opens a session for an initialize request.  (External.)
OpensSession ==
    /\ serverSessions.opened < MaxSessions
    /\ serverSessions' = [known |-> serverSessions.known \cup {serverSessions.opened + 1},
                          opened |-> serverSessions.opened + 1]

\* The headers of a response bring a session id, which the client takes at once; the
\* body comes later.
ResponseBegins(t) ==
    /\ task[t].sent = "yes"
    /\ provider = "up"
    /\ \/ /\ task[t].at = "initialize"
          /\ OpensSession
          /\ mcpSession' = serverSessions'.opened
       \/ /\ task[t].at \in {"list", "call"}
          /\ Knows(task[t].header)
          /\ mcpSession' = task[t].header
          /\ UNCHANGED serverSessions
    /\ task' = [task EXCEPT ![t].sent = "begun"]
    /\ UNCHANGED <<planner, provider, outages, cachedTools, attempts, history>>

\* The ids that may come with a refusal.  A request without a session is given one
\* all the same, which nobody has initialised; what is sent in that one is refused
\* with its id; and a session that the server does not know is not named.  (External.)
RefusalIds(header) ==
    IF header \in {NoSession, Uninitialised} THEN {mcpSession, Uninitialised} ELSE {mcpSession}

\* The headers of a refusal: the client takes the id before it looks at the status.
RefusalBegins(t) ==
    /\ task[t].sent = "yes"
    /\ provider = "up"
    /\ \/ task[t].at = "initialize"
       \/ task[t].at \in {"list", "call"} /\ ~Knows(task[t].header)
    /\ mcpSession' \in RefusalIds(task[t].header)
    /\ task' = [task EXCEPT ![t].sent = "refused"]
    /\ disturbed' = (disturbed \/ task[t].at = "initialize")
    /\ UNCHANGED <<environment, cachedTools, attempts, overlapped>>

InitializeEnds(t) ==
    /\ task[t].at = "initialize"
    /\ task[t].sent = "begun"
    /\ task' = [task EXCEPT ![t].at = "list", ![t].sent = "no"]
    /\ UNCHANGED <<environment, cachedTools, mcpSession, attempts, history>>

\* Whatever goes wrong, the next version is tried; then the last error is raised.
InitializeFails(t) ==
    /\ task[t].at = "initialize"
    /\ task[t].sent # "no"
    /\ IF task[t].version = 1
       THEN task' = [task EXCEPT ![t].version = 2, ![t].sent = "no"]
       ELSE \E unreachable \in BOOLEAN :
               /\ provider = "away" => unreachable
               /\ DiscoveryFails(t, unreachable)
    /\ disturbed' = TRUE
    /\ UNCHANGED <<environment, cachedTools, mcpSession, attempts, overlapped>>

\* Seeded error: the session id is reset after the discovery.
FaultyToolsListed(t) ==
    /\ cachedTools' = Tools
    /\ mcpSession' = NoSession
    /\ IF t = Main
       THEN task' = [task EXCEPT ![t] = [Rest EXCEPT !.at = "done"]]
       ELSE PlansWith(t, Tools)

\* discover_tools and refresh after the list has come.
ToolsListed(t) ==
    /\ cachedTools' = Tools
    /\ IF t = Main
       THEN task' = [task EXCEPT ![t] = [Rest EXCEPT !.at = "done"]]
       ELSE PlansWith(t, Tools)
    /\ UNCHANGED mcpSession

ListEnds(t) ==
    /\ task[t].at = "list"
    /\ task[t].sent = "begun"
    /\ ToolsListed(t)
    /\ UNCHANGED <<environment, attempts, history>>

\* What the outage cuts off is taken for unreachable, a refused session is not.
Refused(t) == task[t].sent = "refused"
CutOff(t)  == task[t].sent # "no" /\ provider = "away"

ListFails(t) ==
    /\ task[t].at = "list"
    /\ \/ CutOff(t) /\ DiscoveryFails(t, TRUE)
       \/ Refused(t) /\ DiscoveryFails(t, FALSE)
    /\ UNCHANGED <<environment, cachedTools, mcpSession, attempts, history>>

-----------------------------------------------------------------------------
\* Messages: normalize_input, classify_intent, plan_action, execute_or_summarize

\* Slack handlers are registered when main is through with the discovery.
Listens(m) == task[Main].at = "done" /\ task[m].at \in {"idle", "done"}

\* A mention or a direct message; nothing else that is said reaches _process_message.
MessageArrives(m) ==
    /\ Listens(m)
    /\ task' = [task EXCEPT ![m] = [Rest EXCEPT !.at = "planning"]]
    /\ UNCHANGED <<environment, cachedTools, mcpSession, attempts, history>>

\* The slash command; alone it is answered with the help text at once.
HandleCommand(m) ==
    /\ Listens(m)
    /\ \/ task' = [task EXCEPT ![m] = [Rest EXCEPT !.at = "planning"]]
       \/ Replies(m, "text")
    /\ UNCHANGED <<environment, cachedTools, mcpSession, attempts, history>>

\* Tools are discovered only while none are cached.
PlanAction(m) ==
    /\ task[m].at = "planning"
    /\ IF cachedTools = {}
       THEN BeginDiscovery(m)
       ELSE /\ PlansWith(m, cachedTools)
            /\ UNCHANGED <<mcpSession, disturbed, overlapped>>
    /\ UNCHANGED <<environment, cachedTools, attempts>>

Fitting(tools, word) == {tool \in tools : word \in Fits(tool)}

\* One of the tools, if there is one.
OneOf(tools) == IF tools = {} THEN NoTool ELSE CHOOSE tool \in tools : TRUE

\* RuleFirstPlanner.plan: a tool that is named; none for a question for help; one
\* that fits the keyword, or the agents, or else one that tells a status.
RuleFirstPlan(text, tools) ==
    CASE text.says = "name" /\ text.tool \in tools ->
            [tool |-> text.tool, confirm |-> Fits(text.tool) \cap Dangerous # {}]
      [] text.says = "help" -> NoPlan
      [] text.says \in {"status", "config", "restart"} ->
            [tool |-> OneOf(Fitting(tools, text.says)), confirm |-> text.says = "restart"]
      [] text.says = "agents" /\ Fitting(tools, "agents") # {} ->
            [tool |-> OneOf(Fitting(tools, "agents")), confirm |-> FALSE]
      [] OTHER ->
            [tool |-> OneOf(Fitting(tools, "status")), confirm |-> FALSE]

\* What the model makes of a request: it chooses any tool, also one that is not
\* there, and says itself whether it wants a confirmation; or it cannot be reached,
\* answers with an error, or with what is no plan.
NoCompletion == <<>>
Completions == Plans \cup {NoCompletion}

SanitizedPlan(completion, tools) ==
    [completion EXCEPT !.tool = IF @ \in tools THEN @ ELSE NoTool]

\* The rules are the planner, or stand in for a model that failed.
PossiblePlans(m, text) ==
    LET rules == RuleFirstPlan(text, task[m].tools)
    IN  IF planner = "rules" THEN {rules}
        ELSE {IF completion = NoCompletion THEN rules
              ELSE SanitizedPlan(completion, task[m].tools) : completion \in Completions}

\* The end of plan_action, and execute_or_summarize up to the call of the tool.
\* The planner's word on a confirmation replaces that of classify_intent, which is
\* left out.  (The text is chosen here, where it is first looked at.)
ExecuteOrSummarize(m) ==
    /\ task[m].at = "llm"
    /\ \E text \in Texts : \E plan \in PossiblePlans(m, text) :
          IF plan.tool = NoTool THEN Replies(m, "text")
          ELSE IF plan.confirm THEN Replies(m, "confirm?")
          ELSE task' = [task EXCEPT ![m] = [Rest EXCEPT !.at = "call", !.plan = plan]]
    /\ UNCHANGED <<environment, cachedTools, mcpSession, attempts, history>>

\* Seeded error: a refused call is sent again, for ever.
FaultyCallEnds(m) ==
    \/ task[m].sent = "begun" /\ Replies(m, "result")
    \/ Refused(m) /\ task' = [task EXCEPT ![m].sent = "no"]
    \/ CutOff(m) /\ Replies(m, "offline")

\* MCPServerUnavailableError is told apart in execute_or_summarize; any other
\* exception reaches the Slack handler, which apologises.
CallEnds(m) ==
    \/ task[m].sent = "begun" /\ Replies(m, "result")
    \/ Refused(m) /\ Replies(m, "error")
    \/ CutOff(m) /\ Replies(m, "offline")

CallTool(m) ==
    /\ task[m].at = "call"
    /\ CallEnds(m)
    /\ UNCHANGED <<environment, cachedTools, mcpSession, attempts, history>>

-----------------------------------------------------------------------------
\* The provider

ProviderGoes ==
    /\ provider = "up"
    /\ outages < MaxOutages
    /\ provider' = "away"
    /\ outages' = outages + 1
    /\ serverSessions' = [serverSessions EXCEPT !.known = {}]
    /\ disturbed' = TRUE
    /\ UNCHANGED <<planner, cachedTools, mcpSession, attempts, task, overlapped>>

ProviderComes ==
    /\ provider = "away"
    /\ provider' = "up"
    /\ UNCHANGED <<planner, serverSessions, outages, cachedTools, mcpSession, attempts, task,
                   history>>

Rpc(t) ==
    \/ SendRequest(t)
    \/ ResponseBegins(t) \/ RefusalBegins(t)
    \/ InitializeEnds(t) \/ InitializeFails(t)
    \/ ListEnds(t) \/ ListFails(t)

Handle(m) ==
    \/ PlanAction(m) \/ ExecuteOrSummarize(m) \/ CallTool(m)

ConversationNext ==
    \/ StartupDiscovery
    \/ \E t \in Tasks : Rpc(t)
    \/ \E m \in Messages : MessageArrives(m) \/ HandleCommand(m) \/ Handle(m)
    \/ ProviderGoes \/ ProviderComes

\* The event loop runs every task that can go on.  Neither messages nor the
\* provider need ever come.
ConversationFairness ==
    /\ WF_conversationVars(StartupDiscovery)
    /\ \A t \in Tasks : WF_conversationVars(Rpc(t))
    /\ \A m \in Messages : WF_conversationVars(Handle(m))

ConversationSpec ==
    ConversationInit /\ [][ConversationNext]_conversationVars /\ ConversationFairness

-----------------------------------------------------------------------------
\* Properties

\* Every message gets a reply, whatever the planner answers, whether the provider
\* is there or not, and whether it knows the session (handlers.py:128-182).
EveryMessageAnswered ==
    \A m \in Messages : (task[m].at = "planning") ~> (task[m].at = "done")

\* The tools in the cache can be called: the client holds a session that the
\* provider knows.  A provider that went away or refused to open a session may leave
\* a broker with tools and no session.  Discoveries that overlap take the session id
\* from each other, but never leave the client without one: at worst with that of a
\* session that nobody has initialised (client.py:167-172, 292, nodes.py:803).
CachedToolsHaveSession ==
    (cachedTools # {} /\ ~disturbed /\ \A t \in Tasks : ~Discovers(t)) =>
        Knows(mcpSession) \/ (overlapped /\ mcpSession = Uninitialised)

\* The shape of the state, and tools that can be called (mcp/client.py:290-322).
ConversationInvariant == ConversationTypeOK /\ CachedToolsHaveSession

\* "The broker uses provider MCP JSON-RPC calls in this sequence: initialize,
\* tools/list, tools/call" (docs/broker_startup_and_shutdown.md:369-373): once tools
\* are listed, they are called in a session that an initialize has opened, however
\* many messages have discovered them.
CallsFollowInitialize ==
    (cachedTools # {} /\ ~disturbed /\ \A t \in Tasks : ~Discovers(t)) => Knows(mcpSession)

=============================================================================
