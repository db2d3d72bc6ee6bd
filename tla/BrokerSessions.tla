---------------------------- MODULE BrokerSessions ----------------------------
(***************************************************************************)
(* The agent broker (agent_broker/opamp_broker): conversations in threads, *)
(* the handlers that use them, the sweeper that expires idle ones, and the *)
(* shutdown that says goodbye to those left.                               *)
(*                                                                         *)
(* Everything runs in one event loop; a step here goes from one await that *)
(* can suspend to the next.  (The lock of SessionManager is never held     *)
(* across one.)  Time is abstracted to whether a session has been idle for *)
(* longer than idle_timeout_seconds.  Slack, the graph with its language   *)
(* model, and the users are external: they answer or fail as they like.    *)
(***************************************************************************)
EXTENDS Naturals, FiniteSets

CONSTANTS
    Threads,      \* keys of SessionManager
    Handlers,     \* messages that can be in hand at a time
    Signals,      \* deliveries of SIGINT or SIGTERM
    NoThread      \* what a handler without a message works for

ASSUME BrokerAssumption == NoThread \notin Threads

VARIABLES
    broker,       \* main: "ready", "stopping" (stop_event awaited), "gone"
    goodbyes,     \* config: send_idle_goodbye, send_shutdown_goodbye
    sessions,     \* SessionManager._sessions: thread -> "active" or "idle"
    sweeper,      \* locals of SessionSweeper.run and on_expire
    shutdowns,    \* signal -> locals of its shutdown task
    handlers,     \* thread of the message each handler has in the graph
    late          \* history: threads used since the first shutdown began

vars == <<broker, goodbyes, sessions, sweeper, shutdowns, handlers, late>>

Idle == {t \in DOMAIN sessions : sessions[t] = "idle"}
Without(threads) == [t \in DOMAIN sessions \ threads |-> sessions[t]]

Running == broker \in {"ready", "stopping"}

Sweeper ==
    [phase: {"waiting", "goodbye", "failed"},
     due: SUBSET Threads,       \* found idle in this pass, not visited yet
     removed: SUBSET Threads,   \* those of them that a shutdown has deleted since
     at: Threads \cup {NoThread}]   \* whose goodbye is being posted
AtRest == [phase |-> "waiting", due |-> {}, removed |-> {}, at |-> NoThread]

\* A shutdown task: the rest of its copy of the sessions; the first of them is the
\* one whose goodbye is being posted, but which one that is makes no difference.
Shutdown == [begun: BOOLEAN, leaving: SUBSET Threads]

Init ==
    /\ broker = "ready"
    /\ goodbyes \in [idle: BOOLEAN, shutdown: BOOLEAN]
    /\ sessions = <<>>
    /\ sweeper = AtRest
    /\ shutdowns = [s \in Signals |-> [begun |-> FALSE, leaving |-> {}]]
    /\ handlers = [h \in Handlers |-> NoThread]
    /\ late = {}

-----------------------------------------------------------------------------
(* Messages *)

\* Seeded error: a sweeper that copies the times together with the list.
FaultyUsed(t) ==
    /\ sessions' = [u \in DOMAIN sessions \cup {t} |->
                       IF u = t THEN "active" ELSE sessions[u]]
    /\ UNCHANGED sweeper
    /\ late' = IF broker = "stopping" THEN late \cup {t} ELSE late

\* A session object is created, or its last_activity_at set to now.  The sweeper
\* reads the last_activity_at of the objects it listed: another object, if the
\* session was deleted and created again since.
Used(t) ==
    /\ sessions' = [u \in DOMAIN sessions \cup {t} |->
                       IF u = t THEN "active" ELSE sessions[u]]
    /\ sweeper' = [sweeper EXCEPT !.due = @ \ ({t} \ sweeper.removed)]
    /\ late' = IF broker = "stopping" THEN late \cup {t} ELSE late

\* _process_message, handle_command: upsert, then the graph is awaited.
Receive(h, t) ==
    /\ Running
    /\ handlers[h] = NoThread
    /\ Used(t)
    /\ handlers' = [handlers EXCEPT ![h] = t]
    /\ UNCHANGED <<broker, goodbyes, shutdowns>>

\* The graph returns: SessionManager.update changes nothing if the session is gone.
GraphReturns(h) ==
    /\ Running
    /\ handlers[h] # NoThread
    /\ IF handlers[h] \in DOMAIN sessions
       THEN Used(handlers[h])
       ELSE UNCHANGED <<sessions, sweeper, late>>
    /\ handlers' = [handlers EXCEPT ![h] = NoThread]
    /\ UNCHANGED <<broker, goodbyes, shutdowns>>

\* The graph raises: the error reply is sent and the session left as it is.
GraphRaises(h) ==
    /\ Running
    /\ handlers[h] # NoThread
    /\ handlers' = [handlers EXCEPT ![h] = NoThread]
    /\ UNCHANGED <<broker, goodbyes, sessions, sweeper, shutdowns, late>>

\* idle_timeout_seconds pass since the session was last used.
TimePasses(t) ==
    /\ Running
    /\ t \in DOMAIN sessions
    /\ sessions' = [sessions EXCEPT ![t] = "idle"]
    /\ UNCHANGED <<broker, goodbyes, sweeper, shutdowns, handlers, late>>

-----------------------------------------------------------------------------
(* The sweeper *)

\* Seeded error: an on_expire that deletes only after a goodbye.
FaultyExpire(due, remaining) ==
    IF due = {} \/ ~goodbyes.idle
    THEN sessions' = remaining /\ sweeper' = AtRest
    ELSE \E t \in due :
            /\ sessions' = remaining
            /\ sweeper' = [sweeper EXCEPT !.phase = "goodbye", !.due = due \ {t},
                                          !.at = t]

\* run and on_expire up to the next await: what is due and what is there are the
\* arguments.  Without a goodbye the sessions that are due are deleted at once.
Expire(due, remaining) ==
    IF due = {} \/ ~goodbyes.idle
    THEN /\ sessions' = [t \in DOMAIN remaining \ due |-> remaining[t]]
         /\ sweeper' = AtRest
    ELSE \E t \in due :
            /\ sessions' = remaining
            /\ sweeper' = [sweeper EXCEPT !.phase = "goodbye", !.due = due \ {t},
                                          !.at = t]

\* A pass begins; stop ends the loop between two passes.
Sweep ==
    /\ broker = "ready"
    /\ sweeper.phase = "waiting"
    /\ Expire(Idle, sessions)
    /\ UNCHANGED <<broker, goodbyes, shutdowns, handlers, late>>

\* The goodbye is posted: the session goes, whatever happened to it meanwhile.
GoodbyePosted ==
    /\ Running
    /\ sweeper.phase = "goodbye"
    /\ Expire(sweeper.due, Without({sweeper.at}))
    /\ UNCHANGED <<broker, goodbyes, shutdowns, handlers, late>>

\* post_message raises, and nothing catches it: the sweeper's task is over.
GoodbyeFails ==
    /\ Running
    /\ sweeper.phase = "goodbye"
    /\ sweeper' = [AtRest EXCEPT !.phase = "failed"]
    /\ UNCHANGED <<broker, goodbyes, sessions, shutdowns, handlers, late>>

-----------------------------------------------------------------------------
(* Shutdown *)

\* Seeded error: a shutdown that leaves to the sweeper what is due in its pass.
FaultyLeaving == IF goodbyes.shutdown THEN DOMAIN sessions \ sweeper.due ELSE {}

\* all_sessions is a copy, made before the first goodbye.
Leaving == IF goodbyes.shutdown THEN DOMAIN sessions ELSE {}

\* Every signal starts a shutdown task of its own.
Signalled(s) ==
    /\ Running
    /\ ~shutdowns[s].begun
    /\ broker' = "stopping"
    /\ shutdowns' = [shutdowns EXCEPT ![s] = [begun |-> TRUE, leaving |-> Leaving]]
    /\ UNCHANGED <<goodbyes, sessions, sweeper, handlers, late>>

\* Seeded error: a failure is not suppressed: it ends the task, and nobody sets stop_event.
FaultyShutdownGoodbye(s, t) ==
    /\ broker = "stopping"
    /\ t \in shutdowns[s].leaving
    /\ \/ /\ sessions' = Without({t})
          /\ sweeper' = [sweeper EXCEPT !.removed = @ \cup ({t} \cap sweeper.due)]
          /\ shutdowns' = [shutdowns EXCEPT ![s].leaving = @ \ {t}]
       \/ /\ shutdowns' = [shutdowns EXCEPT ![s] = [begun |-> FALSE, leaving |-> {}]]
          /\ UNCHANGED <<sessions, sweeper>>
    /\ UNCHANGED <<broker, goodbyes, handlers, late>>

\* A goodbye was posted, or its failure suppressed; the session goes.
ShutdownGoodbye(s, t) ==
    /\ broker = "stopping"
    /\ t \in shutdowns[s].leaving
    /\ sessions' = Without({t})
    /\ sweeper' = [sweeper EXCEPT !.removed = @ \cup ({t} \cap sweeper.due)]
    /\ shutdowns' = [shutdowns EXCEPT ![s].leaving = @ \ {t}]
    /\ UNCHANGED <<broker, goodbyes, handlers, late>>

\* The first task to finish sets stop_event; main cancels what still runs.
Exit(s) ==
    /\ broker = "stopping"
    /\ shutdowns[s].begun /\ shutdowns[s].leaving = {}
    /\ broker' = "gone"
    /\ UNCHANGED <<goodbyes, sessions, sweeper, shutdowns, handlers, late>>

Gone == broker = "gone" /\ UNCHANGED vars

-----------------------------------------------------------------------------
SweeperStep == Sweep \/ GoodbyePosted \/ GoodbyeFails

ShutdownStep(s) == (\E t \in Threads : ShutdownGoodbye(s, t)) \/ Exit(s)

Next ==
    \/ \E h \in Handlers, t \in Threads : Receive(h, t)
    \/ \E h \in Handlers : GraphReturns(h) \/ GraphRaises(h)
    \/ \E t \in Threads : TimePasses(t)
    \/ SweeperStep
    \/ \E s \in Signals : Signalled(s) \/ ShutdownStep(s)
    \/ Gone

\* The sweeper's sleep and every post_message end.  Nobody has to write a message or
\* to send a signal, and the graph may take for ever.
Fairness ==
    /\ WF_vars(SweeperStep)
    /\ \A s \in Signals : WF_vars(ShutdownStep(s))

Spec == Init /\ [][Next]_vars /\ Fairness

-----------------------------------------------------------------------------
(* What the broker promises *)

\* Type invariant.  A session the sweeper has still to visit is in the map, or a
\* shutdown has taken it out: nobody else deletes sessions.
TypeOK ==
    /\ broker \in {"ready", "stopping", "gone"}
    /\ goodbyes \in [idle: BOOLEAN, shutdown: BOOLEAN]
    /\ DOMAIN sessions \subseteq Threads
    /\ \A t \in DOMAIN sessions : sessions[t] \in {"active", "idle"}
    /\ sweeper \in Sweeper
    /\ sweeper.due \subseteq (DOMAIN sessions \cup sweeper.removed)
    /\ shutdowns \in [Signals -> Shutdown]
    /\ handlers \in [Handlers -> Threads \cup {NoThread}]
    /\ late \subseteq Threads

\* The sweeper neither says goodbye to a thread in use nor takes its session, although
\* it listed that session long before, when it was idle.  The exception is a message
\* that comes while the goodbye for its own thread is already being posted: that one
\* loses its session (SessionSweeper.run, on_expire).
InUseNotExpired ==
    [][\A t \in DOMAIN sessions :
           broker = "ready" /\ sessions[t] = "active"
           => /\ t \in DOMAIN sessions' \/ sweeper.at = t
              /\ sweeper'.at = t => sweeper.at = t]_vars

\* Where shutdown goodbyes are configured, a conversation that is still there when
\* the broker exits was used after the first signal: all that were there before got
\* their goodbye, also when a second signal starts a second shutdown and the sweeper
\* is in the middle of a pass (shutdown in main).
GoodbyeToAll ==
    broker = "gone" /\ goodbyes.shutdown => DOMAIN sessions \subseteq late

\* The shape of the state, the sweeper's list of threads among it, and a goodbye
\* for each conversation (sweeper.py:76, broker_app.py:632).
SessionsInvariant == TypeOK /\ GoodbyeToAll

\* An idle session goes, or is used again; only a goodbye that could not be posted
\* keeps it, as it ends the sweeper (SessionSweeper.run).
IdleSessionsGo ==
    \A t \in Threads :
        t \in Idle ~> t \notin Idle \/ sweeper.phase = "failed" \/ broker # "ready"

\* A shutdown ends, even if users go on writing, messages stay in the graph, and
\* Slack refuses every goodbye (shutdown in main).
ShutdownEnds == broker = "stopping" ~> broker = "gone"
=============================================================================
