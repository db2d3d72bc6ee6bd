---------------------------- MODULE ConsumerRuntime ----------------------------
(***************************************************************************)
(* One supervisor process (opamp_consumer) and the agent process it runs:  *)
(* bootstrap, heartbeat loop, server commands that restart the agent or    *)
(* shut both down, the semaphore file and Ctrl-C, and the disconnect       *)
(* messages sent on the way out.                                           *)
(*                                                                         *)
(* The supervisor does one thing at a time: handlers run inside the send   *)
(* that received the reply, and ShutdownCommand joins its helper thread.   *)
(* So its control is the sequence of the steps it has still to take.  Only *)
(* the thread of finalize runs beside the main thread, which is leaving by *)
(* then and takes the thread with it when the interpreter exits.           *)
(***************************************************************************)
EXTENDS Integers, Sequences, SequencesExt

CONSTANT MaxCommands  \* bound: commands the provider has for this agent

ASSUME MaxCommandsAssumption == MaxCommands \in Nat

VARIABLES
    todo,             \* the steps the supervisor has still to take
    allow_heartbeat,
    agent_process,    \* the process the supervisor holds: "none", "running", "dead"
    strays,           \* running agent processes it no longer holds
    semaphore,        \* the file OpAMPSupervisor.signal exists
    leaving,          \* main has returned, the interpreter is about to exit
    commands,         \* commands the provider has still to send
    interrupted,      \* Ctrl-C was pressed: "no", "inside" the loop or "outside"
    shut_down,        \* a shutdown command was executed
    revived           \* a restart command was executed while leaving

vars == <<todo, allow_heartbeat, agent_process, strays, semaphore, leaving,
          commands, interrupted, shut_down, revived>>

Step ==
    {"launch", "introduce", "heartbeat", "check", "report", "restart",
     "shutdown", "disconnect", "stop", "halt", "terminate", "finalize"}

Init ==
    /\ todo = <<"launch", "introduce", "heartbeat", "terminate", "finalize">>
    /\ allow_heartbeat = TRUE
    /\ agent_process = "none"
    /\ strays = 0
    /\ semaphore = FALSE
    /\ leaving = FALSE
    /\ commands = MaxCommands
    /\ interrupted = "no"
    /\ shut_down = FALSE
    /\ revived = FALSE

At(step) == todo # <<>> /\ Head(todo) = step

\* Go on with these steps before the rest.
Continue(steps) == todo' = steps \o Tail(todo)

-----------------------------------------------------------------------------
(* Exchanges with the provider *)

\* What a reply makes the supervisor do; most replies, and a lost one, nothing.
Handled(reply) == IF reply \in {"restart", "shutdown"} THEN <<reply>> ELSE <<>>

\* A message goes out and a reply with at most one command comes back, or not.
Exchange(reply) ==
    /\ reply \in {"plain", "lost"} \/ commands > 0
    /\ commands' = IF reply \in {"plain", "lost"} THEN commands ELSE commands - 1

Replies == {"plain", "lost", "restart", "shutdown"}

Introduce ==
    /\ At("introduce")
    /\ \E reply \in Replies : Exchange(reply) /\ Continue(Handled(reply))
    /\ UNCHANGED <<allow_heartbeat, agent_process, strays, semaphore, leaving,
                   interrupted, shut_down, revived>>

\* The transport hands every reply to _handle_server_to_agent, and the loop does
\* so again.
Report ==
    /\ At("report")
    /\ \E reply \in Replies :
          /\ Exchange(reply)
          /\ Continue(Handled(reply) \o Handled(reply))
    /\ UNCHANGED <<allow_heartbeat, agent_process, strays, semaphore, leaving,
                   interrupted, shut_down, revived>>

\* send_disconnect: only a send that got through stops the loop.
Disconnect ==
    /\ At("disconnect")
    /\ \E reply \in Replies :
          /\ Exchange(reply)
          /\ Continue(Handled(reply))
          /\ allow_heartbeat' \in {FALSE, allow_heartbeat}
          /\ reply # "lost" => ~allow_heartbeat'
    /\ UNCHANGED <<agent_process, strays, semaphore, leaving, interrupted,
                   shut_down, revived>>

-----------------------------------------------------------------------------
(* The agent process *)

\* launch_agent_process, after which the supervisor holds the new process or,
\* when the command was not found, what it held.
Launched(held) ==
    \/ agent_process' = "running" /\ strays' = strays + IF held = "running" THEN 1 ELSE 0
    \/ agent_process' = held /\ strays' = strays

Launch ==
    /\ At("launch")
    /\ Launched(agent_process)
    /\ Continue(<<>>)
    /\ UNCHANGED <<allow_heartbeat, semaphore, leaving, commands,
                   interrupted, shut_down, revived>>

\* Seeded error: launch without terminating the agent that runs.
FaultyRestart ==
    /\ At("restart")
    /\ allow_heartbeat' = FALSE
    /\ Launched(agent_process)
    /\ revived' = (revived \/ leaving)
    /\ Continue(<<>>)
    /\ UNCHANGED <<semaphore, leaving, commands, interrupted,
                   shut_down>>

\* restart_agent_process: terminate, which ends the heartbeats, and launch.
Restart ==
    /\ At("restart")
    /\ allow_heartbeat' = FALSE
    /\ Launched("none")
    /\ revived' = (revived \/ leaving)
    /\ Continue(<<>>)
    /\ UNCHANGED <<semaphore, leaving, commands, interrupted,
                   shut_down>>

Terminate ==
    /\ At("terminate")
    /\ agent_process' = "none"
    /\ allow_heartbeat' = FALSE
    /\ Continue(<<>>)
    /\ UNCHANGED <<strays, semaphore, leaving, commands,
                   interrupted, shut_down, revived>>

\* ShutdownCommand.execute_action up to the disconnect.
Shutdown ==
    /\ At("shutdown")
    /\ allow_heartbeat' = FALSE
    /\ shut_down' = TRUE
    /\ Continue(<<"disconnect", "halt">>)
    /\ UNCHANGED <<agent_process, strays, semaphore, leaving, commands, interrupted,
                   revived>>

\* Seeded error: os._exit without terminating the agent.
FaultyHalt ==
    /\ At("halt")
    /\ todo' = <<>>
    /\ UNCHANGED <<agent_process, allow_heartbeat, strays, semaphore, leaving,
                   commands, interrupted, shut_down, revived>>

\* ... and the rest of it: terminate the agent, then os._exit.
Halt ==
    /\ At("halt")
    /\ agent_process' = "none"
    /\ allow_heartbeat' = FALSE
    /\ todo' = <<>>
    /\ UNCHANGED <<strays, semaphore, leaving, commands,
                   interrupted, shut_down, revived>>

AgentDies ==
    /\ todo # <<>>
    /\ agent_process = "running"
    /\ agent_process' = "dead"
    /\ UNCHANGED <<todo, allow_heartbeat, strays, semaphore, leaving,
                   commands, interrupted, shut_down, revived>>

-----------------------------------------------------------------------------
(* The main thread *)

\* The test of the heartbeat loop.
Heartbeat ==
    /\ At("heartbeat")
    /\ Continue(IF allow_heartbeat THEN <<"check", "report", "heartbeat">> ELSE <<>>)
    /\ UNCHANGED <<allow_heartbeat, agent_process, strays, semaphore, leaving,
                   commands, interrupted, shut_down, revived>>

\* Seeded error: the heartbeat goes on after the goodbye.
FaultyStopRequest == <<"disconnect">>

\* What a turn of the loop does about the semaphore file: the loop goes on to
\* poll and to report, and ends after that.
StopRequest == <<"disconnect", "stop">>

Check ==
    /\ At("check")
    /\ Continue(IF semaphore THEN StopRequest ELSE <<>>)
    /\ UNCHANGED <<allow_heartbeat, agent_process, strays, semaphore, leaving,
                   commands, interrupted, shut_down, revived>>

StopHeartbeat ==
    /\ At("stop")
    /\ allow_heartbeat' = FALSE
    /\ Continue(<<>>)
    /\ UNCHANGED <<agent_process, strays, semaphore, leaving, commands, interrupted,
                   shut_down, revived>>

\* run_default_client_main returns, which drops the client: its finalizer starts
\* a daemon thread that sends a disconnect message.
Finalize ==
    /\ At("finalize")
    /\ leaving' = TRUE
    /\ Continue(<<"disconnect">>)
    /\ UNCHANGED <<allow_heartbeat, agent_process, strays, semaphore,
                   commands, interrupted, shut_down, revived>>

\* sys.exit: nobody waits for the daemon thread.
Exit ==
    /\ leaving
    /\ leaving' = FALSE
    /\ todo' = <<>>
    /\ UNCHANGED <<allow_heartbeat, agent_process, strays, semaphore,
                   commands, interrupted, shut_down, revived>>

\* Ctrl-C.  Inside the heartbeat loop it cancels the task at an await and the
\* outer trap sends a disconnect message; elsewhere main is left at once.  While
\* ShutdownCommand blocks the loop it has no effect.
Interrupt ==
    /\ interrupted = "no"
    /\ \/ /\ At("check") \/ At("disconnect") \/ At("report")
          /\ "heartbeat" \in Range(todo) /\ "halt" \notin Range(todo)
          /\ interrupted' = "inside"
          /\ todo' = <<"disconnect", "terminate", "finalize">>
       \/ /\ At("launch") \/ At("introduce") \/ At("terminate")
          /\ interrupted' = "outside"
          /\ todo' = <<"finalize">>
    /\ UNCHANGED <<allow_heartbeat, agent_process, strays, semaphore, leaving,
                   commands, shut_down, revived>>

\* stop_supervisor.sh
CreateSemaphore ==
    /\ todo # <<>>
    /\ ~semaphore
    /\ semaphore' = TRUE
    /\ UNCHANGED <<todo, allow_heartbeat, agent_process, strays, leaving,
                   commands, interrupted, shut_down, revived>>

Gone == todo = <<>> /\ UNCHANGED vars

-----------------------------------------------------------------------------
Supervise ==
    \/ Launch \/ Introduce \/ Heartbeat \/ Check \/ StopHeartbeat \/ Report
    \/ Restart \/ Shutdown \/ Disconnect \/ Halt
    \/ Terminate \/ Finalize \/ Exit

Next == Supervise \/ AgentDies \/ Interrupt \/ CreateSemaphore \/ Gone

Spec == Init /\ [][Next]_vars

\* The supervisor does not stop between its steps: every wait of it has a timeout.
FairSpec == Spec /\ WF_vars(Supervise)

-----------------------------------------------------------------------------
(* What the supervisor promises *)

\* Type invariant.
TypeOK ==
    /\ todo \in Seq(Step)
    /\ allow_heartbeat \in BOOLEAN
    /\ agent_process \in {"none", "running", "dead"}
    /\ strays \in Nat
    /\ semaphore \in BOOLEAN
    /\ leaving \in BOOLEAN
    /\ commands \in 0..MaxCommands
    /\ interrupted \in {"no", "inside", "outside"}
    /\ shut_down \in BOOLEAN
    /\ revived \in BOOLEAN

\* However restarts, shutdowns and their repetition nest, the supervisor never
\* runs a second agent process beside one it has lost the handle of.
OneAgentAtMost == strays = 0

\* The shape of the state, and a single agent process (client_mixins.py:413-483).
RuntimeInvariant == TypeOK /\ OneAgentAtMost

\* A supervisor that is gone leaves no agent behind, unless Ctrl-C hit it outside
\* the heartbeat loop, or the reply to its very last message was a restart.
NoOrphan ==
    todo = <<>> /\ agent_process = "running" =>
        interrupted = "outside" \/ revived

\* "Graceful stop: create OpAMPSupervisor.signal": the supervisor ends, whatever
\* messages are lost and whatever the provider answers on the way.
StopHonoured == semaphore ~> (todo = <<>>)

\* What opamp.proto and restart_agent_process say of a restart: the agent runs
\* again.  So a supervisor nobody stopped does not end.
RestartGoesOn ==
    todo = <<>> => semaphore \/ shut_down \/ interrupted # "no"
=============================================================================
