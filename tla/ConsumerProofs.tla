--------------------------- MODULE ConsumerProofs ---------------------------
(***************************************************************************)
(* Proofs about the consumer.                                              *)
(*                                                                         *)
(* ConsumerRuntime, for any number of commands from the provider: however  *)
(* introductions, restarts, shutdowns and goodbyes nest, the supervisor    *)
(* never loses the handle of an agent that runs, and it does not leave one *)
(* behind.  What has to be known for that is how the steps that it has     *)
(* still to take are ordered.                                              *)
(*                                                                         *)
(* AgentAuthorization, for any number of tokens: asking for a new token,   *)
(* and falling back from a WebSocket to HTTP, never hands the provider a   *)
(* message twice on one channel, whatever setup the two sides have,        *)
(* whatever is lost and whenever tokens expire or the IdP is away.         *)
(***************************************************************************)
EXTENDS ConsumerRuntime, AgentAuthorization, TLAPS

\* The agent is launched once, first of all.
LaunchedFirst ==
    \A i \in DOMAIN todo : todo[i] = "launch" =>
        i = 1 /\ agent_process = "none" /\ ~leaving

\* Nothing comes between the end of the agent and the end of main.
TerminateThenFinalize ==
    \A i \in DOMAIN todo : todo[i] = "terminate" =>
        Len(todo) = i + 1 /\ todo[i + 1] = "finalize"

\* Nothing comes after the end of main.
FinalizeLast == \A i \in DOMAIN todo : todo[i] = "finalize" => i = Len(todo)

\* The supervisor has still to end the agent.
WillEndAgent == \E i \in DOMAIN todo : todo[i] \in {"terminate", "halt"}

\* As long as main goes on, the agent's end is ahead or has been passed.
EndIsAhead ==
    \/ leaving
    \/ interrupted = "outside"
    \/ WillEndAgent
    \/ todo \in {<<>>, <<"finalize">>}

\* Inductive, unlike NoOrphan, which only looks at the end.  A shutdown that
\* arrives while the supervisor is leaving may be cut off before it halts.
AgentIsEnded ==
    agent_process = "running" =>
        interrupted = "outside" \/ revived \/ (WillEndAgent /\ ~leaving)

StepsInv ==
    /\ RuntimeInvariant
    /\ LaunchedFirst
    /\ TerminateThenFinalize
    /\ FinalizeLast
    /\ EndIsAhead
    /\ AgentIsEnded

-----------------------------------------------------------------------------
(* Sequences of steps *)

\* What is ahead after a step: what it adds, then what was behind it.
LEMMA ContinueIndices ==
  ASSUME todo \in Seq(Step), todo # <<>>, NEW steps \in Seq(Step), Continue(steps)
  PROVE  /\ todo' \in Seq(Step)
         /\ Len(todo') = Len(steps) + Len(todo) - 1
         /\ \A i \in 1..Len(steps) : todo'[i] = steps[i]
         /\ \A i \in 2..Len(todo) : todo'[Len(steps) + i - 1] = todo[i]
         /\ \A i \in DOMAIN todo' :
               \/ i \in DOMAIN steps /\ todo'[i] = steps[i]
               \/ /\ i - Len(steps) + 1 \in 2..Len(todo)
                  /\ todo'[i] = todo[i - Len(steps) + 1]
<1>1. /\ Tail(todo) \in Seq(Step)
      /\ Len(Tail(todo)) = Len(todo) - 1
      /\ \A i \in 1..Len(todo) - 1 : Tail(todo)[i] = todo[i + 1]
  OBVIOUS
<1>2. /\ todo' \in Seq(Step)
      /\ Len(todo') = Len(steps) + Len(Tail(todo))
      /\ \A i \in 1..Len(steps) : todo'[i] = steps[i]
      /\ \A i \in Len(steps) + 1 .. Len(todo') : todo'[i] = Tail(todo)[i - Len(steps)]
  BY <1>1 DEF Continue
<1>3. Len(steps) \in Nat /\ Len(todo) \in Nat \ {0}
  OBVIOUS
<1>4. ASSUME NEW i \in 2..Len(todo)
      PROVE  todo'[Len(steps) + i - 1] = todo[i]
  <2> DEFINE k == Len(steps) + i - 1
  <2>1. k \in Len(steps) + 1 .. Len(todo') /\ k - Len(steps) = i - 1
    BY <1>1, <1>2, <1>3
  <2>2. i - 1 \in 1..Len(todo) - 1 /\ (i - 1) + 1 = i
    BY <1>3
  <2>3. Tail(todo)[i - 1] = todo[i]
    BY <1>1, <2>2
  <2> QED BY <1>2, <2>1, <2>3
<1>5. ASSUME NEW i \in DOMAIN todo', i \notin DOMAIN steps
      PROVE  /\ i - Len(steps) + 1 \in 2..Len(todo)
             /\ todo'[i] = todo[i - Len(steps) + 1]
  <2> DEFINE k == i - Len(steps)
  <2>1. i \in Len(steps) + 1 .. Len(todo')
    BY <1>2, <1>3, <1>5
  <2>2. k \in 1..Len(todo) - 1
    BY <1>1, <1>2, <1>3, <2>1
  <2>3. todo'[i] = Tail(todo)[k]
    BY <1>2, <2>1
  <2>4. Tail(todo)[k] = todo[k + 1]
    BY <1>1, <2>2
  <2> QED BY <1>3, <2>2, <2>3, <2>4
<1>6. \A i \in DOMAIN todo' :
         i \in DOMAIN steps => i \in 1..Len(steps) /\ todo'[i] = steps[i]
  BY <1>2
<1>7. Len(todo') = Len(steps) + Len(todo) - 1
  BY <1>1, <1>2, <1>3
<1> QED BY <1>2, <1>4, <1>5, <1>6, <1>7

\* The steps that an operation may add.
Ordinary == Step \ {"launch", "terminate", "finalize"}

LEMMA StepsAfter ==
  ASSUME todo \in Seq(Step), todo # <<>>, NEW steps \in Seq(Ordinary), Continue(steps)
  PROVE  /\ todo' \in Seq(Step)
         /\ \A i \in DOMAIN todo' : todo'[i] = "launch" =>
               \E j \in DOMAIN todo : j # 1 /\ todo[j] = "launch"
         /\ TerminateThenFinalize => TerminateThenFinalize'
         /\ FinalizeLast => FinalizeLast'
         /\ WillEndAgent /\ Head(todo) \notin {"terminate", "halt"} => WillEndAgent'
         /\ steps = <<>> /\ TerminateThenFinalize /\ Head(todo) = "terminate"
               => todo' = <<"finalize">>
<1>0. steps \in Seq(Step) /\ Head(todo) = todo[1] /\ Len(todo) \in Nat \ {0} /\ Len(steps) \in Nat
  BY DEF Ordinary
<1>1. /\ todo' \in Seq(Step)
      /\ Len(todo') = Len(steps) + Len(todo) - 1
      /\ \A i \in 2..Len(todo) : todo'[Len(steps) + i - 1] = todo[i]
      /\ \A i \in DOMAIN todo' :
            \/ i \in DOMAIN steps /\ todo'[i] = steps[i]
            \/ /\ i - Len(steps) + 1 \in 2..Len(todo)
               /\ todo'[i] = todo[i - Len(steps) + 1]
  BY <1>0, ContinueIndices
<1>2. \A i \in DOMAIN steps : steps[i] \notin {"launch", "terminate", "finalize"}
  BY DEF Ordinary
<1>3. \A i \in DOMAIN todo' : todo'[i] = "launch" =>
         \E j \in DOMAIN todo : j # 1 /\ todo[j] = "launch"
  <2> SUFFICES ASSUME NEW i \in DOMAIN todo', todo'[i] = "launch"
               PROVE  \E j \in DOMAIN todo : j # 1 /\ todo[j] = "launch"
    OBVIOUS
  <2> DEFINE j == i - Len(steps) + 1
  <2>1. j \in 2..Len(todo) /\ todo[j] = "launch"
    BY <1>1, <1>2
  <2>2. j \in DOMAIN todo /\ j # 1
    BY <1>0, <2>1
  <2> QED BY <2>1, <2>2
<1>4. ASSUME TerminateThenFinalize PROVE TerminateThenFinalize'
  <2> SUFFICES ASSUME NEW i \in DOMAIN todo', todo'[i] = "terminate"
               PROVE  Len(todo') = i + 1 /\ todo'[i + 1] = "finalize"
    BY DEF TerminateThenFinalize
  <2> DEFINE j == i - Len(steps) + 1
  <2>1. j \in 2..Len(todo) /\ todo[j] = "terminate" /\ i \in Nat
    BY <1>1, <1>2
  <2>2. Len(todo) = j + 1 /\ todo[j + 1] = "finalize"
    BY <1>4, <2>1 DEF TerminateThenFinalize
  <2> HIDE DEF j
  <2>3. j + 1 \in 2..Len(todo) /\ j \in Int
    BY <1>0, <2>1, <2>2
  <2>4. todo'[Len(steps) + (j + 1) - 1] = todo[j + 1]
    BY <1>1, <2>3
  <2>5. Len(steps) + (j + 1) - 1 = i + 1
    BY <1>0, <2>1, <2>3 DEF j
  <2>6. Len(todo') = i + 1
    BY <1>0, <1>1, <2>1, <2>2 DEF j
  <2> QED BY <2>2, <2>4, <2>5, <2>6
<1>5. ASSUME WillEndAgent, Head(todo) \notin {"terminate", "halt"} PROVE WillEndAgent'
  <2>1. PICK i \in DOMAIN todo : todo[i] \in {"terminate", "halt"}
    BY <1>5 DEF WillEndAgent
  <2>2. i \in 2..Len(todo)
    BY <1>0, <1>5, <2>1
  <2>3. /\ todo'[Len(steps) + i - 1] = todo[i]
        /\ Len(steps) + i - 1 \in DOMAIN todo'
    BY <1>0, <1>1, <2>2
  <2> QED BY <2>1, <2>3 DEF WillEndAgent
<1>6. ASSUME steps = <<>>, TerminateThenFinalize, Head(todo) = "terminate"
      PROVE  todo' = <<"finalize">>
  <2>0. 1 \in DOMAIN todo /\ todo[1] = "terminate"
    BY <1>0, <1>6
  <2>1. Len(todo) = 1 + 1 /\ todo[1 + 1] = "finalize"
    BY <1>6, <2>0, Zenon DEF TerminateThenFinalize
  <2>2. Len(todo') = 1 /\ todo'[1] = "finalize"
    BY <1>0, <1>1, <1>6, <2>1
  <2> QED BY <1>1, <2>2
<1>7. ASSUME FinalizeLast PROVE FinalizeLast'
  <2> SUFFICES ASSUME NEW i \in DOMAIN todo', todo'[i] = "finalize"
               PROVE  i = Len(todo')
    BY DEF FinalizeLast
  <2>1. i - Len(steps) + 1 \in 2..Len(todo) /\ todo[i - Len(steps) + 1] = "finalize"
    BY <1>1, <1>2
  <2>2. i - Len(steps) + 1 = Len(todo) /\ i \in Nat
    BY <1>0, <1>1, <1>7, <2>1 DEF FinalizeLast
  <2> QED BY <1>0, <1>1, <2>2
<1> QED BY <1>1, <1>3, <1>4, <1>5, <1>6, <1>7

LEMMA HandledOrdinary ==
  ASSUME NEW reply
  PROVE  Handled(reply) \in Seq(Ordinary)
         /\ Handled(reply) \o Handled(reply) \in Seq(Ordinary)
<1>1. CASE reply \in {"restart", "shutdown"}
  <2>1. reply \in Ordinary /\ Handled(reply) = <<reply>>
    BY <1>1 DEF Handled, Ordinary, Step
  <2>2. <<reply>> \in Seq(Ordinary)
    BY <2>1
  <2> QED BY <2>1, <2>2
<1>2. CASE reply \notin {"restart", "shutdown"}
  <2>1. Handled(reply) = <<>>
    BY <1>2 DEF Handled
  <2> QED BY <2>1
<1> QED BY <1>1, <1>2

LEMMA NothingAdded == <<>> \in Seq(Ordinary)
OBVIOUS

-----------------------------------------------------------------------------
(* Every step keeps the order of what is ahead *)

\* A step that only goes on, or puts ordinary steps before the rest.
LEMMA OrdinaryStep ==
  ASSUME StepsInv, todo # <<>>, NEW steps \in Seq(Ordinary), Continue(steps)
  PROVE  /\ todo' \in Seq(Step)
         /\ LaunchedFirst'
         /\ TerminateThenFinalize'
         /\ FinalizeLast'
         /\ /\ Head(todo) \notin {"terminate", "halt", "finalize"}
            /\ UNCHANGED <<leaving, interrupted>>
            => EndIsAhead'
         /\ /\ Head(todo) \notin {"terminate", "halt", "finalize"}
            /\ UNCHANGED <<leaving, interrupted>>
            /\ agent_process' = "running" => agent_process = "running"
            /\ revived => revived'
            => AgentIsEnded'
<1>0. todo \in Seq(Step)
  BY DEF StepsInv, RuntimeInvariant, TypeOK
<1>1. /\ todo' \in Seq(Step)
      /\ \A i \in DOMAIN todo' : todo'[i] = "launch" =>
            \E j \in DOMAIN todo : j # 1 /\ todo[j] = "launch"
      /\ TerminateThenFinalize => TerminateThenFinalize'
      /\ FinalizeLast => FinalizeLast'
      /\ WillEndAgent /\ Head(todo) \notin {"terminate", "halt"} => WillEndAgent'
  BY <1>0, StepsAfter
<1>2. LaunchedFirst'
  BY <1>1, Zenon DEF StepsInv, LaunchedFirst
<1>3. ASSUME Head(todo) \notin {"terminate", "halt", "finalize"},
             UNCHANGED <<leaving, interrupted>>
      PROVE  EndIsAhead'
  <2>1. todo \notin {<<>>, <<"finalize">>}
    BY <1>3
  <2> QED BY <1>1, <1>3, <2>1 DEF StepsInv, EndIsAhead
<1>4. ASSUME Head(todo) \notin {"terminate", "halt", "finalize"},
             UNCHANGED <<leaving, interrupted>>,
             agent_process' = "running" => agent_process = "running",
             revived => revived'
      PROVE  AgentIsEnded'
  BY <1>1, <1>4 DEF StepsInv, AgentIsEnded
<1> QED BY <1>1, <1>2, <1>3, <1>4 DEF StepsInv

\* With nothing left but the given steps.
LEMMA NothingAhead ==
  ASSUME NEW steps \in {<<>>, <<"finalize">>, <<"disconnect">>,
                        <<"disconnect", "terminate", "finalize">>},
         todo' = steps
  PROVE  /\ todo' \in Seq(Step)
         /\ LaunchedFirst'
         /\ TerminateThenFinalize'
         /\ FinalizeLast'
         /\ steps = <<"disconnect", "terminate", "finalize">> <=> WillEndAgent'
<1>1. CASE steps = <<>>
  BY <1>1 DEF Step, LaunchedFirst, TerminateThenFinalize, FinalizeLast, WillEndAgent
<1>2. CASE steps = <<"finalize">>
  BY <1>2 DEF Step, LaunchedFirst, TerminateThenFinalize, FinalizeLast, WillEndAgent
<1>3. CASE steps = <<"disconnect">>
  BY <1>3 DEF Step, LaunchedFirst, TerminateThenFinalize, FinalizeLast, WillEndAgent
<1>4. CASE steps = <<"disconnect", "terminate", "finalize">>
  <2>1. /\ todo' \in Seq(Step) /\ DOMAIN todo' = {1, 2, 3} /\ Len(todo') = 3
        /\ todo'[1] = "disconnect" /\ todo'[2] = "terminate" /\ todo'[3] = "finalize"
    BY <1>4 DEF Step
  <2>2. LaunchedFirst' /\ TerminateThenFinalize' /\ FinalizeLast'
    BY <2>1 DEF LaunchedFirst, TerminateThenFinalize, FinalizeLast
  <2>3. WillEndAgent'
    BY <2>1 DEF WillEndAgent
  <2> QED BY <1>4, <2>1, <2>2, <2>3
<1> QED BY <1>1, <1>2, <1>3, <1>4

\* An exchange uses up at most one command of those that there are.
LEMMA ExchangeCounts ==
  ASSUME commands \in 0..MaxCommands, NEW reply, Exchange(reply)
  PROVE  commands' \in 0..MaxCommands
BY MaxCommandsAssumption DEF Exchange

LEMMA StepsInvInit == Init => StepsInv
<1> SUFFICES ASSUME Init PROVE StepsInv
  OBVIOUS
<1>1. /\ todo \in Seq(Step) /\ DOMAIN todo = 1..5 /\ Len(todo) = 5
      /\ todo[1] = "launch" /\ todo[2] = "introduce" /\ todo[3] = "heartbeat"
      /\ todo[4] = "terminate" /\ todo[5] = "finalize"
  BY DEF Init, Step
<1>2. RuntimeInvariant
  <2>1. /\ allow_heartbeat \in BOOLEAN /\ semaphore \in BOOLEAN /\ leaving \in BOOLEAN
        /\ shut_down \in BOOLEAN /\ revived \in BOOLEAN
        /\ agent_process \in {"none", "running", "dead"}
        /\ interrupted \in {"no", "inside", "outside"}
        /\ strays = 0
    BY DEF Init
  <2>2. commands \in 0..MaxCommands
    BY MaxCommandsAssumption DEF Init
  <2> QED BY <1>1, <2>1, <2>2 DEF RuntimeInvariant, TypeOK, OneAgentAtMost
<1>3. LaunchedFirst /\ TerminateThenFinalize /\ FinalizeLast
  <2>1. agent_process = "none" /\ ~leaving
    BY DEF Init
  <2>2. \A i \in DOMAIN todo : i \in {1, 2, 3, 4, 5}
    BY <1>1
  <2>3. LaunchedFirst
    BY <1>1, <2>1, <2>2 DEF LaunchedFirst
  <2>4. TerminateThenFinalize
    BY <1>1, <2>2 DEF TerminateThenFinalize
  <2>5. FinalizeLast
    BY <1>1, <2>2 DEF FinalizeLast
  <2> QED BY <2>3, <2>4, <2>5
<1>4. WillEndAgent
  <2>1. 4 \in DOMAIN todo /\ todo[4] \in {"terminate", "halt"}
    BY <1>1
  <2> QED BY <2>1, Zenon DEF WillEndAgent
<1>5. EndIsAhead /\ AgentIsEnded
  BY <1>4 DEF Init, EndIsAhead, AgentIsEnded
<1> QED BY <1>2, <1>3, <1>5 DEF StepsInv

-----------------------------------------------------------------------------
(* One lemma per kind of step *)

\* Steps that only talk, or look: the agent and what main has reached stay.
LEMMA TalkKeeps ==
  ASSUME StepsInv, Introduce \/ Report \/ Disconnect \/ Heartbeat \/ Check
                   \/ StopHeartbeat \/ Shutdown
  PROVE  StepsInv'
<1>1. PICK steps \in Seq(Ordinary) : Continue(steps)
  <2>1. CASE Introduce \/ Disconnect
    BY <2>1, HandledOrdinary DEF Introduce, Disconnect
  <2>2. CASE Report
    BY <2>2, HandledOrdinary DEF Report
  <2>3. CASE Heartbeat
    <3>1. <<"check", "report", "heartbeat">> \in Seq(Ordinary)
      BY DEF Ordinary, Step
    <3> QED BY <2>3, <3>1, NothingAdded DEF Heartbeat
  <2>4. CASE Check
    <3>1. <<"disconnect", "stop">> \in Seq(Ordinary)
      BY DEF Ordinary, Step
    <3> QED BY <2>4, <3>1, NothingAdded DEF Check, StopRequest
  <2>5. CASE StopHeartbeat
    BY <2>5, NothingAdded DEF StopHeartbeat
  <2>6. CASE Shutdown
    <3>1. <<"disconnect", "halt">> \in Seq(Ordinary)
      BY DEF Ordinary, Step
    <3> QED BY <2>6, <3>1 DEF Shutdown
  <2> QED BY <2>1, <2>2, <2>3, <2>4, <2>5, <2>6
<1>2. /\ todo # <<>>
      /\ Head(todo) \notin {"terminate", "halt", "finalize"}
      /\ UNCHANGED <<agent_process, strays, semaphore, leaving, interrupted, revived>>
  BY DEF Introduce, Report, Disconnect, Heartbeat, Check, StopHeartbeat, Shutdown, At
<1>3. /\ todo' \in Seq(Step)
      /\ LaunchedFirst' /\ TerminateThenFinalize' /\ FinalizeLast'
      /\ EndIsAhead' /\ AgentIsEnded'
  BY <1>1, <1>2, OrdinaryStep
<1>4. allow_heartbeat' \in BOOLEAN /\ shut_down' \in BOOLEAN
  BY DEF StepsInv, RuntimeInvariant, TypeOK, Introduce, Report, Disconnect,
         Heartbeat, Check, StopHeartbeat, Shutdown
<1>5. commands' \in 0..MaxCommands
  <2>1. commands' = commands \/ \E reply \in Replies : Exchange(reply)
    BY DEF Introduce, Report, Disconnect, Heartbeat, Check, StopHeartbeat, Shutdown
  <2>2. commands \in 0..MaxCommands
    BY DEF StepsInv, RuntimeInvariant, TypeOK
  <2> QED BY <2>1, <2>2, ExchangeCounts
<1>6. RuntimeInvariant'
  BY <1>2, <1>3, <1>4, <1>5 DEF StepsInv, RuntimeInvariant, TypeOK, OneAgentAtMost
<1> QED BY <1>3, <1>6 DEF StepsInv

\* The first launch: there is no agent yet, and main has its end ahead.
LEMMA LaunchKeeps ==
  ASSUME StepsInv, Launch
  PROVE  StepsInv'
<1>1. todo # <<>> /\ Head(todo) = "launch" /\ Continue(<<>>)
  BY DEF Launch, At
<1>2. agent_process = "none" /\ ~leaving
  <2>1. todo \in Seq(Step)
    BY DEF StepsInv, RuntimeInvariant, TypeOK
  <2>2. 1 \in DOMAIN todo /\ todo[1] = "launch"
    BY <1>1, <2>1
  <2> QED BY <2>2 DEF StepsInv, LaunchedFirst
<1>3. /\ todo' \in Seq(Step)
      /\ LaunchedFirst' /\ TerminateThenFinalize' /\ FinalizeLast' /\ EndIsAhead'
  BY <1>1, NothingAdded, OrdinaryStep DEF Launch
<1>4. strays' = strays /\ agent_process' \in {"none", "running"}
  BY <1>2 DEF Launch, Launched, StepsInv, RuntimeInvariant, TypeOK
<1>5. RuntimeInvariant'
  BY <1>3, <1>4 DEF Launch, StepsInv, RuntimeInvariant, TypeOK, OneAgentAtMost
<1>6. AgentIsEnded'
  <2>1. interrupted' = "outside" \/ WillEndAgent' \/ todo \in {<<>>, <<"finalize">>}
    <3>1. todo \in Seq(Step)
      BY DEF StepsInv, RuntimeInvariant, TypeOK
    <3>2. WillEndAgent => WillEndAgent'
      BY <1>1, <3>1, NothingAdded, StepsAfter
    <3> QED BY <1>2, <3>2 DEF Launch, StepsInv, EndIsAhead
  <2>2. todo \notin {<<>>, <<"finalize">>}
    BY <1>1
  <2> QED BY <1>2, <2>1, <2>2 DEF Launch, AgentIsEnded
<1> QED BY <1>3, <1>5, <1>6 DEF StepsInv

\* A restart holds no process any more when it launches the next one.
LEMMA RestartKeeps ==
  ASSUME StepsInv, Restart
  PROVE  StepsInv'
<1>1. todo # <<>> /\ Head(todo) = "restart" /\ Continue(<<>>)
  BY DEF Restart, At
<1>2. /\ todo' \in Seq(Step)
      /\ LaunchedFirst' /\ TerminateThenFinalize' /\ FinalizeLast' /\ EndIsAhead'
  BY <1>1, NothingAdded, OrdinaryStep DEF Restart
<1>3. strays' = strays + 0 \/ strays' = strays
  BY DEF Restart, Launched
<1>4. agent_process' \in {"none", "running"} /\ allow_heartbeat' = FALSE
  BY DEF Restart, Launched
<1>5. strays' = 0
  BY <1>3 DEF StepsInv, RuntimeInvariant, OneAgentAtMost
<1>6. revived' \in BOOLEAN /\ revived' = (revived \/ leaving)
  BY DEF Restart
<1>7. RuntimeInvariant'
  BY <1>2, <1>4, <1>5, <1>6
     DEF Restart, StepsInv, RuntimeInvariant, TypeOK, OneAgentAtMost
<1>8. AgentIsEnded'
  <2>1. leaving \/ interrupted = "outside" \/ WillEndAgent'
    <3>1. todo \in Seq(Step)
      BY DEF StepsInv, RuntimeInvariant, TypeOK
    <3>2. WillEndAgent => WillEndAgent'
      BY <1>1, <3>1, NothingAdded, StepsAfter
    <3>3. todo \notin {<<>>, <<"finalize">>}
      BY <1>1
    <3> QED BY <3>2, <3>3 DEF StepsInv, EndIsAhead
  <2> QED BY <1>6, <2>1 DEF Restart, AgentIsEnded
<1> QED BY <1>2, <1>7, <1>8 DEF StepsInv

\* The agent ends, and main or the whole process with it.
LEMMA EndKeeps ==
  ASSUME StepsInv, Terminate \/ Halt
  PROVE  StepsInv'
<1>1. todo' \in {<<>>, <<"finalize">>}
  <2>1. CASE Terminate
    <3>1. todo \in Seq(Step) /\ TerminateThenFinalize
      BY DEF StepsInv, RuntimeInvariant, TypeOK
    <3>2. todo # <<>> /\ Head(todo) = "terminate" /\ Continue(<<>>)
      BY <2>1 DEF Terminate, At
    <3> QED BY <3>1, <3>2, NothingAdded, StepsAfter
  <2>2. CASE Halt
    BY <2>2 DEF Halt
  <2> QED BY <2>1, <2>2
<1>2. /\ todo' \in Seq(Step)
      /\ LaunchedFirst' /\ TerminateThenFinalize' /\ FinalizeLast'
  BY <1>1, NothingAhead
<1>3. agent_process' = "none" /\ allow_heartbeat' = FALSE
  BY DEF Terminate, Halt
<1>4. RuntimeInvariant'
  BY <1>2, <1>3
     DEF Terminate, Halt, StepsInv, RuntimeInvariant, TypeOK, OneAgentAtMost
<1>5. EndIsAhead' /\ AgentIsEnded'
  BY <1>1, <1>3 DEF EndIsAhead, AgentIsEnded
<1> QED BY <1>2, <1>4, <1>5 DEF StepsInv

\* Main returns: if the agent still runs then nothing was to end it any more.
LEMMA FinalizeKeeps ==
  ASSUME StepsInv, Finalize
  PROVE  StepsInv'
<1>1. ~WillEndAgent /\ Len(todo) = 1
  <2>1. todo \in Seq(Step) /\ todo # <<>> /\ Head(todo) = "finalize"
    BY DEF StepsInv, RuntimeInvariant, TypeOK, Finalize, At
  <2>2. 1 \in DOMAIN todo /\ todo[1] = "finalize"
    BY <2>1
  <2>3. 1 = Len(todo)
    BY <2>2 DEF StepsInv, FinalizeLast
  <2>4. DOMAIN todo = {1}
    BY <2>1, <2>3
  <2> QED BY <2>2, <2>3, <2>4 DEF WillEndAgent
<1>2. todo' = <<"disconnect">>
  <2>1. todo \in Seq(Step) /\ todo # <<>>
    BY DEF StepsInv, RuntimeInvariant, TypeOK, Finalize, At
  <2>2. <<"disconnect">> \in Seq(Step) /\ Len(<<"disconnect">>) = 1
    BY DEF Step
  <2>3. /\ todo' \in Seq(Step)
        /\ Len(todo') = 1 + Len(todo) - 1
        /\ \A i \in 1..1 : todo'[i] = <<"disconnect">>[i]
    BY <2>1, <2>2, ContinueIndices DEF Finalize
  <2>4. Len(todo') = 1 /\ todo'[1] = "disconnect"
    BY <1>1, <2>3
  <2> QED BY <2>3, <2>4
<1>3. /\ todo' \in Seq(Step)
      /\ LaunchedFirst' /\ TerminateThenFinalize' /\ FinalizeLast'
  BY <1>2, NothingAhead
<1>4. RuntimeInvariant'
  BY <1>3 DEF Finalize, StepsInv, RuntimeInvariant, TypeOK, OneAgentAtMost
<1>5. EndIsAhead' /\ AgentIsEnded'
  BY <1>1 DEF Finalize, StepsInv, EndIsAhead, AgentIsEnded
<1> QED BY <1>3, <1>4, <1>5 DEF StepsInv

\* The interpreter exits, whatever the goodbye was about to do.
LEMMA ExitKeeps ==
  ASSUME StepsInv, Exit
  PROVE  StepsInv'
<1>1. /\ todo' \in Seq(Step)
      /\ LaunchedFirst' /\ TerminateThenFinalize' /\ FinalizeLast'
  BY NothingAhead DEF Exit
<1>2. RuntimeInvariant'
  BY <1>1 DEF Exit, StepsInv, RuntimeInvariant, TypeOK, OneAgentAtMost
<1>3. EndIsAhead' /\ AgentIsEnded'
  BY DEF Exit, StepsInv, EndIsAhead, AgentIsEnded
<1> QED BY <1>1, <1>2, <1>3 DEF StepsInv

\* Ctrl-C inside the loop goes through the end of the agent all the same.
LEMMA InterruptKeeps ==
  ASSUME StepsInv, Interrupt
  PROVE  StepsInv'
<1>1. \/ /\ interrupted' = "inside"
         /\ todo' = <<"disconnect", "terminate", "finalize">>
      \/ /\ interrupted' = "outside"
         /\ todo' = <<"finalize">>
  BY DEF Interrupt
<1>2. /\ todo' \in Seq(Step)
      /\ LaunchedFirst' /\ TerminateThenFinalize' /\ FinalizeLast'
      /\ interrupted' = "outside" \/ WillEndAgent'
  BY <1>1, NothingAhead
<1>3. RuntimeInvariant'
  BY <1>1, <1>2 DEF Interrupt, StepsInv, RuntimeInvariant, TypeOK, OneAgentAtMost
<1>4. EndIsAhead'
  BY <1>2 DEF EndIsAhead
<1>5. ASSUME agent_process' = "running"
      PROVE  interrupted' = "outside" \/ revived' \/ (WillEndAgent' /\ ~leaving')
  BY <1>2, <1>5 DEF Interrupt, StepsInv, AgentIsEnded
<1>6. AgentIsEnded'
  BY <1>5 DEF AgentIsEnded
<1> QED BY <1>2, <1>3, <1>4, <1>6 DEF StepsInv

\* What happens around the supervisor, and nothing.
LEMMA OutsideKeeps ==
  ASSUME StepsInv, AgentDies \/ CreateSemaphore \/ UNCHANGED vars
  PROVE  StepsInv'
<1>1. /\ UNCHANGED <<todo, leaving, interrupted, revived, strays, allow_heartbeat,
                     commands, shut_down>>
      /\ \/ UNCHANGED agent_process
         \/ agent_process = "running" /\ agent_process' = "dead"
      /\ semaphore' \in BOOLEAN
  BY DEF AgentDies, CreateSemaphore, vars, StepsInv, RuntimeInvariant, TypeOK
<1>2. RuntimeInvariant'
  BY <1>1 DEF StepsInv, RuntimeInvariant, TypeOK, OneAgentAtMost
<1>3. LaunchedFirst'
  <2>1. CASE UNCHANGED agent_process
    BY <1>1, <2>1 DEF StepsInv, LaunchedFirst
  <2>2. CASE agent_process = "running"
    BY <1>1, <2>2 DEF StepsInv, LaunchedFirst
  <2> QED BY <1>1, <2>1, <2>2
<1>4. TerminateThenFinalize' /\ FinalizeLast' /\ EndIsAhead'
  BY <1>1 DEF StepsInv, TerminateThenFinalize, FinalizeLast, EndIsAhead, WillEndAgent
<1>5. AgentIsEnded'
  BY <1>1 DEF StepsInv, AgentIsEnded, WillEndAgent
<1> QED BY <1>2, <1>3, <1>4, <1>5 DEF StepsInv

LEMMA StepsInvStep == StepsInv /\ [Next]_vars => StepsInv'
<1> SUFFICES ASSUME StepsInv, [Next]_vars PROVE StepsInv'
  OBVIOUS
<1>1. CASE Introduce \/ Report \/ Disconnect \/ Heartbeat \/ Check
           \/ StopHeartbeat \/ Shutdown
  BY <1>1, TalkKeeps
<1>2. CASE Launch
  BY <1>2, LaunchKeeps
<1>3. CASE Restart
  BY <1>3, RestartKeeps
<1>4. CASE Terminate \/ Halt
  BY <1>4, EndKeeps
<1>5. CASE Finalize
  BY <1>5, FinalizeKeeps
<1>6. CASE Exit
  BY <1>6, ExitKeeps
<1>7. CASE Interrupt
  BY <1>7, InterruptKeeps
<1>8. CASE AgentDies \/ CreateSemaphore \/ UNCHANGED vars
  BY <1>8, OutsideKeeps
<1>9. CASE Gone
  BY <1>9, OutsideKeeps DEF Gone
<1> QED BY <1>1, <1>2, <1>3, <1>4, <1>5, <1>6, <1>7, <1>8, <1>9 DEF Next, Supervise

LEMMA StepsInvAlways == Spec => []StepsInv
BY StepsInvInit, StepsInvStep, PTL DEF Spec

-----------------------------------------------------------------------------
(* The properties *)

\* The type invariant, and a single agent process however the commands nest.
THEOREM RuntimeInvariantAlways == Spec => []RuntimeInvariant
<1>1. StepsInv => RuntimeInvariant
  BY DEF StepsInv
<1> QED BY <1>1, StepsInvAlways, PTL

\* A supervisor that is gone has ended its agent, but for the two exceptions that
\* NoOrphan names.
THEOREM NoOrphanAlways == Spec => []NoOrphan
<1>1. StepsInv => NoOrphan
  BY DEF StepsInv, AgentIsEnded, NoOrphan, WillEndAgent
<1> QED BY <1>1, StepsInvAlways, PTL

-----------------------------------------------------------------------------
(* AgentAuthorization: a message is handled once *)

\* An attempt is made, or about to be made, only while the channel it uses, and
\* the one the consumer would fall back to, have not handled the message.
AttemptIsFresh ==
    sending.at # "idle" =>
        /\ handledOn[sending.channel] = 0
        /\ sending.channel = "websocket" => handledOn["http"] = 0

\* What send() leaves alone or only moves forward.
Surroundings ==
    /\ setup \in Setups
    /\ issued \in 0 .. MaxTokens
    /\ expired \subseteq 1 .. issued
    /\ idpUp \in BOOLEAN
    /\ barred \in {"no", "blocked", "pending"}
    /\ cached \in {NoToken, OwnToken} \cup 1 .. issued

\* What any step of send() has to preserve.
SendInv ==
    /\ sending \in [at : {"idle", "resolve", "request"}, channel : Channels,
                    forced : BOOLEAN, header : Headers]
    /\ (sending.at = "request" /\ sending.header = NoToken) => setup.consumer = "none"
    /\ handledOn \in [Channels -> 0 .. 1]
    /\ answer \in {"none", "handled", "error", "failed"}
    /\ AttemptIsFresh

AuthorizationInv == Surroundings /\ SendInv

LEMMA InvariantFollows == AuthorizationInv => AuthorizationInvariant
<1> SUFFICES ASSUME AuthorizationInv PROVE AuthorizationInvariant
  OBVIOUS
<1>1. handledOn \in [Channels -> 0 .. 2] /\ RetryIsNotARepetition
  BY DEF AuthorizationInv, SendInv, RetryIsNotARepetition
<1> QED BY <1>1
    DEF AuthorizationInv, Surroundings, SendInv, AuthorizationInvariant, AuthorizationTypeOK

\* Where an attempt that failed with an exception leads.
LEMMA WhereFailureLeads ==
  ASSUME NEW status, RequestFails(status)
  PROVE  \/ /\ sending' = [sending EXCEPT !.at = "resolve", !.forced = TRUE]
            /\ status \in AuthRetryStatusCodes
            /\ answer' = answer
         \/ /\ sending.channel = "websocket"
            /\ sending' = [NotSending EXCEPT !.at = "resolve"]
            /\ answer' = answer
         \/ /\ sending' = NotSending
            /\ answer' = "failed"
BY DEF RequestFails, RetriesWith, AttemptRaises

-----------------------------------------------------------------------------
(* Steps of send() *)

\* An attempt that raised, with the message handled at most on its own channel.
LEMMA RaisingKeeps ==
  ASSUME AuthorizationInv, sending.at # "idle", NEW status, RequestFails(status),
         handledOn' \in [Channels -> 0 .. 1],
         \A c \in Channels : c # sending.channel => handledOn'[c] = handledOn[c],
         status \in AuthRetryStatusCodes => handledOn' = handledOn,
         setup' = setup
  PROVE  SendInv'
<1>0. SendInv
  BY DEF AuthorizationInv
<1>1. CASE /\ sending' = [sending EXCEPT !.at = "resolve", !.forced = TRUE]
           /\ status \in AuthRetryStatusCodes
           /\ answer' = answer
  <2>1. /\ sending'.at = "resolve" /\ sending'.channel = sending.channel
        /\ sending' \in [at : {"idle", "resolve", "request"}, channel : Channels,
                         forced : BOOLEAN, header : Headers]
    BY <1>0, <1>1 DEF SendInv
  <2>2. AttemptIsFresh'
    BY <1>1, <2>1 DEF AuthorizationInv, SendInv, AttemptIsFresh
  <2> QED BY <1>0, <1>1, <2>1, <2>2 DEF SendInv
<1>2. CASE /\ sending.channel = "websocket"
           /\ sending' = [NotSending EXCEPT !.at = "resolve"]
           /\ answer' = answer
  <2>1. sending' = [at |-> "resolve", channel |-> "http", forced |-> FALSE, header |-> NoToken]
    BY <1>2 DEF NotSending
  <2>2. handledOn'["http"] = handledOn["http"] /\ handledOn["http"] = 0
    BY <1>2 DEF AuthorizationInv, SendInv, AttemptIsFresh, Channels
  <2>3. AttemptIsFresh'
    BY <2>1, <2>2 DEF AttemptIsFresh
  <2>4. sending' \in [at : {"idle", "resolve", "request"}, channel : Channels,
                      forced : BOOLEAN, header : Headers]
    BY <2>1 DEF Channels, Headers
  <2>5. sending'.at # "request"
    BY <2>1
  <2> QED BY <1>0, <1>2, <2>3, <2>4, <2>5 DEF SendInv
<1>3. CASE sending' = NotSending /\ answer' = "failed"
  <2>1. sending' = [at |-> "idle", channel |-> "http", forced |-> FALSE, header |-> NoToken]
    BY <1>3 DEF NotSending
  <2> QED BY <1>3, <2>1 DEF SendInv, AttemptIsFresh, Channels, Headers
<1> QED BY <1>1, <1>2, <1>3, WhereFailureLeads

\* send() ends.
LEMMA EndingKeeps ==
  ASSUME sending' = NotSending, handledOn' \in [Channels -> 0 .. 1],
         answer' \in {"none", "handled", "error", "failed"}
  PROVE  SendInv'
<1>1. sending' = [at |-> "idle", channel |-> "http", forced |-> FALSE, header |-> NoToken]
  BY DEF NotSending
<1> QED BY <1>1 DEF SendInv, AttemptIsFresh, Channels, Headers

\* The provider handled the message: for the first time on this channel.
LEMMA FirstHandling ==
  ASSUME AuthorizationInv, sending.at # "idle",
         handledOn' = [handledOn EXCEPT ![sending.channel] = @ + 1]
  PROVE  /\ handledOn' \in [Channels -> 0 .. 1]
         /\ \A c \in Channels : c # sending.channel => handledOn'[c] = handledOn[c]
<1>1. handledOn \in [Channels -> 0 .. 1] /\ sending.channel \in Channels
  BY DEF AuthorizationInv, SendInv
<1>2. handledOn[sending.channel] = 0
  BY DEF AuthorizationInv, SendInv, AttemptIsFresh
<1> QED BY <1>1, <1>2

\* A failure without a status is never followed by another try on the channel.
LEMMA NoStatusNoRetry == 0 \notin AuthRetryStatusCodes
BY DEF AuthRetryStatusCodes

-----------------------------------------------------------------------------
(* Every step *)

LEMMA SendKeeps ==
  ASSUME AuthorizationInv, Send
  PROVE  AuthorizationInv'
<1>1. sending' = [at |-> "resolve", channel |-> setup.transport,
                  forced |-> FALSE, header |-> NoToken]
  BY DEF Send, NotSending
<1>2. setup.transport \in Channels
  BY DEF AuthorizationInv, Surroundings, Setups
<1>3. sending' \in [at : {"idle", "resolve", "request"}, channel : Channels,
                    forced : BOOLEAN, header : Headers]
  BY <1>1, <1>2 DEF Headers
<1>4. handledOn' \in [Channels -> 0 .. 1] /\ \A c \in Channels : handledOn'[c] = 0
  BY DEF Send
<1>5. AttemptIsFresh'
  BY <1>1, <1>2, <1>4 DEF AttemptIsFresh, Channels
<1>6. SendInv'
  BY <1>1, <1>3, <1>4, <1>5 DEF Send, AuthorizationInv, SendInv
<1> QED BY <1>6 DEF AuthorizationInv, Surroundings, Send

\* A header was found for the request: one with a token, if the setup wants one.
LEMMA RequestKeeps ==
  ASSUME AuthorizationInv, sending.at = "resolve", NEW header \in Headers, Request(header),
         header = NoToken => setup.consumer = "none", UNCHANGED <<setup, handledOn>>
  PROVE  SendInv'
<1>0. SendInv
  BY DEF AuthorizationInv
<1>1. /\ sending' \in [at : {"idle", "resolve", "request"}, channel : Channels,
                       forced : BOOLEAN, header : Headers]
      /\ sending'.channel = sending.channel /\ sending'.header = header
  BY <1>0 DEF SendInv, Request
<1>2. AttemptIsFresh'
  BY <1>0, <1>1 DEF SendInv, AttemptIsFresh
<1> QED BY <1>0, <1>1, <1>2 DEF SendInv, Request

\* No header was found.
LEMMA NoHeaderKeeps ==
  ASSUME AuthorizationInv, sending.at = "resolve", AttemptRaises, UNCHANGED <<setup, handledOn>>
  PROVE  SendInv'
<1>1. handledOn' \in [Channels -> 0 .. 1]
  BY DEF AuthorizationInv, SendInv
<1>2. CASE sending.channel = "websocket"
  <2>1. sending' = [at |-> "resolve", channel |-> "http", forced |-> FALSE, header |-> NoToken]
    BY <1>2 DEF AttemptRaises, NotSending
  <2>2. handledOn'["http"] = 0
    BY <1>2 DEF AuthorizationInv, SendInv, AttemptIsFresh
  <2>3. AttemptIsFresh'
    BY <2>1, <2>2 DEF AttemptIsFresh
  <2>4. sending' \in [at : {"idle", "resolve", "request"}, channel : Channels,
                      forced : BOOLEAN, header : Headers]
    BY <2>1 DEF Channels, Headers
  <2>5. sending'.at # "request"
    BY <2>1
  <2>6. answer' \in {"none", "handled", "error", "failed"}
    BY <1>2 DEF AttemptRaises, AuthorizationInv, SendInv
  <2> QED BY <1>1, <2>3, <2>4, <2>5, <2>6 DEF SendInv
<1>3. CASE sending.channel # "websocket"
  BY <1>1, <1>3, EndingKeeps DEF AttemptRaises
<1> QED BY <1>2, <1>3

LEMMA ResolveOwnHeaderKeeps ==
  ASSUME AuthorizationInv, ResolveOwnHeader
  PROVE  AuthorizationInv'
<1>1. CASE setup.consumer = "none" /\ Request(NoToken)
  <2>1. SendInv'
    BY <1>1, RequestKeeps DEF ResolveOwnHeader, Headers
  <2> QED BY <1>1, <2>1 DEF AuthorizationInv, Surroundings, ResolveOwnHeader, Request
<1>2. CASE Request(OwnToken)
  <2>1. OwnToken \in Headers /\ OwnToken # NoToken
    BY DEF Headers, OwnToken, NoToken
  <2>2. SendInv'
    BY <1>2, <2>1, RequestKeeps DEF ResolveOwnHeader
  <2> QED BY <1>2, <2>2 DEF AuthorizationInv, Surroundings, ResolveOwnHeader, Request
<1>3. CASE AttemptRaises /\ UNCHANGED cached
  <2>1. SendInv'
    BY <1>3, NoHeaderKeeps DEF ResolveOwnHeader
  <2> QED BY <1>3, <2>1 DEF AuthorizationInv, Surroundings, ResolveOwnHeader
<1> QED BY <1>1, <1>2, <1>3 DEF ResolveOwnHeader

LEMMA ResolveCachedHeaderKeeps ==
  ASSUME AuthorizationInv, ResolveCachedHeader
  PROVE  AuthorizationInv'
<1>1. cached \in Headers /\ cached # NoToken
  <2>1. cached \in {NoToken, OwnToken} \cup 1 .. issued /\ issued \in 0 .. MaxTokens
    BY DEF AuthorizationInv, Surroundings
  <2> QED BY <2>1, MaxTokensAssumption DEF ResolveCachedHeader, UsesCachedHeader, Headers, IdpTokens
<1>2. SendInv'
  BY <1>1, RequestKeeps DEF ResolveCachedHeader
<1> QED BY <1>2 DEF AuthorizationInv, Surroundings, ResolveCachedHeader, Request

LEMMA RefreshIdpHeaderKeeps ==
  ASSUME AuthorizationInv, RefreshIdpHeader
  PROVE  AuthorizationInv'
<1>1. CASE idpUp
  <2>0. /\ issued \in 0 .. MaxTokens
        /\ issued' = IF issued < MaxTokens THEN issued + 1 ELSE issued
        /\ Request(issued')
    BY <1>1 DEF AuthorizationInv, Surroundings, RefreshIdpHeader
  <2>1. issued' \in 1 .. MaxTokens /\ issued <= issued'
    BY <2>0, MaxTokensAssumption
  <2>2. issued' \in Headers /\ issued' # NoToken
    BY <2>1 DEF Headers, IdpTokens, NoToken
  <2>3. SendInv'
    BY <2>0, <2>2, RequestKeeps DEF RefreshIdpHeader
  <2>4. expired' \subseteq 1 .. issued'
    <3>1. expired' = expired /\ expired \subseteq 1 .. issued /\ issued \in Nat
      BY MaxTokensAssumption DEF AuthorizationInv, Surroundings, RefreshIdpHeader
    <3> QED BY <2>1, <3>1
  <2>5. cached' \in {NoToken, OwnToken} \cup 1 .. issued'
    <3>1. cached' = issued'
      BY <2>0 DEF Request
    <3> QED BY <2>1, <3>1
  <2>6. issued' \in 0 .. MaxTokens
    BY <2>1
  <2> QED BY <2>3, <2>4, <2>5, <2>6 DEF AuthorizationInv, Surroundings, RefreshIdpHeader
<1>2. CASE ~idpUp
  <2>1. SendInv'
    BY <1>2, NoHeaderKeeps DEF RefreshIdpHeader
  <2> QED BY <1>2, <2>1 DEF AuthorizationInv, Surroundings, RefreshIdpHeader
<1> QED BY <1>1, <1>2

LEMMA RequestAnsweredKeeps ==
  ASSUME AuthorizationInv, RequestAnswered
  PROVE  AuthorizationInv'
<1>0. sending.at # "idle" /\ handledOn \in [Channels -> 0 .. 1] /\ setup' = setup
  BY DEF AuthorizationInv, SendInv, RequestAnswered
<1>1. SendInv'
  <2>1. CASE MessageHandled
    BY <1>0, <2>1, FirstHandling, EndingKeeps DEF MessageHandled
  <2>2. ASSUME NEW outcome, RefusedWithStatus(outcome) PROVE SendInv'
    BY <1>0, <2>2, RaisingKeeps DEF RefusedWithStatus
  <2>3. CASE RefusedOverWebSocket
    <3>1. CASE sending' = NotSending /\ answer' = "error"
      BY <1>0, <2>3, <3>1, EndingKeeps DEF RefusedOverWebSocket
    <3>2. CASE RequestFails(0)
      BY <1>0, <2>3, <3>2, RaisingKeeps DEF RefusedOverWebSocket
    <3> QED BY <2>3, <3>1, <3>2 DEF RefusedOverWebSocket
  <2> QED BY <2>1, <2>2, <2>3 DEF RequestAnswered
<1> QED BY <1>1 DEF AuthorizationInv, Surroundings, RequestAnswered

LEMMA RequestLostKeeps ==
  ASSUME AuthorizationInv, RequestLost
  PROVE  AuthorizationInv'
<1>0. sending.at # "idle" /\ handledOn \in [Channels -> 0 .. 1] /\ setup' = setup
  BY DEF AuthorizationInv, SendInv, RequestLost
<1>1. SendInv'
  <2>1. CASE RequestFails(0) /\ UNCHANGED handledOn
    BY <1>0, <2>1, RaisingKeeps
  <2>2. CASE HandledInVain
    BY <1>0, <2>2, FirstHandling, NoStatusNoRetry, RaisingKeeps DEF HandledInVain
  <2> QED BY <2>1, <2>2 DEF RequestLost
<1> QED BY <1>1 DEF AuthorizationInv, Surroundings, RequestLost

\* What happens outside the consumer, and nothing.
LEMMA OthersKeep ==
  ASSUME AuthorizationInv,
         TokenExpires \/ IdpComesOrGoes \/ OperatorBlocksOrApproves \/ UNCHANGED authorizationVars
  PROVE  AuthorizationInv'
<1>1. UNCHANGED <<setup, issued, cached, sending, handledOn, answer>>
  BY DEF TokenExpires, IdpComesOrGoes, OperatorBlocksOrApproves, authorizationVars
<1>2. expired' \subseteq 1 .. issued'
  BY <1>1 DEF AuthorizationInv, Surroundings, TokenExpires, IdpComesOrGoes,
              OperatorBlocksOrApproves, authorizationVars
<1>3. idpUp' \in BOOLEAN /\ barred' \in {"no", "blocked", "pending"}
  BY DEF AuthorizationInv, Surroundings, TokenExpires, IdpComesOrGoes,
         OperatorBlocksOrApproves, authorizationVars
<1>4. SendInv'
  BY <1>1 DEF AuthorizationInv, SendInv, AttemptIsFresh
<1> QED BY <1>1, <1>2, <1>3, <1>4 DEF AuthorizationInv, Surroundings

LEMMA AuthorizationInvInit == AuthorizationInit => AuthorizationInv
<1> SUFFICES ASSUME AuthorizationInit PROVE AuthorizationInv
  OBVIOUS
<1>1. sending = [at |-> "idle", channel |-> "http", forced |-> FALSE, header |-> NoToken]
  BY DEF AuthorizationInit, NotSending
<1>2. SendInv
  BY <1>1 DEF AuthorizationInit, SendInv, AttemptIsFresh, Channels, Headers
<1>3. issued \in 0 .. MaxTokens
  BY MaxTokensAssumption DEF AuthorizationInit
<1>4. /\ setup \in Setups /\ expired \subseteq 1 .. issued /\ idpUp \in BOOLEAN
      /\ barred \in {"no", "blocked", "pending"} /\ cached \in {NoToken, OwnToken} \cup 1 .. issued
  BY DEF AuthorizationInit
<1> QED BY <1>2, <1>3, <1>4 DEF AuthorizationInv, Surroundings

LEMMA AuthorizationInvStep ==
  AuthorizationInv /\ [AuthorizationNext]_authorizationVars => AuthorizationInv'
<1> SUFFICES ASSUME AuthorizationInv, [AuthorizationNext]_authorizationVars PROVE AuthorizationInv'
  OBVIOUS
<1>1. CASE Send
  BY <1>1, SendKeeps
<1>2. CASE ResolveOwnHeader
  BY <1>2, ResolveOwnHeaderKeeps
<1>3. CASE ResolveCachedHeader
  BY <1>3, ResolveCachedHeaderKeeps
<1>4. CASE RefreshIdpHeader
  BY <1>4, RefreshIdpHeaderKeeps
<1>5. CASE RequestAnswered
  BY <1>5, RequestAnsweredKeeps
<1>6. CASE RequestLost
  BY <1>6, RequestLostKeeps
<1>7. CASE TokenExpires \/ IdpComesOrGoes \/ OperatorBlocksOrApproves \/ UNCHANGED authorizationVars
  BY <1>7, OthersKeep
<1> QED BY <1>1, <1>2, <1>3, <1>4, <1>5, <1>6, <1>7 DEF AuthorizationNext

\* The type invariant, and what it takes for a message to be handled once: the
\* consumer tries again on a channel only after a refusal with a status, and
\* falls back to a channel that has not seen the message.
THEOREM AuthorizationInvariantAlways == AuthorizationSpec => []AuthorizationInvariant
BY InvariantFollows, AuthorizationInvInit, AuthorizationInvStep, PTL DEF AuthorizationSpec
=============================================================================
