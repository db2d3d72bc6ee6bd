---------------------------- MODULE BrokerProofs ----------------------------
(***************************************************************************)
(* Proofs about the agent broker, for any threads, handlers, signals,      *)
(* messages, tools and sessions of the provider.                           *)
(*                                                                         *)
(* BrokerSessions: the sweeper leaves alone what is in use, and no         *)
(* conversation is left at the end without a goodbye, however many         *)
(* shutdowns run and wherever the sweeper stands when they begin.          *)
(*                                                                         *)
(* BrokerConversation: tools in the cache can be called, unless messages   *)
(* discovered them at once; they then leave a session id at any rate.      *)
(***************************************************************************)
EXTENDS BrokerSessions, BrokerConversation, TLAPS

\* The thread whose goodbye is posted is off the list.  Until a shutdown begins
\* only the sweeper deletes sessions, so what it listed is still there and idle.
SweeperInv ==
    /\ sweeper.at \notin sweeper.due
    /\ broker = "ready" => sweeper.removed = {} /\ sweeper.due \subseteq Idle

\* Each shutdown alone sees to all that was there when it began: what came since
\* was used since.
ShutdownInv ==
    /\ broker = "ready" => \A s \in Signals : ~shutdowns[s].begun
    /\ \A s \in Signals :
          goodbyes.shutdown /\ shutdowns[s].begun
              => DOMAIN sessions \subseteq late \cup shutdowns[s].leaving

BrokerInv == TypeOK /\ GoodbyeToAll /\ SweeperInv /\ ShutdownInv

-----------------------------------------------------------------------------
(* What the steps are made of *)

\* In the proofs of a step, the four parts of the invariant are shown one by one.
LEMMA InitKeeps == Init => BrokerInv
<1> SUFFICES ASSUME Init PROVE BrokerInv
  OBVIOUS
<1>1. sessions = <<>> /\ DOMAIN sessions = {}
  BY DEF Init
<1>2. sweeper = [phase |-> "waiting", due |-> {}, removed |-> {}, at |-> NoThread]
  BY DEF Init, AtRest
<1>3. sweeper \in Sweeper /\ sweeper.due = {} /\ sweeper.removed = {}
  BY <1>2 DEF Sweeper
<1>4. shutdowns \in [Signals -> Shutdown] /\ \A s \in Signals : ~shutdowns[s].begun
  BY DEF Init, Shutdown
<1>5. /\ broker = "ready" /\ goodbyes \in [idle: BOOLEAN, shutdown: BOOLEAN]
      /\ handlers \in [Handlers -> Threads \cup {NoThread}] /\ late = {}
  BY DEF Init
<1>6. TypeOK
  BY <1>1, <1>3, <1>4, <1>5 DEF TypeOK
<1> QED BY <1>3, <1>4, <1>5, <1>6 DEF BrokerInv, GoodbyeToAll, SweeperInv, ShutdownInv

\* A session is created or used.
LEMMA UsedKeeps ==
  ASSUME BrokerInv, Running, NEW t \in Threads, Used(t),
         UNCHANGED <<broker, goodbyes, shutdowns>>,
         handlers' \in [Handlers -> Threads \cup {NoThread}]
  PROVE  BrokerInv'
<1>0. TypeOK /\ SweeperInv /\ ShutdownInv
  BY DEF BrokerInv
<1>1. /\ DOMAIN sessions' = DOMAIN sessions \cup {t}
      /\ \A u \in DOMAIN sessions' : sessions'[u] = IF u = t THEN "active" ELSE sessions[u]
  BY DEF Used
<1>2. /\ sweeper' \in Sweeper
      /\ sweeper'.due = sweeper.due \ ({t} \ sweeper.removed)
      /\ sweeper'.removed = sweeper.removed /\ sweeper'.at = sweeper.at
  BY <1>0 DEF Used, TypeOK, Sweeper
<1>3. late' = IF broker = "stopping" THEN late \cup {t} ELSE late
  BY DEF Used
<1>4. TypeOK'
  BY <1>0, <1>1, <1>2, <1>3 DEF TypeOK
<1>5. SweeperInv'
  BY <1>0, <1>1, <1>2 DEF SweeperInv, Idle
<1>6. broker \in {"ready", "stopping"}
  BY DEF Running
<1>7. ShutdownInv'
  BY <1>0, <1>1, <1>3, <1>6 DEF ShutdownInv
<1> QED BY <1>4, <1>5, <1>6, <1>7 DEF BrokerInv, GoodbyeToAll

\* Sessions go, and nothing else that a shutdown counts on changes.
LEMMA SessionsGo ==
  ASSUME BrokerInv, Running, UNCHANGED <<broker, goodbyes, shutdowns, late>>,
         DOMAIN sessions' \subseteq DOMAIN sessions
  PROVE  ShutdownInv' /\ GoodbyeToAll'
BY DEF BrokerInv, Running, ShutdownInv, GoodbyeToAll

LEMMA HandlerKeeps ==
  ASSUME BrokerInv,
         \/ \E h \in Handlers, t \in Threads : Receive(h, t)
         \/ \E h \in Handlers : GraphReturns(h) \/ GraphRaises(h)
  PROVE  BrokerInv'
<1>0. TypeOK
  BY DEF BrokerInv
<1>1. ASSUME NEW h \in Handlers, NEW t \in Threads, Receive(h, t) PROVE BrokerInv'
  <2>1. handlers' \in [Handlers -> Threads \cup {NoThread}]
    BY <1>0, <1>1 DEF TypeOK, Receive
  <2> QED BY <1>1, <2>1, UsedKeeps DEF Receive
<1>2. ASSUME NEW h \in Handlers, GraphReturns(h) \/ GraphRaises(h) PROVE BrokerInv'
  <2>1. /\ handlers' \in [Handlers -> Threads \cup {NoThread}]
        /\ Running /\ UNCHANGED <<broker, goodbyes, shutdowns>>
        /\ handlers[h] \in Threads
    BY <1>0, <1>2 DEF TypeOK, GraphReturns, GraphRaises
  <2>2. Used(handlers[h]) \/ UNCHANGED <<sessions, sweeper, late>>
    BY <1>2 DEF GraphReturns, GraphRaises
  <2>3. CASE Used(handlers[h])
    BY <2>1, <2>3, UsedKeeps
  <2>4. CASE UNCHANGED <<sessions, sweeper, late>>
    <3>1. TypeOK' /\ SweeperInv'
      BY <2>1, <2>4 DEF BrokerInv, TypeOK, SweeperInv, Idle
    <3> QED BY <2>1, <2>4, <3>1, SessionsGo DEF BrokerInv
  <2> QED BY <2>2, <2>3, <2>4
<1> QED BY <1>1, <1>2

LEMMA TimePassesKeeps ==
  ASSUME BrokerInv, NEW t \in Threads, TimePasses(t)
  PROVE  BrokerInv'
<1>1. /\ DOMAIN sessions' = DOMAIN sessions
      /\ \A u \in DOMAIN sessions : sessions'[u] = IF u = t THEN "idle" ELSE sessions[u]
      /\ Running
      /\ UNCHANGED <<broker, goodbyes, sweeper, shutdowns, handlers, late>>
  BY DEF TimePasses
<1>2. TypeOK'
  BY <1>1 DEF BrokerInv, TypeOK
<1>3. SweeperInv'
  BY <1>1 DEF BrokerInv, SweeperInv, Idle
<1> QED BY <1>1, <1>2, <1>3, SessionsGo DEF BrokerInv

-----------------------------------------------------------------------------
(* The sweeper *)

\* Where a pass leads from a list of sessions that are there, or were removed.
LEMMA ExpireLeads ==
  ASSUME TypeOK, NEW due, NEW remaining, Expire(due, remaining)
  PROVE  \/ /\ sessions' = [t \in DOMAIN remaining \ due |-> remaining[t]]
            /\ sweeper' = AtRest
         \/ /\ sessions' = remaining
            /\ \E t \in due :
                  /\ sweeper'.phase = "goodbye" /\ sweeper'.due = due \ {t}
                  /\ sweeper'.at = t /\ sweeper'.removed = sweeper.removed
                  /\ sweeper' = [phase |-> "goodbye", due |-> due \ {t},
                                 removed |-> sweeper.removed, at |-> t]
<1>1. sweeper \in Sweeper
  BY DEF TypeOK
<1>2. ASSUME NEW t \in due,
             sweeper' = [sweeper EXCEPT !.phase = "goodbye", !.due = due \ {t}, !.at = t]
      PROVE  sweeper' = [phase |-> "goodbye", due |-> due \ {t},
                         removed |-> sweeper.removed, at |-> t]
  BY <1>1, <1>2 DEF Sweeper
<1> QED BY <1>2 DEF Expire

LEMMA AtRestFacts ==
  /\ AtRest \in Sweeper
  /\ AtRest.due = {} /\ AtRest.removed = {} /\ AtRest.at = NoThread
BY DEF AtRest, Sweeper

\* A list that consists of sessions still there, or removed by a shutdown, and of
\* idle ones while none has begun.
LEMMA ExpireKeeps ==
  ASSUME BrokerInv, Running, NEW due \in SUBSET Threads, NEW gone \in SUBSET Threads,
         Expire(due, Without(gone)),
         UNCHANGED <<broker, goodbyes, shutdowns, handlers, late>>,
         due \cap gone = {},
         due \subseteq DOMAIN sessions \cup sweeper.removed,
         broker = "ready" => due \subseteq Idle
  PROVE  BrokerInv'
<1>0. TypeOK /\ SweeperInv
  BY DEF BrokerInv
<1>1. /\ DOMAIN Without(gone) = DOMAIN sessions \ gone
      /\ \A t \in DOMAIN Without(gone) : Without(gone)[t] = sessions[t]
  BY DEF Without
<1>2. CASE /\ sessions' = [t \in DOMAIN Without(gone) \ due |-> Without(gone)[t]]
           /\ sweeper' = AtRest
  <2>1. /\ DOMAIN sessions' \subseteq DOMAIN sessions
        /\ \A t \in DOMAIN sessions' : sessions'[t] = sessions[t]
    BY <1>1, <1>2
  <2>2. TypeOK'
    BY <1>0, <1>2, <2>1, AtRestFacts DEF TypeOK
  <2>3. SweeperInv'
    BY <1>2, AtRestFacts DEF SweeperInv
  <2> QED BY <2>1, <2>2, <2>3, SessionsGo DEF BrokerInv
<1>3. ASSUME sessions' = Without(gone),
             NEW t \in due,
             sweeper' = [phase |-> "goodbye", due |-> due \ {t},
                         removed |-> sweeper.removed, at |-> t]
      PROVE  BrokerInv'
  <2>1. /\ DOMAIN sessions' = DOMAIN sessions \ gone
        /\ \A u \in DOMAIN sessions' : sessions'[u] = sessions[u]
    BY <1>1, <1>3
  <2>2. /\ sweeper' \in Sweeper /\ sweeper'.due = due \ {t} /\ sweeper'.at = t
        /\ sweeper'.removed = sweeper.removed
    BY <1>0, <1>3 DEF TypeOK, Sweeper
  <2>3. sweeper'.due \subseteq DOMAIN sessions' \cup sweeper'.removed
    BY <2>1, <2>2
  <2>4. TypeOK'
    BY <1>0, <2>1, <2>2, <2>3 DEF TypeOK
  <2>5. SweeperInv'
    BY <1>0, <2>1, <2>2 DEF SweeperInv, Idle
  <2> QED BY <2>1, <2>4, <2>5, SessionsGo DEF BrokerInv
<1> QED BY <1>0, <1>2, <1>3, ExpireLeads

LEMMA SweepKeeps ==
  ASSUME BrokerInv, Sweep
  PROVE  BrokerInv'
<1>1. Idle \in SUBSET Threads /\ Idle \subseteq DOMAIN sessions
  BY DEF BrokerInv, TypeOK, Idle
<1>2. Expire(Idle, sessions) /\ Running
  BY DEF Sweep, Running
<1>3. CASE \/ Idle = {} \/ ~goodbyes.idle
  <2>1. /\ sessions' = [t \in DOMAIN sessions \ Idle |-> sessions[t]] /\ sweeper' = AtRest
    BY <1>2, <1>3 DEF Expire
  <2>2. /\ DOMAIN sessions' \subseteq DOMAIN sessions
        /\ \A t \in DOMAIN sessions' : sessions'[t] = sessions[t]
    BY <2>1
  <2>3. TypeOK' /\ SweeperInv'
    BY <2>1, <2>2, AtRestFacts DEF BrokerInv, TypeOK, SweeperInv, Sweep
  <2> QED BY <1>2, <2>2, <2>3, SessionsGo DEF BrokerInv, Sweep
<1>4. CASE Idle # {} /\ goodbyes.idle
  <2>1. PICK t \in Idle :
          /\ sessions' = sessions
          /\ sweeper' = [sweeper EXCEPT !.phase = "goodbye", !.due = Idle \ {t}, !.at = t]
    BY <1>2, <1>4 DEF Expire
  <2>2. /\ sweeper' \in Sweeper /\ sweeper'.due = Idle \ {t} /\ sweeper'.at = t
        /\ sweeper'.removed = sweeper.removed
    BY <1>1, <2>1 DEF BrokerInv, TypeOK, Sweeper
  <2>3. TypeOK'
    BY <1>1, <2>1, <2>2 DEF BrokerInv, TypeOK, Sweep
  <2>4. SweeperInv'
    BY <2>1, <2>2 DEF BrokerInv, SweeperInv, Idle, Sweep
  <2> QED BY <1>2, <2>1, <2>3, <2>4, SessionsGo DEF BrokerInv, Sweep
<1> QED BY <1>3, <1>4

LEMMA GoodbyePostedKeeps ==
  ASSUME BrokerInv, GoodbyePosted
  PROVE  BrokerInv'
<1>1. /\ sweeper.due \in SUBSET Threads
      /\ sweeper.due \subseteq DOMAIN sessions \cup sweeper.removed
      /\ sweeper.at \notin sweeper.due
      /\ broker = "ready" => sweeper.due \subseteq Idle
  BY DEF BrokerInv, TypeOK, Sweeper, SweeperInv
<1>2. Without({sweeper.at}) = Without({sweeper.at} \cap Threads)
  <2>1. DOMAIN sessions \ {sweeper.at} = DOMAIN sessions \ ({sweeper.at} \cap Threads)
    BY DEF BrokerInv, TypeOK
  <2> QED BY <2>1 DEF Without
<1>3. Expire(sweeper.due, Without({sweeper.at} \cap Threads))
  BY <1>2 DEF GoodbyePosted
<1>4. sweeper.due \cap ({sweeper.at} \cap Threads) = {} /\ {sweeper.at} \cap Threads \in SUBSET Threads
  BY <1>1
<1> QED BY <1>1, <1>3, <1>4, ExpireKeeps DEF GoodbyePosted

LEMMA GoodbyeFailsKeeps ==
  ASSUME BrokerInv, GoodbyeFails
  PROVE  BrokerInv'
<1>1. /\ sweeper' \in Sweeper /\ sweeper'.due = {} /\ sweeper'.removed = {}
      /\ Running /\ UNCHANGED <<broker, goodbyes, sessions, shutdowns, handlers, late>>
  BY DEF GoodbyeFails, AtRest, Sweeper
<1>2. TypeOK' /\ SweeperInv'
  BY <1>1 DEF BrokerInv, TypeOK, SweeperInv
<1> QED BY <1>1, <1>2, SessionsGo DEF BrokerInv

-----------------------------------------------------------------------------
(* Shutdown *)

LEMMA SignalledKeeps ==
  ASSUME BrokerInv, NEW s \in Signals, Signalled(s)
  PROVE  BrokerInv'
<1>0. TypeOK /\ SweeperInv /\ ShutdownInv
  BY DEF BrokerInv
<1>1. /\ broker' = "stopping"
      /\ shutdowns' = [shutdowns EXCEPT ![s] = [begun |-> TRUE, leaving |-> Leaving]]
      /\ UNCHANGED <<goodbyes, sessions, sweeper, handlers, late>>
  BY DEF Signalled
<1>2. shutdowns' \in [Signals -> Shutdown]
  BY <1>0, <1>1 DEF TypeOK, Shutdown, Leaving
<1>3. TypeOK'
  BY <1>0, <1>1, <1>2 DEF TypeOK
<1>4. SweeperInv'
  BY <1>0, <1>1 DEF SweeperInv
<1>5. ASSUME NEW r \in Signals, goodbyes.shutdown, shutdowns'[r].begun
      PROVE  DOMAIN sessions \subseteq late \cup shutdowns'[r].leaving
  <2>1. CASE r = s
    BY <1>0, <1>1, <1>5, <2>1 DEF TypeOK, Leaving
  <2>2. CASE r # s
    BY <1>0, <1>1, <1>5, <2>2 DEF TypeOK, ShutdownInv
  <2> QED BY <2>1, <2>2
<1>6. ShutdownInv'
  BY <1>1, <1>5 DEF ShutdownInv
<1> QED BY <1>1, <1>3, <1>4, <1>6 DEF BrokerInv, GoodbyeToAll

LEMMA ShutdownGoodbyeKeeps ==
  ASSUME BrokerInv, NEW s \in Signals, NEW t \in Threads, ShutdownGoodbye(s, t)
  PROVE  BrokerInv'
<1>0. TypeOK /\ SweeperInv /\ ShutdownInv
  BY DEF BrokerInv
<1>1. /\ broker = "stopping" /\ broker' = "stopping"
      /\ DOMAIN sessions' = DOMAIN sessions \ {t}
      /\ \A u \in DOMAIN sessions' : sessions'[u] = sessions[u]
      /\ UNCHANGED <<goodbyes, handlers, late>>
  BY DEF ShutdownGoodbye, Without
<1>2. /\ sweeper' \in Sweeper /\ sweeper'.due = sweeper.due /\ sweeper'.at = sweeper.at
      /\ sweeper'.removed = sweeper.removed \cup ({t} \cap sweeper.due)
  BY <1>0 DEF ShutdownGoodbye, TypeOK, Sweeper
<1>3. /\ shutdowns' \in [Signals -> Shutdown]
      /\ \A r \in Signals : shutdowns'[r].begun = shutdowns[r].begun
      /\ \A r \in Signals : shutdowns[r].leaving \subseteq shutdowns'[r].leaving \cup {t}
  BY <1>0 DEF ShutdownGoodbye, TypeOK, Shutdown
<1>4. TypeOK'
  BY <1>0, <1>1, <1>2, <1>3 DEF TypeOK
<1>5. SweeperInv'
  BY <1>0, <1>1, <1>2 DEF SweeperInv
<1>6. ShutdownInv'
  BY <1>0, <1>1, <1>3 DEF ShutdownInv
<1> QED BY <1>1, <1>4, <1>5, <1>6 DEF BrokerInv, GoodbyeToAll

\* The task that finishes has said goodbye to all that its copy held.
LEMMA ExitKeeps ==
  ASSUME BrokerInv, NEW s \in Signals, Exit(s)
  PROVE  BrokerInv'
<1>0. TypeOK /\ SweeperInv /\ ShutdownInv
  BY DEF BrokerInv
<1>1. /\ broker' = "gone" /\ shutdowns[s].begun /\ shutdowns[s].leaving = {}
      /\ UNCHANGED <<goodbyes, sessions, sweeper, shutdowns, handlers, late>>
  BY DEF Exit
<1>2. TypeOK'
  BY <1>0, <1>1 DEF TypeOK
<1>3. SweeperInv' /\ ShutdownInv'
  BY <1>0, <1>1 DEF SweeperInv, ShutdownInv
<1>4. GoodbyeToAll'
  BY <1>0, <1>1 DEF GoodbyeToAll, ShutdownInv
<1> QED BY <1>2, <1>3, <1>4 DEF BrokerInv

LEMMA NextKeeps == BrokerInv /\ [Next]_vars => BrokerInv'
<1> SUFFICES ASSUME BrokerInv, [Next]_vars PROVE BrokerInv'
  OBVIOUS
<1>1. CASE \/ \E h \in Handlers, t \in Threads : Receive(h, t)
           \/ \E h \in Handlers : GraphReturns(h) \/ GraphRaises(h)
  BY <1>1, HandlerKeeps
<1>2. CASE \E t \in Threads : TimePasses(t)
  BY <1>2, TimePassesKeeps
<1>3. CASE SweeperStep
  BY <1>3, SweepKeeps, GoodbyePostedKeeps, GoodbyeFailsKeeps DEF SweeperStep
<1>4. CASE \E s \in Signals : Signalled(s) \/ ShutdownStep(s)
  BY <1>4, SignalledKeeps, ShutdownGoodbyeKeeps, ExitKeeps DEF ShutdownStep
<1>5. CASE UNCHANGED vars
  BY <1>5 DEF vars, BrokerInv, TypeOK, GoodbyeToAll, SweeperInv, ShutdownInv, Idle
<1>6. CASE Gone
  BY <1>5, <1>6 DEF Gone
<1> QED BY <1>1, <1>2, <1>3, <1>4, <1>5, <1>6 DEF Next

LEMMA BrokerInvAlways == Spec => []BrokerInv
BY InitKeeps, NextKeeps, PTL DEF Spec

-----------------------------------------------------------------------------
(* Theorems *)

\* The shape of the state, and a goodbye for each conversation that a shutdown
\* found, however many shutdowns run at a time (broker_app.py shutdown in main).
THEOREM SessionsInvariantAlways == Spec => []SessionsInvariant
<1>1. BrokerInv => SessionsInvariant
  BY DEF BrokerInv, SessionsInvariant
<1> QED BY <1>1, BrokerInvAlways, PTL

InUseStep ==
    \A t \in DOMAIN sessions :
        broker = "ready" /\ sessions[t] = "active"
        => /\ t \in DOMAIN sessions' \/ sweeper.at = t
           /\ sweeper'.at = t => sweeper.at = t

\* A pass deletes, and says goodbye to, only what is on its list.
LEMMA ExpireSparesInUse ==
  ASSUME TypeOK, NEW due, NEW remaining, Expire(due, remaining),
         NEW t \in DOMAIN sessions, t \notin due
  PROVE  /\ t \in DOMAIN remaining => t \in DOMAIN sessions'
         /\ sweeper'.at # t
<1>1. t # NoThread
  BY BrokerAssumption DEF TypeOK
<1>2. CASE /\ sessions' = [u \in DOMAIN remaining \ due |-> remaining[u]]
           /\ sweeper' = AtRest
  <2>1. DOMAIN sessions' = DOMAIN remaining \ due
    BY <1>2
  <2> QED BY <1>1, <1>2, <2>1, AtRestFacts
<1>3. ASSUME sessions' = remaining, NEW u \in due, sweeper'.at = u
      PROVE  /\ t \in DOMAIN remaining => t \in DOMAIN sessions'
             /\ sweeper'.at # t
  BY <1>3
<1> QED BY <1>2, <1>3, ExpireLeads

LEMMA NextSparesInUse == BrokerInv /\ [Next]_vars => [InUseStep]_vars
<1> SUFFICES ASSUME BrokerInv, Next,
                    NEW t \in DOMAIN sessions, broker = "ready", sessions[t] = "active"
             PROVE  /\ t \in DOMAIN sessions' \/ sweeper.at = t
                    /\ sweeper'.at = t => sweeper.at = t
  BY DEF InUseStep
<1>0. TypeOK /\ sweeper \in Sweeper /\ t \notin Idle /\ t \notin sweeper.due
  BY DEF BrokerInv, TypeOK, SweeperInv, Idle
<1>1. ASSUME NEW u, Used(u) PROVE t \in DOMAIN sessions' /\ sweeper'.at = sweeper.at
  BY <1>0, <1>1 DEF Used, Sweeper
<1>2. CASE \/ \E h \in Handlers, u \in Threads : Receive(h, u)
           \/ \E h \in Handlers : GraphReturns(h) \/ GraphRaises(h)
  BY <1>1, <1>2 DEF Receive, GraphReturns, GraphRaises
<1>3. CASE \E u \in Threads : TimePasses(u)
  BY <1>3 DEF TimePasses
<1>4. CASE Sweep
  BY <1>0, <1>4, ExpireSparesInUse DEF Sweep
<1>5. CASE GoodbyePosted
  BY <1>0, <1>5, ExpireSparesInUse DEF GoodbyePosted, Without
<1>6. CASE GoodbyeFails
  BY <1>0, <1>6, BrokerAssumption DEF GoodbyeFails, AtRest, TypeOK
<1>7. CASE \E s \in Signals : Signalled(s)
  BY <1>7 DEF Signalled
<1>8. CASE \/ \E s \in Signals : ShutdownStep(s)
           \/ Gone
  BY <1>8 DEF ShutdownStep, ShutdownGoodbye, Exit, Gone
<1> QED BY <1>2, <1>3, <1>4, <1>5, <1>6, <1>7, <1>8 DEF Next, SweeperStep

\* The sweeper leaves alone the threads in use, although it listed its sessions
\* several goodbyes ago (sweeper.py run, broker_app.py on_expire).
THEOREM InUseNotExpiredAlways == Spec => InUseNotExpired
<1>1. BrokerInv /\ [Next]_vars => [InUseStep]_vars
  BY NextSparesInUse
<1>2. [InUseStep]_vars
        <=> [\A t \in DOMAIN sessions :
                broker = "ready" /\ sessions[t] = "active"
                => /\ t \in DOMAIN sessions' \/ sweeper.at = t
                   /\ sweeper'.at = t => sweeper.at = t]_vars
  BY DEF InUseStep
<1> QED BY <1>1, <1>2, BrokerInvAlways, PTL DEF Spec, InUseNotExpired

-----------------------------------------------------------------------------
(* BrokerConversation: the tools in the cache can be called *)

\* Somebody is about to open a session and will take its id.
Opening == \E t \in Tasks : task[t].at = "initialize" /\ task[t].sent # "begun"

\* Inductive: since the last undisturbed discovery began, the client has the id of
\* some session or gets that of one that is opened.  Discoveries take the id from
\* each other only by resetting it before they open a session of their own.
SessionAhead ==
    ~disturbed /\ (cachedTools # {} \/ \E t \in Tasks : Discovers(t))
        => Knows(mcpSession) \/ mcpSession = Uninitialised \/ Opening

\* A discovery begins where nothing has been sent.
NothingSentYet ==
    \A t \in Tasks : task[t].at \in {"backoff", "planning"} => task[t].sent = "no"

SessionsWereOpened == serverSessions.known \subseteq 1 .. serverSessions.opened

\* The tools a message goes on with are still cached.
ToolsFromCache ==
    \A t \in Tasks :
        /\ task[t].at = "llm" => task[t].tools \subseteq cachedTools
        /\ task[t].at = "call" => cachedTools # {}

\* Until main is through with its discovery nobody else does anything.
MainFirst ==
    task[Main].at # "done" => cachedTools = {} /\ \A m \in Messages : task[m].at = "idle"

\* What `overlapped` is about: one discovery at a time, and that while no tools are
\* cached, so that no call can fall into it.
OneDiscovers ==
    ~overlapped =>
        \A t \in Tasks : Discovers(t) =>
            cachedTools = {} /\ \A u \in Tasks \ {t} : ~Discovers(u)

\* Then every request after initialize leaves with a session that the provider
\* knows, and none of them can be refused.
KnownAlone ==
    ~overlapped /\ ~disturbed =>
        /\ \A t \in Tasks :
              /\ (task[t].at = "initialize" /\ task[t].sent = "begun") \/ task[t].at = "list"
                    => Knows(mcpSession)
              /\ task[t].at \in {"list", "call"} /\ task[t].sent = "yes"
                    => Knows(task[t].header)
        /\ cachedTools # {} => Knows(mcpSession)

ConversationInv ==
    /\ ConversationTypeOK
    /\ SessionAhead
    /\ NothingSentYet
    /\ SessionsWereOpened
    /\ ToolsFromCache
    /\ MainFirst
    /\ OneDiscovers
    /\ KnownAlone

\* What a task may become.
Becoming(t, new) ==
    /\ task' = [task EXCEPT ![t] = new]
    /\ new \in Task
    /\ (t # Main /\ new.at = "done") <=> new.reply # "none"
    /\ new.at \in {"backoff", "planning"} => new.sent = "no"

\* Who may take a step.
Goes(t) == IF t = Main THEN task[Main].at # "done" ELSE task[Main].at = "done"

\* What a task becomes in a step that neither begins a discovery nor opens a session.
GoingOn(t, new) ==
    /\ Becoming(t, new)
    /\ Goes(t)
    /\ new.at \in {"initialize", "list"} => Discovers(t)
    /\ new.at = "llm" => new.tools \subseteq cachedTools'
    /\ new.at = "call" => cachedTools # {}
    /\ ~disturbed' /\ ~overlapped =>
          /\ (new.at = "initialize" /\ new.sent = "begun") \/ new.at = "list"
                => Knows(mcpSession)
          /\ new.at \in {"list", "call"} /\ new.sent = "yes" => Knows(new.header)

\* What it does to the rest.
RestGoesOn(t, new) ==
    /\ task[t].at = "initialize" /\ task[t].sent # "begun"
          => (new.at = "initialize" /\ new.sent # "begun") \/ disturbed'
    /\ \/ cachedTools' = cachedTools
       \/ /\ task[t].at = "list"
          /\ cachedTools' = Tools
          /\ new.at = IF t = Main THEN "done" ELSE "llm"
    /\ mcpSession' \in {mcpSession, Uninitialised}
    /\ ~disturbed' /\ ~overlapped => mcpSession' = mcpSession
    /\ disturbed' \in BOOLEAN
    /\ disturbed => disturbed'
    /\ attempts' \in 0 .. MaxAttempts
    /\ UNCHANGED <<environment, overlapped>>

LEMMA BecomingTyped ==
  ASSUME ConversationTypeOK, NothingSentYet, NEW t \in Tasks, NEW new, Becoming(t, new)
  PROVE  /\ task' \in [Tasks -> Task]
         /\ \A u \in Tasks : (u # Main /\ task'[u].at = "done") <=> task'[u].reply # "none"
         /\ NothingSentYet'
         /\ task'[t] = new
         /\ \A u \in Tasks \ {t} : task'[u] = task[u]
<1>1. task \in [Tasks -> Task]
  BY DEF ConversationTypeOK
<1>2. task'[t] = new /\ \A u \in Tasks \ {t} : task'[u] = task[u]
  BY <1>1 DEF Becoming
<1>3. task' \in [Tasks -> Task]
  BY <1>1 DEF Becoming
<1> QED BY <1>2, <1>3 DEF ConversationTypeOK, NothingSentYet, Becoming

\* Only Main, or a message after it, and then Main stays where it is.
LEMMA MainStaysFirst ==
  ASSUME MainFirst, NEW t \in Tasks, NEW new, Goes(t),
         task'[t] = new, \A u \in Tasks \ {t} : task'[u] = task[u],
         \/ cachedTools' = cachedTools
         \/ t = Main /\ new.at = "done"
         \/ t # Main
  PROVE  MainFirst'
<1>1. Main \in Tasks /\ \A m \in Messages : m \in Tasks /\ m # Main
  BY ConversationAssumption DEF Tasks
<1>2. CASE t = Main
  BY <1>1, <1>2 DEF MainFirst, Goes
<1>3. CASE t # Main
  BY <1>1, <1>3 DEF MainFirst, Goes
<1> QED BY <1>2, <1>3

LEMMA OtherStep ==
  ASSUME ConversationInv, NEW t \in Tasks, NEW new, GoingOn(t, new), RestGoesOn(t, new)
  PROVE  ConversationInv'
<1>1. /\ task' \in [Tasks -> Task] /\ NothingSentYet'
      /\ \A u \in Tasks : (u # Main /\ task'[u].at = "done") <=> task'[u].reply # "none"
      /\ task'[t] = new /\ \A u \in Tasks \ {t} : task'[u] = task[u]
  BY BecomingTyped DEF ConversationInv, GoingOn
<1>2. SessionsWereOpened' /\ serverSessions' = serverSessions
  BY DEF ConversationInv, SessionsWereOpened, RestGoesOn, environment
<1>3. mcpSession' \in {Uninitialised} \cup 0 .. serverSessions'.opened
  BY <1>2 DEF ConversationInv, ConversationTypeOK, RestGoesOn
<1>4. /\ cachedTools' \subseteq Tools /\ cachedTools \subseteq cachedTools'
      /\ cachedTools' # cachedTools => Discovers(t) /\ ~Discovers(t)'
    BY <1>1 DEF ConversationInv, ConversationTypeOK, RestGoesOn, Discovers
<1>5. ConversationTypeOK'
  BY <1>1, <1>3, <1>4 DEF ConversationInv, ConversationTypeOK, RestGoesOn, environment
<1>6. \A u \in Tasks : Discovers(u)' => Discovers(u)
  BY <1>1 DEF Discovers, GoingOn
<1>7. SessionAhead'
  <2> SUFFICES ASSUME ~disturbed', cachedTools' # {} \/ \E u \in Tasks : Discovers(u)'
               PROVE  (Knows(mcpSession) \/ mcpSession = Uninitialised \/ Opening)'
    BY DEF SessionAhead
  <2>1. ~disturbed /\ (cachedTools # {} \/ \E u \in Tasks : Discovers(u))
    BY <1>4, <1>6 DEF RestGoesOn
  <2>2. Knows(mcpSession) \/ mcpSession = Uninitialised \/ Opening
    BY <2>1 DEF ConversationInv, SessionAhead
  <2>3. Opening => Opening'
    BY <1>1 DEF Opening, RestGoesOn
  <2> QED BY <1>2, <2>2, <2>3 DEF Knows, RestGoesOn
<1>8. ToolsFromCache'
  BY <1>1, <1>4 DEF ToolsFromCache, ConversationInv, GoingOn
<1>9. MainFirst'
  BY <1>1, MainStaysFirst DEF ConversationInv, GoingOn, RestGoesOn
<1>10. OneDiscovers'
  <2> SUFFICES ASSUME ~overlapped', NEW u \in Tasks, Discovers(u)'
               PROVE  cachedTools' = {} /\ \A w \in Tasks \ {u} : ~Discovers(w)'
    BY DEF OneDiscovers
  <2>1. cachedTools = {} /\ \A w \in Tasks \ {u} : ~Discovers(w)
    BY <1>6 DEF ConversationInv, OneDiscovers, RestGoesOn
  <2> QED BY <1>4, <1>6, <2>1
<1>11. KnownAlone'
  <2> SUFFICES ASSUME ~overlapped', ~disturbed'
               PROVE  /\ \A u \in Tasks :
                            /\ (task'[u].at = "initialize" /\ task'[u].sent = "begun")
                                  \/ task'[u].at = "list" => Knows(mcpSession)
                            /\ task'[u].at \in {"list", "call"} /\ task'[u].sent = "yes"
                                  => Knows(task'[u].header)
                      /\ cachedTools' # {} => Knows(mcpSession)
    <3>1. ~overlapped' /\ ~disturbed' => mcpSession' = mcpSession
      BY DEF RestGoesOn
    <3> QED BY <1>2, <3>1 DEF KnownAlone, Knows
  <2>1. ~overlapped /\ ~disturbed
    BY DEF RestGoesOn
  <2>2. ASSUME NEW u \in Tasks
        PROVE  /\ (task'[u].at = "initialize" /\ task'[u].sent = "begun")
                     \/ task'[u].at = "list" => Knows(mcpSession)
               /\ task'[u].at \in {"list", "call"} /\ task'[u].sent = "yes"
                     => Knows(task'[u].header)
    BY <1>1, <2>1 DEF ConversationInv, KnownAlone, GoingOn
  <2>3. cachedTools' # {} => Knows(mcpSession)
    BY <2>1 DEF RestGoesOn, ConversationInv, KnownAlone
  <2> QED BY <2>2, <2>3
<1> QED BY <1>1, <1>2, <1>5, <1>7, <1>8, <1>9, <1>10, <1>11 DEF ConversationInv

-----------------------------------------------------------------------------
(* BrokerConversation: what the tasks do *)

LEMMA RestTyped ==
  /\ Rest \in Task
  /\ \A at \in {"backoff", "done", "planning"} : [Rest EXCEPT !.at = at] \in Task
  /\ \A reply \in {"offline", "error", "confirm?", "text", "result"} :
        [Rest EXCEPT !.at = "done", !.reply = reply] \in Task
  /\ \A tools \in SUBSET Tools : [Rest EXCEPT !.at = "llm", !.tools = tools] \in Task
  /\ \A plan \in Plans : [Rest EXCEPT !.at = "call", !.plan = plan] \in Task
<1>1. Rest \in Task
  <2>1. NoPlan \in Plans
    BY DEF NoPlan, Plans, MaybeTool
  <2>2. 1 \in Versions /\ NoSession \in SessionIds
    BY ConversationAssumption DEF Versions, NoSession, SessionIds
  <2> QED BY <2>1, <2>2 DEF Rest, Task
<1> QED BY <1>1 DEF Task

LEMMA Resting ==
  ASSUME ConversationTypeOK, NEW t \in Tasks
  PROVE  /\ task' = [task EXCEPT ![t] = [Rest EXCEPT !.at = "planning"]]
               => Becoming(t, [Rest EXCEPT !.at = "planning"])
         /\ task' = [task EXCEPT ![t] = [Rest EXCEPT !.at = "backoff"]]
               => Becoming(t, [Rest EXCEPT !.at = "backoff"])
         /\ t = Main /\ task' = [task EXCEPT ![t] = [Rest EXCEPT !.at = "done"]]
               => Becoming(t, [Rest EXCEPT !.at = "done"])
         /\ \A reply \in {"offline", "error", "confirm?", "text", "result"} :
               t # Main /\ Replies(t, reply)
                  => Becoming(t, [Rest EXCEPT !.at = "done", !.reply = reply])
         /\ \A tools \in SUBSET Tools :
               PlansWith(t, tools) => Becoming(t, [Rest EXCEPT !.at = "llm", !.tools = tools])
BY RestTyped DEF Becoming, Replies, PlansWith, Rest

\* A discovery that fails leaves a task that neither discovers nor has sent anything.
LEMMA FailedDiscovery ==
  ASSUME ConversationTypeOK, NEW t \in Tasks, NEW unreachable, DiscoveryFails(t, unreachable)
  PROVE  \E new : /\ Becoming(t, new) /\ new.at \in {"backoff", "done", "llm"}
                  /\ new.at = "llm" => new.tools = cachedTools
<1>1. CASE t = Main /\ task' = [task EXCEPT ![t] = [Rest EXCEPT !.at = "backoff"]]
  <2>1. Becoming(t, [Rest EXCEPT !.at = "backoff"])
    BY <1>1, Resting
  <2>2. [Rest EXCEPT !.at = "backoff"].at = "backoff"
    BY DEF Rest
  <2> QED BY <2>1, <2>2
<1>2. CASE t # Main /\ Replies(t, "offline")
  <2>1. Becoming(t, [Rest EXCEPT !.at = "done", !.reply = "offline"])
    BY <1>2, Resting
  <2>2. [Rest EXCEPT !.at = "done", !.reply = "offline"].at = "done"
    BY DEF Rest
  <2> QED BY <2>1, <2>2
<1>3. CASE t # Main /\ PlansWith(t, cachedTools)
  <2>1. Becoming(t, [Rest EXCEPT !.at = "llm", !.tools = cachedTools])
    BY <1>3, Resting DEF ConversationTypeOK
  <2>2. LET new == [Rest EXCEPT !.at = "llm", !.tools = cachedTools]
        IN  new.at = "llm" /\ new.tools = cachedTools
    BY DEF Rest
  <2> QED BY <2>1, <2>2
<1> QED BY <1>1, <1>2, <1>3 DEF DiscoveryFails

LEMMA ToolsOfPlans ==
  ASSUME NEW tools \in SUBSET Tools, NEW text
  PROVE  RuleFirstPlan(text, tools) \in Plans
<1>1. \A chosen \in SUBSET tools : OneOf(chosen) \in MaybeTool
  BY DEF OneOf, MaybeTool
<1>2. \A word : OneOf(Fitting(tools, word)) \in MaybeTool
  BY <1>1 DEF Fitting
<1>3. \A tool \in MaybeTool, confirm \in BOOLEAN : [tool |-> tool, confirm |-> confirm] \in Plans
  BY DEF Plans
<1>4. NoPlan \in Plans
  BY DEF NoPlan, Plans, MaybeTool
<1>5. text.says = "name" /\ text.tool \in tools => text.tool \in MaybeTool
  BY DEF MaybeTool
<1> QED BY <1>2, <1>3, <1>4, <1>5 DEF RuleFirstPlan

LEMMA PossiblePlansTyped ==
  ASSUME NEW m, task[m].tools \in SUBSET Tools, NEW text, NEW plan \in PossiblePlans(m, text)
  PROVE  plan \in Plans
<1> DEFINE tools == task[m].tools
<1>1. RuleFirstPlan(text, tools) \in Plans
  BY ToolsOfPlans
<1>2. \A completion \in Plans : SanitizedPlan(completion, tools) \in Plans
  BY DEF SanitizedPlan, Plans, MaybeTool
<1>3. CASE planner = "rules"
  BY <1>1, <1>3 DEF PossiblePlans
<1>4. CASE planner # "rules"
  <2>1. PICK completion \in Completions :
           plan = IF completion = NoCompletion THEN RuleFirstPlan(text, tools)
                  ELSE SanitizedPlan(completion, tools)
    BY <1>4 DEF PossiblePlans
  <2>2. CASE completion = NoCompletion
    BY <1>1, <2>1, <2>2
  <2>3. CASE completion # NoCompletion
    BY <1>2, <2>1, <2>3 DEF Completions
  <2> QED BY <2>2, <2>3
<1> QED BY <1>3, <1>4

\* Without tools no planner plans a call.
LEMMA NoToolsNoCall ==
  ASSUME NEW m, task[m].tools = {}, NEW text, NEW plan \in PossiblePlans(m, text)
  PROVE  plan.tool = NoTool
<1> DEFINE tools == task[m].tools
<1>1. \A word : OneOf(Fitting(tools, word)) = NoTool
  BY DEF OneOf, Fitting
<1>2. NoPlan.tool = NoTool
  BY DEF NoPlan
<1>3. RuleFirstPlan(text, tools).tool = NoTool
  BY <1>1, <1>2 DEF RuleFirstPlan, Fitting
<1>4. \A completion \in Plans : SanitizedPlan(completion, tools).tool = NoTool
  BY DEF SanitizedPlan, Plans
<1>5. CASE planner = "rules"
  BY <1>3, <1>5 DEF PossiblePlans
<1>6. CASE planner # "rules"
  <2>1. PICK completion \in Completions :
           plan = IF completion = NoCompletion THEN RuleFirstPlan(text, tools)
                  ELSE SanitizedPlan(completion, tools)
    BY <1>6 DEF PossiblePlans
  <2>2. completion \in Plans \/ completion = NoCompletion
    BY DEF Completions
  <2> QED BY <1>3, <1>4, <2>1, <2>2
<1> QED BY <1>5, <1>6

\* The parts of its record that a task changes during a discovery or a call.
LEMMA RecordsChange ==
  ASSUME NEW old \in Task
  PROVE  /\ LET new == [old EXCEPT !.at = "initialize", !.version = 1]
            IN  new \in Task /\ new.at = "initialize" /\ new.sent = old.sent
                  /\ new.reply = old.reply
         /\ \A header \in SessionIds :
               LET new == [old EXCEPT !.sent = "yes", !.header = header]
               IN  /\ new \in Task /\ new.at = old.at /\ new.sent = "yes"
                   /\ new.header = header /\ new.reply = old.reply
         /\ \A sent \in {"begun", "refused"} :
               LET new == [old EXCEPT !.sent = sent]
               IN  new \in Task /\ new.at = old.at /\ new.sent = sent /\ new.reply = old.reply
         /\ LET new == [old EXCEPT !.at = "list", !.sent = "no"]
            IN  new \in Task /\ new.at = "list" /\ new.sent = "no" /\ new.reply = old.reply
         /\ LET new == [old EXCEPT !.version = 2, !.sent = "no"]
            IN  new \in Task /\ new.at = old.at /\ new.sent = "no" /\ new.reply = old.reply
<1>1. LET new == [old EXCEPT !.at = "initialize", !.version = 1]
      IN  new \in Task /\ new.at = "initialize" /\ new.sent = old.sent /\ new.reply = old.reply
  <2> DEFINE placed == [old EXCEPT !.at = "initialize"]
  <2>1. /\ placed \in Task /\ placed.at = "initialize" /\ placed.sent = old.sent
        /\ placed.reply = old.reply
    BY DEF Task
  <2> HIDE DEF placed
  <2>2. LET new == [placed EXCEPT !.version = 1]
        IN  /\ new \in Task /\ new.at = placed.at /\ new.sent = placed.sent
            /\ new.reply = placed.reply
    BY <2>1 DEF Task, Versions
  <2>3. [old EXCEPT !.at = "initialize", !.version = 1] = [placed EXCEPT !.version = 1]
    BY DEF placed
  <2> QED BY <2>1, <2>2, <2>3
<1>2. ASSUME NEW header \in SessionIds
      PROVE  LET new == [old EXCEPT !.sent = "yes", !.header = header]
             IN  /\ new \in Task /\ new.at = old.at /\ new.sent = "yes"
                 /\ new.header = header /\ new.reply = old.reply
  BY DEF Task
<1>3. ASSUME NEW sent \in {"begun", "refused"}
      PROVE  LET new == [old EXCEPT !.sent = sent]
             IN  new \in Task /\ new.at = old.at /\ new.sent = sent /\ new.reply = old.reply
  BY DEF Task
<1>4. LET new == [old EXCEPT !.at = "list", !.sent = "no"]
      IN  new \in Task /\ new.at = "list" /\ new.sent = "no" /\ new.reply = old.reply
  BY DEF Task
<1>5. LET new == [old EXCEPT !.version = 2, !.sent = "no"]
      IN  new \in Task /\ new.at = old.at /\ new.sent = "no" /\ new.reply = old.reply
  <2> DEFINE unsent == [old EXCEPT !.sent = "no"]
  <2>1. /\ unsent \in Task /\ unsent.at = old.at /\ unsent.sent = "no"
        /\ unsent.reply = old.reply
    BY DEF Task
  <2> HIDE DEF unsent
  <2>2. LET new == [unsent EXCEPT !.version = 2]
        IN  /\ new \in Task /\ new.at = unsent.at /\ new.sent = unsent.sent
            /\ new.reply = unsent.reply
    BY <2>1 DEF Task, Versions
  <2>3. [old EXCEPT !.version = 2, !.sent = "no"] = [unsent EXCEPT !.version = 2]
    BY DEF unsent, Task
  <2> QED BY <2>1, <2>2, <2>3
<1> QED BY <1>1, <1>2, <1>3, <1>4, <1>5

LEMMA BeginDiscoveryKeeps ==
  ASSUME ConversationInv, NEW t \in Tasks, task[t].at \in {"backoff", "planning"},
         cachedTools = {}, Goes(t),
         BeginDiscovery(t), attempts' \in 0 .. MaxAttempts,
         UNCHANGED <<environment, cachedTools>>
  PROVE  ConversationInv'
<1> DEFINE new == [task[t] EXCEPT !.at = "initialize", !.version = 1]
<1>1. task \in [Tasks -> Task] /\ task[t] \in Task
  BY DEF ConversationInv, ConversationTypeOK
<1>2. task[t].sent = "no" /\ task[t].reply = "none"
  BY DEF ConversationInv, ConversationTypeOK, NothingSentYet
<1>3. new \in Task /\ new.at = "initialize" /\ new.sent = "no" /\ new.reply = "none"
  BY <1>1, <1>2, RecordsChange
<1>4. task' = [task EXCEPT ![t] = new]
  BY <1>1 DEF BeginDiscovery
<1> HIDE DEF new
<1>5. Becoming(t, new)
  BY <1>3, <1>4 DEF Becoming
<1>6. /\ task' \in [Tasks -> Task] /\ NothingSentYet'
      /\ task'[t] = new /\ \A u \in Tasks \ {t} : task'[u] = task[u]
      /\ \A u \in Tasks : (u # Main /\ task'[u].at = "done") <=> task'[u].reply # "none"
  BY <1>5, BecomingTyped DEF ConversationInv
<1>7. mcpSession' = 0 /\ disturbed' \in BOOLEAN /\ overlapped' \in BOOLEAN
  BY DEF BeginDiscovery, NoSession, ConversationInv, ConversationTypeOK
<1>8. SessionsWereOpened'
  BY DEF ConversationInv, SessionsWereOpened, environment
<1>9. ConversationTypeOK'
  BY <1>6, <1>7 DEF ConversationInv, ConversationTypeOK, environment
<1>10. SessionAhead'
  BY <1>3, <1>6 DEF SessionAhead, Opening
<1>11. ToolsFromCache'
  BY <1>3, <1>6 DEF ToolsFromCache, ConversationInv
<1>12. MainFirst'
  BY <1>6, MainStaysFirst DEF ConversationInv
<1>13. ~overlapped' => \A u \in Tasks \ {t} : ~Discovers(u) /\ ~Discovers(u)'
  BY <1>6 DEF BeginDiscovery, Discovers
<1>14. OneDiscovers'
  BY <1>13 DEF OneDiscovers
<1>15. KnownAlone'
  <2>1. \A u \in Tasks : ~overlapped' =>
           /\ ~(task'[u].at = "initialize" /\ task'[u].sent = "begun")
           /\ task'[u].at \notin {"list", "call"}
    BY <1>3, <1>6, <1>13 DEF ToolsFromCache, ConversationInv, Discovers
  <2> QED BY <2>1 DEF KnownAlone
<1> QED BY <1>6, <1>8, <1>9, <1>10, <1>11, <1>12, <1>14, <1>15 DEF ConversationInv

\* A task that is not done has not replied.
LEMMA NotYetReplied ==
  ASSUME ConversationTypeOK, NEW t \in Tasks, task[t].at # "done"
  PROVE  /\ task \in [Tasks -> Task] /\ task[t] \in Task
         /\ task[t].reply = "none"
         /\ mcpSession \in SessionIds
<1>1. task \in [Tasks -> Task] /\ task[t] \in Task /\ task[t].reply = "none"
  BY DEF ConversationTypeOK
<1>2. /\ serverSessions.opened \in 0 .. MaxSessions
      /\ mcpSession = Uninitialised \/ mcpSession \in 0 .. serverSessions.opened
  BY DEF ConversationTypeOK
<1>3. mcpSession \in 0 .. MaxSessions \/ mcpSession = Uninitialised
  BY <1>2, ConversationAssumption
<1> QED BY <1>1, <1>3 DEF SessionIds

\* A task that is under way is Main, or a message after it.
LEMMA UnderWay ==
  ASSUME MainFirst, NEW t \in Tasks, task[t].at \notin {"idle", "done"}
  PROVE  Goes(t)
BY DEF MainFirst, Goes, Tasks

\* What is typed in any case.
LEMMA TypedHistory ==
  ASSUME ConversationInv
  PROVE  disturbed \in BOOLEAN /\ attempts \in 0 .. MaxAttempts
BY DEF ConversationInv, ConversationTypeOK

-----------------------------------------------------------------------------
(* BrokerConversation: every step keeps the invariant *)

LEMMA SendRequestKeeps ==
  ASSUME ConversationInv, NEW t \in Tasks, SendRequest(t)
  PROVE  ConversationInv'
<1> DEFINE header == IF task[t].at = "initialize" THEN NoSession ELSE mcpSession
           new    == [task[t] EXCEPT !.sent = "yes", !.header = header]
<1>1. /\ task \in [Tasks -> Task] /\ task[t] \in Task /\ task[t].reply = "none"
      /\ mcpSession \in SessionIds
  BY NotYetReplied DEF SendRequest, ConversationInv
<1>2. header \in SessionIds
  BY <1>1, ConversationAssumption DEF NoSession, SessionIds
<1>3. task' = [task EXCEPT ![t] = new]
  BY <1>1 DEF SendRequest
<1>4. task[t].at # "initialize" => header = mcpSession
  OBVIOUS
<1> HIDE DEF header
<1>5. /\ new \in Task /\ new.at = task[t].at /\ new.sent = "yes" /\ new.header = header
      /\ new.reply = "none"
  <2>1. \A any \in SessionIds :
           LET changed == [task[t] EXCEPT !.sent = "yes", !.header = any]
           IN  /\ changed \in Task /\ changed.at = task[t].at /\ changed.sent = "yes"
               /\ changed.header = any /\ changed.reply = task[t].reply
    BY <1>1, RecordsChange
  <2> QED BY <1>1, <1>2, <2>1
<1> HIDE DEF new
<1>6. Becoming(t, new)
  BY <1>3, <1>5 DEF Becoming, SendRequest
<1>7. Goes(t)
  BY UnderWay DEF SendRequest, ConversationInv
<1>8. /\ new.at \in {"initialize", "list"} => Discovers(t)
      /\ new.at = "call" => cachedTools # {}
      /\ new.at # "llm"
  BY <1>5 DEF Discovers, SendRequest, ConversationInv, ToolsFromCache
<1>9. ~disturbed /\ ~overlapped /\ new.at \in {"list", "call"} => Knows(mcpSession)
  BY <1>5, <1>8 DEF ConversationInv, KnownAlone
<1>10. GoingOn(t, new)
  BY <1>4, <1>5, <1>6, <1>7, <1>8, <1>9 DEF GoingOn, SendRequest, history
<1>11. RestGoesOn(t, new)
  BY <1>5, TypedHistory DEF RestGoesOn, SendRequest, history
<1> QED BY <1>10, <1>11, OtherStep

\* The server opens a session and the client has its id; or a session that the
\* server knows is the client's again.
LEMMA ResponseBeginsKeeps ==
  ASSUME ConversationInv, NEW t \in Tasks, ResponseBegins(t)
  PROVE  ConversationInv'
<1> DEFINE new == [task[t] EXCEPT !.sent = "begun"]
<1>1. task[t].at \in {"initialize", "list", "call"}
  BY DEF ResponseBegins
<1>2. task \in [Tasks -> Task] /\ task[t] \in Task /\ task[t].reply = "none"
  BY <1>1, NotYetReplied DEF ConversationInv
<1>3. task' = [task EXCEPT ![t] = new]
  BY <1>2 DEF ResponseBegins
<1>4. new \in Task /\ new.at = task[t].at /\ new.sent = "begun" /\ new.reply = "none"
  BY <1>2, RecordsChange
<1> HIDE DEF new
<1>5. Becoming(t, new)
  BY <1>1, <1>3, <1>4 DEF Becoming
<1>6. /\ task' \in [Tasks -> Task] /\ NothingSentYet'
      /\ task'[t] = new /\ \A u \in Tasks \ {t} : task'[u] = task[u]
      /\ \A u \in Tasks : (u # Main /\ task'[u].at = "done") <=> task'[u].reply # "none"
  BY <1>5, BecomingTyped DEF ConversationInv
<1>7. /\ SessionsWereOpened'
      /\ serverSessions' \in [known : SUBSET (1 .. MaxSessions), opened : 0 .. MaxSessions]
      /\ mcpSession' \in serverSessions'.known
      /\ serverSessions.known \subseteq serverSessions'.known
  <2>1. CASE task[t].at = "initialize"
    <3>1. OpensSession /\ mcpSession' = serverSessions'.opened
      BY <2>1 DEF ResponseBegins
    <3>2. /\ serverSessions.known \in SUBSET (1 .. serverSessions.opened)
          /\ serverSessions.opened \in 0 .. MaxSessions
      BY DEF ConversationInv, ConversationTypeOK, SessionsWereOpened
    <3>3. /\ serverSessions'.known = serverSessions.known \cup {serverSessions.opened + 1}
          /\ serverSessions'.opened = serverSessions.opened + 1
          /\ serverSessions' = [known |-> serverSessions'.known, opened |-> serverSessions'.opened]
          /\ serverSessions.opened < MaxSessions
      BY <3>1 DEF OpensSession
    <3>4. /\ serverSessions'.known \subseteq 1 .. serverSessions'.opened
          /\ serverSessions'.opened \in 0 .. MaxSessions
          /\ serverSessions'.known \subseteq 1 .. MaxSessions
      BY <3>2, <3>3, ConversationAssumption
    <3>5. serverSessions' \in [known : SUBSET (1 .. MaxSessions), opened : 0 .. MaxSessions]
      BY <3>3, <3>4
    <3> QED BY <3>1, <3>3, <3>4, <3>5 DEF SessionsWereOpened
  <2>2. CASE task[t].at \in {"list", "call"}
    BY <2>2 DEF ResponseBegins, Knows, ConversationInv, ConversationTypeOK, SessionsWereOpened
  <2> QED BY <1>1, <2>1, <2>2
<1>8. mcpSession' \in 0 .. serverSessions'.opened
  BY <1>7 DEF SessionsWereOpened
<1>9. UNCHANGED <<planner, provider, outages, cachedTools, attempts, disturbed, overlapped>>
  BY DEF ResponseBegins, history
<1>10. ConversationTypeOK'
  BY <1>6, <1>7, <1>8, <1>9 DEF ConversationInv, ConversationTypeOK
<1>11. SessionAhead'
  BY <1>7 DEF SessionAhead, Knows
<1>12. ToolsFromCache'
  BY <1>4, <1>6, <1>9 DEF ConversationInv, ToolsFromCache, ResponseBegins
<1>13. MainFirst'
  <2>1. Goes(t)
    BY <1>1, UnderWay DEF ConversationInv
  <2> QED BY <1>6, <1>9, <2>1, MainStaysFirst DEF ConversationInv
<1>14. OneDiscovers'
  <2>1. \A u \in Tasks : Discovers(u)' <=> Discovers(u)
    BY <1>4, <1>6 DEF Discovers
  <2> QED BY <1>9, <2>1 DEF ConversationInv, OneDiscovers
<1>15. KnownAlone'
  <2>1. mcpSession' \in serverSessions'.known
    BY <1>7
  <2>2. ASSUME ~overlapped, ~disturbed, NEW u \in Tasks, task'[u].at \in {"list", "call"},
               task'[u].sent = "yes"
        PROVE  task'[u].header \in serverSessions'.known
    <3>1. u # t
      BY <1>4, <1>6, <2>2
    <3>2. Knows(task[u].header) /\ task'[u] = task[u]
      BY <1>6, <2>2, <3>1 DEF ConversationInv, KnownAlone
    <3> QED BY <1>7, <3>2 DEF Knows
  <2> QED BY <1>9, <2>1, <2>2 DEF KnownAlone, Knows
<1> QED BY <1>6, <1>7, <1>10, <1>11, <1>12, <1>13, <1>14, <1>15 DEF ConversationInv

\* A refusal brings the id of a session that nobody has initialised, or none.  What
\* a single discovery or a call after it sends is not refused.
LEMMA RefusalBeginsKeeps ==
  ASSUME ConversationInv, NEW t \in Tasks, RefusalBegins(t)
  PROVE  ConversationInv'
<1> DEFINE new == [task[t] EXCEPT !.sent = "refused"]
<1>1. /\ task[t].sent = "yes" /\ task[t].at \in {"initialize", "list", "call"}
      /\ task[t].at = "initialize" \/ ~Knows(task[t].header)
      /\ mcpSession' \in {mcpSession, Uninitialised}
      /\ disturbed' = (disturbed \/ task[t].at = "initialize")
  BY DEF RefusalBegins, RefusalIds
<1>2. task \in [Tasks -> Task] /\ task[t] \in Task /\ task[t].reply = "none"
  BY <1>1, NotYetReplied DEF ConversationInv
<1>3. task' = [task EXCEPT ![t] = new]
  BY <1>2 DEF RefusalBegins
<1>4. new \in Task /\ new.at = task[t].at /\ new.sent = "refused" /\ new.reply = "none"
  BY <1>2, RecordsChange
<1> HIDE DEF new
<1>5. Becoming(t, new) /\ Goes(t)
  BY <1>1, <1>3, <1>4, UnderWay DEF Becoming, ConversationInv
<1>6. disturbed' \/ overlapped
  BY <1>1 DEF ConversationInv, KnownAlone
<1>7. GoingOn(t, new)
  BY <1>1, <1>4, <1>5, <1>6 DEF GoingOn, Discovers, ConversationInv, ToolsFromCache
<1>8. RestGoesOn(t, new)
  BY <1>1, <1>4, <1>6, TypedHistory DEF RestGoesOn, RefusalBegins
<1> QED BY <1>7, <1>8, OtherStep

LEMMA InitializeEndsKeeps ==
  ASSUME ConversationInv, NEW t \in Tasks, InitializeEnds(t)
  PROVE  ConversationInv'
<1> DEFINE new == [task[t] EXCEPT !.at = "list", !.sent = "no"]
<1>1. task \in [Tasks -> Task] /\ task[t] \in Task /\ task[t].reply = "none"
  BY NotYetReplied DEF InitializeEnds, ConversationInv
<1>2. task' = [task EXCEPT ![t] = new]
  BY <1>1 DEF InitializeEnds
<1>3. new \in Task /\ new.at = "list" /\ new.sent = "no" /\ new.reply = "none"
  BY <1>1, RecordsChange
<1> HIDE DEF new
<1>4. Becoming(t, new) /\ Goes(t)
  BY <1>2, <1>3, UnderWay DEF Becoming, InitializeEnds, ConversationInv
<1>5. Discovers(t) /\ task[t].at = "initialize" /\ task[t].sent = "begun"
  BY DEF InitializeEnds, Discovers
<1>6. ~disturbed /\ ~overlapped => Knows(mcpSession)
  BY <1>5 DEF ConversationInv, KnownAlone
<1>7. GoingOn(t, new)
  BY <1>3, <1>4, <1>5, <1>6 DEF GoingOn, InitializeEnds, history
<1>8. RestGoesOn(t, new)
  BY <1>3, <1>5, TypedHistory DEF RestGoesOn, InitializeEnds, history
<1> QED BY <1>7, <1>8, OtherStep

LEMMA InitializeFailsKeeps ==
  ASSUME ConversationInv, NEW t \in Tasks, InitializeFails(t)
  PROVE  ConversationInv'
<1>1. Discovers(t) /\ Goes(t)
  BY UnderWay DEF InitializeFails, Discovers, ConversationInv
<1>2. /\ UNCHANGED <<environment, cachedTools, mcpSession, attempts, overlapped>>
      /\ disturbed' = TRUE
  BY DEF InitializeFails
<1>3. ASSUME NEW new, Becoming(t, new), new.at \in {"initialize", "backoff", "done", "llm"},
             new.at = "llm" => new.tools = cachedTools
      PROVE  ConversationInv'
  <2>1. GoingOn(t, new)
    BY <1>1, <1>2, <1>3 DEF GoingOn
  <2>2. RestGoesOn(t, new)
    BY <1>2, TypedHistory DEF RestGoesOn
  <2> QED BY <2>1, <2>2, OtherStep
<1>4. CASE task[t].version = 1
  <2> DEFINE new == [task[t] EXCEPT !.version = 2, !.sent = "no"]
  <2>1. /\ task \in [Tasks -> Task] /\ task[t] \in Task /\ task[t].reply = "none"
        /\ task[t].at = "initialize"
    BY NotYetReplied DEF InitializeFails, ConversationInv
  <2>2. task' = [task EXCEPT ![t] = new]
    BY <1>4, <2>1 DEF InitializeFails
  <2>3. new \in Task /\ new.at = "initialize" /\ new.sent = "no" /\ new.reply = "none"
    BY <2>1, RecordsChange
  <2> HIDE DEF new
  <2>4. Becoming(t, new)
    BY <2>2, <2>3 DEF Becoming
  <2> QED BY <1>3, <2>3, <2>4
<1>5. CASE task[t].version # 1
  <2>1. PICK unreachable \in BOOLEAN : DiscoveryFails(t, unreachable)
    BY <1>5 DEF InitializeFails
  <2>2. PICK new : /\ Becoming(t, new) /\ new.at \in {"backoff", "done", "llm"}
                   /\ new.at = "llm" => new.tools = cachedTools
    BY <2>1, FailedDiscovery DEF ConversationInv
  <2> QED BY <1>3, <2>2
<1> QED BY <1>4, <1>5

LEMMA ListEndsKeeps ==
  ASSUME ConversationInv, NEW t \in Tasks, ListEnds(t)
  PROVE  ConversationInv'
<1>1. PICK new : /\ Becoming(t, new) /\ new.at = IF t = Main THEN "done" ELSE "llm"
                 /\ new.at = "llm" => new.tools = Tools
  <2>1. CASE t = Main
    <3>1. Becoming(t, [Rest EXCEPT !.at = "done"])
      BY <2>1, Resting DEF ListEnds, ToolsListed, ConversationInv
    <3>2. [Rest EXCEPT !.at = "done"].at = "done"
      BY DEF Rest
    <3> QED BY <2>1, <3>1, <3>2
  <2>2. CASE t # Main
    <3>1. Becoming(t, [Rest EXCEPT !.at = "llm", !.tools = Tools])
      BY <2>2, Resting DEF ListEnds, ToolsListed, ConversationInv
    <3>2. LET new == [Rest EXCEPT !.at = "llm", !.tools = Tools]
          IN  new.at = "llm" /\ new.tools = Tools
      BY DEF Rest
    <3> QED BY <2>2, <3>1, <3>2
  <2> QED BY <2>1, <2>2
<1>2. /\ Goes(t) /\ task[t].at = "list" /\ cachedTools' = Tools
      /\ UNCHANGED <<environment, mcpSession, attempts, disturbed, overlapped>>
  BY UnderWay DEF ListEnds, ToolsListed, history, ConversationInv
<1>3. GoingOn(t, new)
  BY <1>1, <1>2 DEF GoingOn
<1>4. RestGoesOn(t, new)
  BY <1>1, <1>2, TypedHistory DEF RestGoesOn
<1> QED BY <1>3, <1>4, OtherStep

\* A step that only changes what the task is doing, and is no part of a discovery.
LEMMA TaskStep ==
  ASSUME ConversationInv, NEW t \in Tasks, NEW new, Becoming(t, new), Goes(t),
         task[t].at # "initialize", new.at \notin {"initialize", "list"},
         new.at = "llm" => new.tools \subseteq cachedTools,
         new.at = "call" => cachedTools # {} /\ new.sent = "no",
         UNCHANGED <<environment, cachedTools, mcpSession, attempts, history>>
  PROVE  ConversationInv'
<1>1. GoingOn(t, new)
  BY DEF GoingOn
<1>2. RestGoesOn(t, new)
  BY TypedHistory DEF RestGoesOn, history
<1> QED BY <1>1, <1>2, OtherStep

LEMMA ListFailsKeeps ==
  ASSUME ConversationInv, NEW t \in Tasks, ListFails(t)
  PROVE  ConversationInv'
<1>1. PICK unreachable \in BOOLEAN : DiscoveryFails(t, unreachable)
  BY DEF ListFails
<1>2. PICK new : /\ Becoming(t, new) /\ new.at \in {"backoff", "done", "llm"}
                 /\ new.at = "llm" => new.tools = cachedTools
  BY <1>1, FailedDiscovery DEF ConversationInv
<1>3. Goes(t)
  BY UnderWay DEF ListFails, ConversationInv
<1> QED BY <1>2, <1>3, TaskStep DEF ListFails

\* A reply, the planning of a message, or the use of some tools.
LEMMA MessageStep ==
  ASSUME ConversationInv, NEW m \in Messages, task[m].at # "initialize", Goes(m),
         \/ task' = [task EXCEPT ![m] = [Rest EXCEPT !.at = "planning"]]
         \/ \E reply \in {"offline", "error", "confirm?", "text", "result"} : Replies(m, reply)
         \/ PlansWith(m, cachedTools)
         \/ /\ cachedTools # {}
            /\ \E plan \in Plans :
                  task' = [task EXCEPT ![m] = [Rest EXCEPT !.at = "call", !.plan = plan]],
         UNCHANGED <<environment, cachedTools, mcpSession, attempts, history>>
  PROVE  ConversationInv'
<1>1. m \in Tasks /\ m # Main
  BY ConversationAssumption DEF Tasks
<1>2. CASE task' = [task EXCEPT ![m] = [Rest EXCEPT !.at = "planning"]]
  <2>1. Becoming(m, [Rest EXCEPT !.at = "planning"])
    BY <1>1, <1>2, Resting DEF ConversationInv
  <2>2. [Rest EXCEPT !.at = "planning"].at = "planning"
    BY DEF Rest
  <2> QED BY <1>1, <2>1, <2>2, TaskStep
<1>3. ASSUME NEW reply \in {"offline", "error", "confirm?", "text", "result"}, Replies(m, reply)
      PROVE  ConversationInv'
  <2>1. Becoming(m, [Rest EXCEPT !.at = "done", !.reply = reply])
    BY <1>1, <1>3, Resting DEF ConversationInv
  <2>2. [Rest EXCEPT !.at = "done", !.reply = reply].at = "done"
    BY DEF Rest
  <2> QED BY <1>1, <2>1, <2>2, TaskStep
<1>4. CASE PlansWith(m, cachedTools)
  <2>1. Becoming(m, [Rest EXCEPT !.at = "llm", !.tools = cachedTools])
    BY <1>1, <1>4, Resting DEF ConversationInv, ConversationTypeOK
  <2>2. LET new == [Rest EXCEPT !.at = "llm", !.tools = cachedTools]
        IN  new.at = "llm" /\ new.tools = cachedTools
    BY DEF Rest
  <2> QED BY <1>1, <2>1, <2>2, TaskStep
<1>5. ASSUME NEW plan \in Plans, cachedTools # {},
             task' = [task EXCEPT ![m] = [Rest EXCEPT !.at = "call", !.plan = plan]]
      PROVE  ConversationInv'
  <2> DEFINE new == [Rest EXCEPT !.at = "call", !.plan = plan]
  <2>1. new \in Task
    BY RestTyped
  <2>2. new.at = "call" /\ new.sent = "no" /\ new.reply = "none"
    BY DEF Rest
  <2>3. task' = [task EXCEPT ![m] = new]
    BY <1>5
  <2> HIDE DEF new
  <2>4. Becoming(m, new)
    BY <2>1, <2>2, <2>3 DEF Becoming
  <2> QED BY <1>1, <1>5, <2>2, <2>4, TaskStep
<1> QED BY <1>2, <1>3, <1>4, <1>5

LEMMA MessagesKeep ==
  ASSUME ConversationInv, NEW m \in Messages,
         MessageArrives(m) \/ HandleCommand(m) \/ Handle(m)
  PROVE  ConversationInv'
<1> m \in Tasks /\ m # Main
  BY ConversationAssumption DEF Tasks
<1>1. Goes(m)
  <2>1. CASE MessageArrives(m) \/ HandleCommand(m)
    BY <2>1 DEF MessageArrives, HandleCommand, Listens, Goes
  <2>2. CASE Handle(m)
    BY <2>2, UnderWay DEF Handle, PlanAction, ExecuteOrSummarize, CallTool, ConversationInv
  <2> QED BY <2>1, <2>2
<1>2. CASE MessageArrives(m) \/ HandleCommand(m)
  BY <1>1, <1>2, MessageStep DEF MessageArrives, HandleCommand, Listens
<1>3. CASE PlanAction(m)
  <2>1. CASE cachedTools = {}
    <3>1. task[m].at \in {"backoff", "planning"} /\ BeginDiscovery(m)
      BY <1>3, <2>1 DEF PlanAction
    <3> QED BY <1>1, <1>3, <2>1, <3>1, TypedHistory, BeginDiscoveryKeeps DEF PlanAction
  <2>2. CASE cachedTools # {}
    <3>1. /\ PlansWith(m, cachedTools) /\ task[m].at # "initialize"
          /\ UNCHANGED <<environment, cachedTools, mcpSession, attempts, history>>
      BY <1>3, <2>2 DEF PlanAction, history
    <3> QED BY <1>1, <3>1, MessageStep
  <2> QED BY <2>1, <2>2
<1>4. CASE ExecuteOrSummarize(m)
  <2>1. PICK text \in Texts : \E plan \in PossiblePlans(m, text) :
           \/ Replies(m, "text")
           \/ Replies(m, "confirm?")
           \/ /\ plan.tool # NoTool
              /\ task' = [task EXCEPT ![m] = [Rest EXCEPT !.at = "call", !.plan = plan]]
    BY <1>4 DEF ExecuteOrSummarize
  <2>2. PICK plan \in PossiblePlans(m, text) :
           \/ Replies(m, "text")
           \/ Replies(m, "confirm?")
           \/ /\ plan.tool # NoTool
              /\ task' = [task EXCEPT ![m] = [Rest EXCEPT !.at = "call", !.plan = plan]]
    BY <2>1
  <2>3. task[m].tools \in SUBSET Tools
    BY DEF ConversationInv, ConversationTypeOK, Task
  <2>4. plan \in Plans
    BY <2>3, PossiblePlansTyped
  <2>5. plan.tool # NoTool => task[m].tools # {}
    BY NoToolsNoCall
  <2>6. task[m].tools \subseteq cachedTools /\ task[m].at = "llm"
    BY <1>4 DEF ExecuteOrSummarize, ConversationInv, ToolsFromCache
  <2>7. plan.tool # NoTool => cachedTools # {}
    BY <2>5, <2>6
  <2> QED BY <1>1, <1>4, <2>2, <2>4, <2>6, <2>7, MessageStep DEF ExecuteOrSummarize
<1>5. CASE CallTool(m)
  BY <1>1, <1>5, MessageStep DEF CallTool, CallEnds
<1> QED BY <1>2, <1>3, <1>4, <1>5 DEF Handle

LEMMA StartupDiscoveryKeeps ==
  ASSUME ConversationInv, StartupDiscovery
  PROVE  ConversationInv'
<1>1. Main \in Tasks /\ attempts \in 0 .. MaxAttempts /\ task[Main].at = "backoff" /\ Goes(Main)
  BY DEF Tasks, ConversationInv, ConversationTypeOK, StartupDiscovery, Goes
<1>2. CASE attempts < MaxAttempts
  <2>1. attempts' \in 0 .. MaxAttempts
    BY <1>1, <1>2, ConversationAssumption DEF StartupDiscovery
  <2>2. cachedTools = {}
    BY <1>1 DEF ConversationInv, MainFirst
  <2> QED BY <1>1, <1>2, <2>1, <2>2, BeginDiscoveryKeeps DEF StartupDiscovery
<1>3. CASE ~(attempts < MaxAttempts)
  <2> DEFINE new == [task[Main] EXCEPT !.at = "done"]
  <2>1. task \in [Tasks -> Task] /\ task[Main] \in Task /\ task[Main].reply = "none"
    BY <1>1, NotYetReplied DEF ConversationInv
  <2>2. new \in Task /\ new.at = "done" /\ new.reply = "none"
    BY <2>1 DEF Task
  <2>3. task' = [task EXCEPT ![Main] = new]
    BY <1>3, <2>1 DEF StartupDiscovery
  <2> HIDE DEF new
  <2>4. Becoming(Main, new)
    BY <2>2, <2>3 DEF Becoming
  <2> QED BY <1>1, <1>3, <2>2, <2>4, TaskStep DEF StartupDiscovery, history
<1> QED BY <1>2, <1>3

LEMMA ProviderKeeps ==
  ASSUME ConversationInv, ProviderGoes \/ ProviderComes
  PROVE  ConversationInv'
<1>1. UNCHANGED <<task, cachedTools, overlapped>>
  BY DEF ProviderGoes, ProviderComes, history
<1>2. NothingSentYet' /\ ToolsFromCache' /\ MainFirst' /\ OneDiscovers'
  BY <1>1 DEF ConversationInv, NothingSentYet, ToolsFromCache, MainFirst, OneDiscovers, Discovers
<1>3. CASE ProviderGoes
  <2>1. /\ serverSessions'.known = {} /\ serverSessions'.opened = serverSessions.opened
        /\ serverSessions' \in [known : SUBSET (1 .. MaxSessions), opened : 0 .. MaxSessions]
    BY <1>3 DEF ProviderGoes, ConversationInv, ConversationTypeOK
  <2>2. outages' \in 0 .. MaxOutages
    BY <1>3, ConversationAssumption DEF ProviderGoes, ConversationInv, ConversationTypeOK
  <2>3. ConversationTypeOK'
    BY <1>3, <2>1, <2>2 DEF ProviderGoes, ConversationInv, ConversationTypeOK
  <2>4. SessionAhead' /\ KnownAlone'
    BY <1>3 DEF ProviderGoes, SessionAhead, KnownAlone
  <2> QED BY <1>2, <2>1, <2>3, <2>4 DEF ConversationInv, SessionsWereOpened
<1>4. CASE ProviderComes
  <2>1. UNCHANGED <<planner, serverSessions, outages, cachedTools, mcpSession, attempts, task,
                    disturbed, overlapped>>
    BY <1>4 DEF ProviderComes, history
  <2>2. ConversationTypeOK'
    BY <1>4, <2>1 DEF ProviderComes, ConversationInv, ConversationTypeOK
  <2>3. SessionAhead' /\ SessionsWereOpened' /\ KnownAlone'
    BY <2>1 DEF ConversationInv, SessionAhead, SessionsWereOpened, KnownAlone, Opening,
                Discovers, Knows
  <2> QED BY <1>2, <2>2, <2>3 DEF ConversationInv
<1> QED BY <1>3, <1>4

LEMMA ConversationStarts ==
  ASSUME ConversationInit
  PROVE  ConversationInv
<1>1. Rest \in Task /\ [Rest EXCEPT !.at = "backoff"] \in Task
  BY RestTyped
<1>2. /\ Rest.at = "idle" /\ Rest.sent = "no" /\ Rest.reply = "none"
      /\ [Rest EXCEPT !.at = "backoff"].at = "backoff"
      /\ [Rest EXCEPT !.at = "backoff"].sent = "no"
      /\ [Rest EXCEPT !.at = "backoff"].reply = "none"
  BY DEF Rest
<1>3. \A t \in Tasks : task[t] = IF t = Main THEN [Rest EXCEPT !.at = "backoff"] ELSE Rest
  BY DEF ConversationInit
<1>4. task \in [Tasks -> Task]
  BY <1>1 DEF ConversationInit
<1>5. /\ \A t \in Tasks : task[t].at \in {"idle", "backoff"} /\ task[t].sent = "no"
      /\ \A t \in Tasks : task[t].reply = "none"
  BY <1>2, <1>3
<1>6. ConversationTypeOK
  <2>1. /\ serverSessions.opened = 0 /\ serverSessions.known = {}
        /\ serverSessions = [known |-> serverSessions.known, opened |-> serverSessions.opened]
    BY DEF ConversationInit
  <2>2. /\ serverSessions \in [known : SUBSET (1 .. MaxSessions), opened : 0 .. MaxSessions]
        /\ mcpSession \in {Uninitialised} \cup 0 .. serverSessions.opened
    BY <2>1, ConversationAssumption DEF ConversationInit, NoSession
  <2>3. outages \in 0 .. MaxOutages /\ attempts \in 0 .. MaxAttempts
    BY ConversationAssumption DEF ConversationInit
  <2>4. \A t \in Tasks : (t # Main /\ task[t].at = "done") <=> task[t].reply # "none"
    BY <1>5
  <2> QED BY <1>4, <2>2, <2>3, <2>4 DEF ConversationInit, ConversationTypeOK
<1>7. cachedTools = {} /\ \A t \in Tasks : ~Discovers(t)
  BY <1>5 DEF ConversationInit, Discovers
<1>8. SessionAhead /\ ToolsFromCache /\ OneDiscovers /\ KnownAlone
  BY <1>5, <1>7 DEF SessionAhead, ToolsFromCache, OneDiscovers, KnownAlone
<1>9. MainFirst
  <2>1. \A m \in Messages : m \in Tasks /\ m # Main
    BY ConversationAssumption DEF Tasks
  <2> QED BY <1>2, <1>3, <1>7, <2>1 DEF MainFirst
<1> QED BY <1>5, <1>6, <1>8, <1>9 DEF ConversationInv, NothingSentYet, SessionsWereOpened,
                                      ConversationInit

LEMMA ConversationKeeps ==
  ASSUME ConversationInv, [ConversationNext]_conversationVars
  PROVE  ConversationInv'
<1>1. CASE UNCHANGED conversationVars
  BY <1>1 DEF conversationVars, ConversationInv, ConversationTypeOK, SessionAhead,
              NothingSentYet, SessionsWereOpened, ToolsFromCache, MainFirst, OneDiscovers,
              KnownAlone, Opening, Discovers, Knows
<1>2. ASSUME NEW t \in Tasks, Rpc(t)
      PROVE  ConversationInv'
  BY <1>2, SendRequestKeeps, ResponseBeginsKeeps, RefusalBeginsKeeps, InitializeEndsKeeps,
     InitializeFailsKeeps, ListEndsKeeps, ListFailsKeeps DEF Rpc
<1> QED BY <1>1, <1>2, StartupDiscoveryKeeps, MessagesKeep, ProviderKeeps DEF ConversationNext

\* Tools in the cache are called with a session that the provider knows, unless the
\* provider went away, refused to open one, or discoveries overlapped: and these
\* leave the client at worst with a session that nobody has initialised.  For any
\* number of messages, tools and sessions: mcp/client.py:167-172, 290-322.
THEOREM ConversationInvariantAlways == ConversationSpec => []ConversationInvariant
<1>1. ConversationInv => ConversationInvariant
  <2>1. (\A t \in Tasks : ~Discovers(t)) => ~Opening
    BY DEF Opening, Discovers
  <2> QED BY <2>1 DEF ConversationInv, ConversationInvariant, CachedToolsHaveSession,
                      SessionAhead, KnownAlone
<1> QED BY <1>1, ConversationStarts, ConversationKeeps, PTL DEF ConversationSpec
=============================================================================
