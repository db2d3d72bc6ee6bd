----------------------------- MODULE AgentSession -----------------------------
(***************************************************************************)
(* One supervised agent reporting its state to the provider over a network *)
(* that loses and delays messages: the consumer's heartbeat, its reporting *)
(* flags and full-update controller (opamp_consumer), and the provider's   *)
(* sequence check and force-resync command (opamp_provider/state.py).      *)
(*                                                                         *)
(* A sequence number is kept as an age: how many messages the consumer has *)
(* built since the one that carried it.  Contents are kept as what tells   *)
(* them apart here: whether a section is the one last put into a message.  *)
(* The provider handles one message in one step, as its event loop does.   *)
(***************************************************************************)
EXTENDS Integers, Sequences, SequencesExt

CONSTANTS
    Sections,      \* what ReportingFlag enumerates
    Health,        \* the section a failed status poll asks for
    Capabilities,  \* the section that has no "absent" on the wire
    Changing,      \* sections whose contents change while the agent runs
    Transports,    \* values of consumer.transport
    Controllers,   \* values of consumer.full_update_controller_type
    ResendAfter,   \* fullResendAfter of SentCount
    MaxLate,       \* bound: a delayed message overtaken more often is lost
    MaxQueue       \* bound: commands queued for the agent

ASSUME SessionAssumption ==
    /\ {Health, Capabilities} \subseteq Sections
    /\ Changing \subseteq Sections
    /\ Transports \subseteq {"http", "websocket"}
    /\ Controllers \subseteq {"AlwaysSend", "SentCount", "TimeSend"}
    /\ ResendAfter \in Nat \ {0}
    /\ MaxLate \in Nat
    /\ MaxQueue \in Nat

VARIABLES
    \* the consumer
    transport,        \* its configuration, which never changes
    controller,
    reporting_flags,  \* the sections the next message will carry
    sent_count,       \* SentCount.sent_count
    window_over,      \* TimeSend: the window since last_full_update_ms is over
    \* the exchange in progress
    stage,            \* "idle", "sending" or "replying"
    channel,          \* the transport of the current attempt
    message,          \* what is being sent
    reply,            \* what the provider answered
    late,             \* at most one request the consumer has given up on
    \* the provider
    known,            \* the agent has a record in _clients
    staged,           \* its record in _pending_approvals: at most one message
    behind,           \* age of the message record.message_id was taken from
    queue,            \* unsent commands of the record
    human_in_loop,    \* CONFIG.human_in_loop_approval
    delivered,        \* sections of the record last put into a message
    \* the agent, the operators and what happened so far
    changed,          \* sections that changed since they were last reported
    settled,          \* agent and operators leave things alone from now on
    ask_lost,         \* a request for full state was marked sent but not heard
    clean             \* no message was lost since the last one handled

configuration == <<transport, controller>>
consumer == <<configuration, reporting_flags, sent_count, window_over>>
exchange == <<stage, channel, message, reply, late>>
provider == <<known, staged, behind, queue, human_in_loop, delivered>>
history == <<changed, settled, ask_lost, clean>>
vars == <<consumer, exchange, provider, history>>

Far == MaxLate + 2
Kept == Sections \ {Capabilities}
Commands == {"resync", "other"}

Message ==
    [sections: SUBSET Sections, latest: SUBSET Sections, age: 0..Far]
ServerToAgent == [resync: BOOLEAN, error: BOOLEAN]

NoMessage == [sections |-> {}, latest |-> {}, age |-> 0]
NoReply == [resync |-> FALSE, error |-> FALSE]

Aged(n) == IF n < Far THEN n + 1 ELSE Far
Overtaken(m, fresh) == [m EXCEPT !.latest = @ \ fresh, !.age = Aged(@)]

-----------------------------------------------------------------------------
Init ==
    /\ transport \in Transports
    /\ controller \in Controllers
    /\ reporting_flags = Sections
    /\ sent_count = 0
    /\ window_over = TRUE
    /\ stage = "idle"
    /\ channel = transport
    /\ message = NoMessage
    /\ reply = NoReply
    /\ late = {}
    /\ known = FALSE
    /\ staged = {}
    /\ behind = Far
    /\ queue = <<>>
    /\ human_in_loop \in BOOLEAN
    /\ delivered = {}
    /\ changed = {}
    /\ settled = FALSE
    /\ ask_lost = FALSE
    /\ clean = FALSE

-----------------------------------------------------------------------------
(* The consumer *)

\* populate_agent_to_server clears a flag when it puts the section in.
Remaining(fresh) == reporting_flags \ fresh

\* One turn of the heartbeat loop: poll the agent, build the next message.
Heartbeat ==
    /\ stage = "idle"
    /\ \E fresh \in {reporting_flags, reporting_flags \cup {Health}} :
          /\ message' = [sections |-> fresh, latest |-> fresh, age |-> 0]
          /\ reporting_flags' = Remaining(fresh)
          /\ delivered' = delivered \ fresh
          /\ changed' = changed \ fresh
          /\ staged' = {Overtaken(m, fresh) : m \in staged}
          /\ late' = {Overtaken(m, fresh) : m \in {l \in late : l.age < MaxLate}}
    /\ behind' = Aged(behind)
    /\ stage' = "sending"
    /\ channel' = transport
    /\ UNCHANGED <<configuration, sent_count, window_over, reply, known, queue, human_in_loop,
                   settled, ask_lost, clean>>

\* The attempt failed: a WebSocket is followed by the same message over HTTP,
\* after HTTP the message is given up.
GiveUp ==
    /\ channel' = "http"
    /\ reply' = NoReply
    /\ IF channel = "websocket"
       THEN stage' = "sending" /\ UNCHANGED message
       ELSE stage' = "idle" /\ message' = NoMessage
    /\ UNCHANGED consumer

\* The controllers' decision in update_sent.
Triggers ==
    CASE controller = "AlwaysSend" -> TRUE
      [] controller = "SentCount"  -> sent_count + 1 >= ResendAfter
      [] controller = "TimeSend"   -> window_over

UpdateSent ==
    /\ sent_count' = IF controller # "SentCount" \/ Triggers THEN 0 ELSE sent_count + 1
    /\ window_over' = (window_over /\ controller # "TimeSend")

\* Seeded error: the controllers repeat nothing.
FaultyAfterReply ==
    IF reply.resync \/ reply.error THEN Sections ELSE reporting_flags

\* handle_flags, an error reply, and the controller set every flag.
AfterReply ==
    IF reply.resync \/ reply.error \/ Triggers THEN Sections ELSE reporting_flags

\* The reply arrives: it is handled, and the successful send is counted.
ReceiveReply ==
    /\ stage = "replying"
    /\ reporting_flags' = AfterReply
    /\ UpdateSent
    /\ stage' = "idle"
    /\ message' = NoMessage
    /\ reply' = NoReply
    /\ UNCHANGED <<configuration, channel, late, provider, history>>

WindowPasses ==
    /\ controller = "TimeSend" /\ ~window_over
    /\ window_over' = TRUE
    /\ UNCHANGED <<configuration, reporting_flags, sent_count, exchange, provider, history>>

-----------------------------------------------------------------------------
(* The provider *)

\* Seeded error: a message older than the last one counts as in sequence.
FaultyGap(m) == behind < m.age + 1

\* check_sequence_num: the message is not the successor of the last one.
Gap(m) == ~known \/ behind - m.age # 1

\* Seeded error: a message out of sequence leaves the number as it is.
FaultyLastSeen(m) == IF Gap(m) THEN behind ELSE m.age

\* record.message_id becomes the number of the message, in sequence or not.
LastSeen(m) == m.age

Queued(m) ==
    IF Gap(m) /\ "resync" \notin Range(queue) THEN Append(queue, "resync") ELSE queue

Asks(m) == Queued(m) # <<>> /\ Head(Queued(m)) = "resync"

\* The record keeps what the message does not carry, except capabilities, which
\* are overwritten with none.
Reported(m) ==
    ((delivered \ m.sections) \cup m.latest) \
        (IF Capabilities \in m.sections THEN {} ELSE {Capabilities})

\* upsert_from_agent_msg and the taking of the next command.  Over HTTP the
\* command is marked sent at once, over a WebSocket when the reply was written.
Upsert(m, written) ==
    /\ delivered' = Reported(m)
    /\ behind' = LastSeen(m)
    /\ known' = TRUE
    /\ queue' = IF written /\ Queued(m) # <<>> THEN Tail(Queued(m)) ELSE Queued(m)

Admitted == known \/ ~human_in_loop

\* The message is staged for approval, if none is, and refused.
Stage(m) == staged' = IF staged = {} THEN {m} ELSE staged

StillUnheard(m) == ask_lost /\ ~Gap(m) /\ ~(Kept \subseteq Reported(m))

\* The request reaches the provider, which handles it and writes the reply; a
\* WebSocket may break before that.
HandleRequest(written) ==
    /\ stage = "sending"
    /\ Admitted
    /\ written \/ channel = "websocket"
    /\ Upsert(message, written)
    /\ ask_lost' = StillUnheard(message)
    /\ IF written
       THEN /\ stage' = "replying"
            /\ reply' = [resync |-> Asks(message), error |-> FALSE]
            /\ clean' = TRUE
            /\ UNCHANGED <<consumer, channel, message>>
       ELSE GiveUp /\ clean' = FALSE
    /\ UNCHANGED <<late, staged, human_in_loop, changed, settled>>

\* Over HTTP a refusal is a failed attempt, over a WebSocket an error reply.
RefuseRequest ==
    /\ stage = "sending"
    /\ ~Admitted
    /\ Stage(message)
    /\ IF channel = "http"
       THEN GiveUp
       ELSE /\ stage' = "replying"
            /\ reply' = [resync |-> FALSE, error |-> TRUE]
            /\ UNCHANGED <<consumer, channel, message>>
    /\ clean' = FALSE
    /\ UNCHANGED <<late, known, behind, queue, human_in_loop, delivered,
                   changed, settled, ask_lost>>

\* The request is lost, or the consumer has stopped waiting when it arrives.
LoseRequest ==
    /\ stage = "sending"
    /\ late' \in {late} \cup {{message} : m \in {x \in {message} : late = {}}}
    /\ GiveUp
    /\ clean' = FALSE
    /\ UNCHANGED <<provider, changed, settled, ask_lost>>

LoseReply ==
    /\ stage = "replying"
    /\ GiveUp
    /\ ask_lost' = (ask_lost \/ reply.resync)
    /\ clean' = (clean /\ channel = "http")
    /\ UNCHANGED <<late, provider, changed, settled>>

\* A request arrives that nobody waits for any more.
HandleLate ==
    /\ \E m \in late, written \in BOOLEAN :
          /\ written \/ transport = "websocket"
          /\ late' = {}
          /\ IF Admitted
             THEN /\ Upsert(m, written)
                  /\ ask_lost' = (StillUnheard(m) \/ (written /\ Asks(m)))
                  /\ UNCHANGED staged
             ELSE /\ Stage(m)
                  /\ UNCHANGED <<delivered, behind, known, queue, ask_lost>>
    /\ clean' = FALSE
    /\ UNCHANGED <<consumer, stage, channel, message, reply, human_in_loop,
                   changed, settled>>

-----------------------------------------------------------------------------
(* The agent and the operators *)

Change(section) ==
    /\ ~settled
    /\ changed' = changed \cup {section}
    /\ UNCHANGED <<consumer, exchange, provider, settled, ask_lost, clean>>

QueueCommand ==
    /\ ~settled
    /\ known
    /\ Len(queue) < MaxQueue
    /\ \E command \in Commands : queue' = Append(queue, command)
    /\ UNCHANGED <<consumer, exchange, known, staged, behind, human_in_loop,
                   delivered, history>>

\* remove_client, the purge, or a provider restarted without its state.
RemoveClient ==
    /\ ~settled
    /\ known' = FALSE
    /\ staged' = {}
    /\ behind' = Far
    /\ queue' = <<>>
    /\ delivered' = {}
    /\ clean' = FALSE
    /\ UNCHANGED <<consumer, exchange, human_in_loop, changed, settled, ask_lost>>

\* approve_pending_approval: the staged record takes the place of any other.
Approve ==
    /\ \E m \in staged :
          /\ known' = TRUE
          /\ delivered' = m.latest
          /\ behind' = m.age
    /\ staged' = {}
    /\ queue' = <<>>
    /\ ask_lost' = TRUE
    /\ clean' = FALSE
    /\ UNCHANGED <<consumer, exchange, human_in_loop, changed, settled>>

UpdateCommsSettings ==
    /\ ~settled
    /\ human_in_loop' = ~human_in_loop
    /\ UNCHANGED <<consumer, exchange, known, staged, behind, queue, delivered,
                   history>>

Settle ==
    /\ ~settled
    /\ settled' = TRUE
    /\ UNCHANGED <<consumer, exchange, provider, changed, ask_lost, clean>>

-----------------------------------------------------------------------------
ConsumerStep == Heartbeat \/ ReceiveReply \/ WindowPasses

ProviderStep ==
    \/ \E written \in BOOLEAN : HandleRequest(written)
    \/ RefuseRequest
    \/ HandleLate

NetworkStep == LoseRequest \/ LoseReply

Disturbance ==
    \/ \E section \in Changing : Change(section)
    \/ QueueCommand
    \/ RemoveClient
    \/ Approve
    \/ UpdateCommsSettings
    \/ Settle

Next == ConsumerStep \/ ProviderStep \/ NetworkStep \/ Disturbance

Spec == Init /\ [][Next]_vars

HandleFullReport == HandleRequest(TRUE) /\ message.sections = Sections

\* The heartbeat loop goes on.  The network loses messages whatever they carry:
\* of infinitely many exchanges it lets some through, and of infinitely many full
\* reports too.
Fairness ==
    /\ WF_vars(Heartbeat)
    /\ WF_vars(WindowPasses)
    /\ WF_vars(RefuseRequest)
    /\ SF_vars(HandleRequest(TRUE))
    /\ SF_vars(HandleFullReport)
    /\ SF_vars(ReceiveReply)

FairSpec == Spec /\ Fairness

-----------------------------------------------------------------------------
(* What the session promises *)

\* Type invariant.  A message is never older than its bound, and a record that
\* does not exist has nothing.
TypeOK ==
    /\ transport \in Transports /\ controller \in Controllers
    /\ reporting_flags \subseteq Sections
    /\ sent_count \in 0..(ResendAfter - 1)
    /\ window_over \in BOOLEAN
    /\ stage \in {"idle", "sending", "replying"}
    /\ channel \in {"http", "websocket"}
    /\ message \in Message /\ message.age = 0
    /\ reply \in ServerToAgent
    /\ late \subseteq Message /\ \A m \in late : m.age <= MaxLate
    /\ staged \subseteq Message
    /\ known \in BOOLEAN
    /\ behind \in 0..Far
    /\ queue \in Seq(Commands)
    /\ human_in_loop \in BOOLEAN
    /\ delivered \subseteq Sections
    /\ changed \subseteq Changing
    /\ settled \in BOOLEAN /\ ask_lost \in BOOLEAN /\ clean \in BOOLEAN
    /\ ~known => behind = Far /\ queue = <<>> /\ delivered = {}

Outstanding == Kept \ (delivered \cup reporting_flags)

\* A report that did not get through is not forgotten: it will be repeated, or
\* the next message will show the provider that it missed one, or the provider is
\* about to ask for it.  Two cases escape: the reply that asked was lost, or the
\* agent was approved on the strength of a message that did not carry it.  Then
\* only the full-update controller repairs the record.
LossIsNoticed ==
    stage = "idle" /\ known /\ Outstanding # {} =>
        \/ behind > 0
        \/ "resync" \in Range(queue)
        \/ ask_lost

\* The shape of the state, and no report forgotten in silence
\* (client_message_builder.py:42-58, state.py:437-466).
SessionInvariant == TypeOK /\ LossIsNoticed

\* The provider asks an agent it knows for its full state only if something was
\* lost, delayed or repeated since it last handled a message, or an operator wants
\* it: both ends number the messages alike, also over the fallback from WebSocket
\* to HTTP.
ResyncOnlyAfterLoss ==
    [][clean /\ late' = late /\ "resync" \notin Range(queue) /\ ~QueueCommand
          => "resync" \notin Range(queue') /\ (reply'.resync => reply.resync)]_vars

UpToDate == delivered = Sections /\ changed = {}

\* Once agent and operators leave things alone, the provider's record catches up
\* with the agent, whatever was lost: each controller repeats the full state again
\* and again.  An agent waiting for approval waits.
EventuallyUpToDate == settled ~> (UpToDate \/ ~known)
=============================================================================
