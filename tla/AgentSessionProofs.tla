--------------------------- MODULE AgentSessionProofs ---------------------------
(***************************************************************************)
(* Proofs about AgentSession, for any sections, delays, queues, transports *)
(* and controllers: a report that did not get through is noticed, and the  *)
(* provider asks for the full state only after a loss.                     *)
(***************************************************************************)
EXTENDS AgentSession, TLAPS

\* The provider is about to ask for the full state, or the reply that asked was
\* lost, or the agent approved on the strength of an older message.
Excused == ask_lost \/ "resync" \in Range(queue)

\* An attempt carries what was last reported.  A late request is the one being
\* attempted, or its predecessor, which it overtook with its own sections, or older.
LateRequests ==
    /\ stage # "idle" =>
          /\ message.latest = message.sections
          /\ \A m \in late :
                /\ m.age = 0 => m = message
                /\ m.age = 1 => m.sections \subseteq m.latest \cup message.sections
    /\ stage = "idle" => \A m \in late : m.age = 0 => m.latest = m.sections

\* What the consumer still has to report is among its flags, or a gap will show,
\* also when the late request, which would close the gap, comes first.
IdleNoticed ==
    stage = "idle" =>
        /\ behind = 0 => Kept \subseteq delivered \cup reporting_flags
        /\ \A m \in late :
              behind = 1 /\ m.age = 0 =>
                  Kept \subseteq delivered \cup m.latest \cup reporting_flags

\* While a message is under way, it counts as reported if it will be in sequence.
SendingNoticed ==
    stage = "sending" =>
        /\ behind = 1 => Kept \subseteq delivered \cup reporting_flags \cup message.sections
        /\ behind = 0 => Kept \subseteq delivered \cup reporting_flags
        /\ \A m \in late :
              behind = 2 /\ m.age = 1 =>
                  Kept \subseteq delivered \cup m.latest \cup reporting_flags \cup message.sections

\* The reply under way asks for what is missing.
ReplyingNoticed ==
    stage = "replying" => reply.resync \/ Kept \subseteq delivered \cup reporting_flags

Noticed == known /\ ~Excused => IdleNoticed /\ SendingNoticed /\ ReplyingNoticed

\* A late request that comes between a message and its reply is out of sequence.
LateIsOutOfSequence ==
    stage = "replying" /\ known /\ ~ask_lost /\ late # {} => behind = 0

\* While nothing is lost the two ends number the messages alike.
InStep ==
    clean => known /\ behind = IF stage = "sending" THEN 1 ELSE 0

SessionInv ==
    /\ TypeOK
    /\ LateRequests
    /\ Noticed
    /\ LateIsOutOfSequence
    /\ InStep

-----------------------------------------------------------------------------
(* The queue and the record *)

LEMMA RangeOfAppend ==
  ASSUME NEW q \in Seq(Commands), NEW c \in Commands
  PROVE  /\ Append(q, c) \in Seq(Commands)
         /\ Range(q) \subseteq Range(Append(q, c))
         /\ c \in Range(Append(q, c))
         /\ \A d \in Range(Append(q, c)) : d \in Range(q) \/ d = c
<1> DEFINE longer == Append(q, c)
<1>1. /\ longer \in Seq(Commands) /\ Len(longer) = Len(q) + 1 /\ Len(q) \in Nat
      /\ DOMAIN longer = 1 .. Len(q) + 1 /\ DOMAIN q = 1 .. Len(q)
      /\ \A i \in 1 .. Len(q) : longer[i] = q[i]
      /\ longer[Len(q) + 1] = c
  OBVIOUS
<1> HIDE DEF longer
<1>2. Range(q) \subseteq Range(longer)
  BY <1>1 DEF Range
<1>3. c \in Range(longer)
  BY <1>1 DEF Range
<1>4. ASSUME NEW d \in Range(longer) PROVE d \in Range(q) \/ d = c
  <2>1. PICK i \in 1 .. Len(q) + 1 : d = longer[i]
    BY <1>1 DEF Range
  <2>2. CASE i = Len(q) + 1
    BY <1>1, <2>1, <2>2
  <2>3. CASE i \in 1 .. Len(q)
    BY <1>1, <2>1, <2>3 DEF Range
  <2> QED BY <1>1, <2>1, <2>2, <2>3
<1> QED BY <1>1, <1>2, <1>3, <1>4 DEF longer

LEMMA RangeOfTail ==
  ASSUME NEW q \in Seq(Commands), q # <<>>, NEW c \in Range(q), c # Head(q)
  PROVE  c \in Range(Tail(q))
<1>1. PICK i \in 1 .. Len(q) : c = q[i]
  BY DEF Range
<1>2. /\ Len(q) \in Nat /\ Len(q) >= 1
      /\ Head(q) = q[1]
      /\ DOMAIN Tail(q) = 1 .. Len(q) - 1
      /\ \A j \in 1 .. Len(q) - 1 : Tail(q)[j] = q[j + 1]
  OBVIOUS
<1>3. i # 1
  BY <1>1, <1>2
<1>4. i - 1 \in 1 .. Len(q) - 1 /\ Tail(q)[i - 1] = c
  <2>1. i - 1 \in 1 .. Len(q) - 1 /\ (i - 1) + 1 = i
    BY <1>1, <1>2, <1>3
  <2> QED BY <1>1, <1>2, <2>1
<1> QED BY <1>2, <1>4 DEF Range

LEMMA HeadAndTailAreQueued ==
  ASSUME NEW q \in Seq(Commands), q # <<>>
  PROVE  Head(q) \in Range(q) /\ Range(Tail(q)) \subseteq Range(q)
<1>1. /\ Len(q) \in Nat /\ Len(q) >= 1
      /\ Head(q) = q[1] /\ DOMAIN q = 1 .. Len(q)
      /\ DOMAIN Tail(q) = 1 .. Len(q) - 1
      /\ \A j \in 1 .. Len(q) - 1 : Tail(q)[j] = q[j + 1]
  OBVIOUS
<1>2. Head(q) \in Range(q)
  BY <1>1 DEF Range
<1>3. ASSUME NEW c \in Range(Tail(q)) PROVE c \in Range(q)
  <2>1. PICK j \in 1 .. Len(q) - 1 : c = Tail(q)[j]
    BY <1>1, <1>3 DEF Range
  <2>2. j + 1 \in 1 .. Len(q) /\ c = q[j + 1]
    BY <1>1, <2>1
  <2> QED BY <1>1, <2>2 DEF Range
<1> QED BY <1>2, <1>3

LEMMA QueuedIsAQueue ==
  ASSUME queue \in Seq(Commands), NEW m
  PROVE  Queued(m) \in Seq(Commands)
BY RangeOfAppend DEF Queued, Commands

\* A gap, or a request for full state already queued: the request stays queued,
\* or it is the command that is taken for the reply.
LEMMA RequestIsNotForgotten ==
  ASSUME queue \in Seq(Commands), NEW m, NEW written \in BOOLEAN, Upsert(m, written),
         Gap(m) \/ "resync" \in Range(queue)
  PROVE  "resync" \in Range(queue') \/ (written /\ Asks(m))
<1>1. Queued(m) \in Seq(Commands)
  BY QueuedIsAQueue
<1>2. "resync" \in Range(Queued(m))
  BY RangeOfAppend DEF Queued, Commands
<1>3. Queued(m) # <<>>
  BY <1>2 DEF Range
<1>4. CASE ~written
  BY <1>2, <1>4 DEF Upsert
<1>5. CASE written /\ Head(Queued(m)) = "resync"
  BY <1>3, <1>5 DEF Asks
<1>6. CASE written /\ Head(Queued(m)) # "resync"
  BY <1>1, <1>2, <1>3, <1>6, RangeOfTail DEF Upsert
<1> QED BY <1>4, <1>5, <1>6

\* The record of an agent that sent its message keeps its shape.
LEMMA UpsertTypes ==
  ASSUME TypeOK, NEW m \in Message, NEW written \in BOOLEAN, Upsert(m, written)
  PROVE  /\ delivered' \subseteq Sections
         /\ behind' = m.age /\ behind' \in 0 .. Far
         /\ known' = TRUE
         /\ queue' \in Seq(Commands)
<1>1. Queued(m) \in Seq(Commands)
  BY QueuedIsAQueue DEF TypeOK
<1>2. queue' \in Seq(Commands)
  BY <1>1 DEF Upsert
<1>3. m.latest \subseteq Sections /\ m.age \in 0 .. Far
  BY DEF Message
<1>4. delivered' \subseteq Sections
  BY <1>3 DEF TypeOK, Upsert, Reported
<1> QED BY <1>2, <1>3, <1>4 DEF Upsert, LastSeen

\* Except for capabilities, the record loses no more than the message renews.
LEMMA ReportedCovers ==
  ASSUME NEW m \in Message, NEW rest,
         Kept \subseteq delivered \cup m.latest \cup rest,
         m.sections \subseteq m.latest \cup rest
  PROVE  Kept \subseteq Reported(m) \cup rest
BY DEF Reported, Kept

LEMMA NoGapMeansNext ==
  ASSUME TypeOK, NEW m \in Message, ~Gap(m)
  PROVE  known /\ behind = m.age + 1
<1>1. m.age \in Int /\ behind \in Int
  BY SessionAssumption DEF TypeOK, Message, Far
<1> QED BY <1>1 DEF Gap

\* Whatever the provider still had to ask, it asks, keeps asking, or has heard.
LEMMA AnExcuseLeadsOn ==
  ASSUME TypeOK, NEW m \in Message, NEW written \in BOOLEAN, Upsert(m, written),
         Excused \/ Gap(m)
  PROVE  \/ "resync" \in Range(queue')
         \/ written /\ Asks(m)
         \/ StillUnheard(m)
         \/ Kept \subseteq delivered'
<1>1. CASE Gap(m) \/ "resync" \in Range(queue)
  BY <1>1, RequestIsNotForgotten DEF TypeOK
<1>2. CASE ask_lost /\ ~Gap(m)
  BY <1>2 DEF StillUnheard, Upsert
<1> QED BY <1>1, <1>2 DEF Excused

-----------------------------------------------------------------------------
(* The shape of the state *)

LEMMA FarIsFar == Far \in Nat /\ Far >= 2 /\ MaxLate < Far
BY SessionAssumption DEF Far

LEMMA AgedIsNext ==
  ASSUME NEW n \in 0 .. Far
  PROVE  /\ Aged(n) \in 1 .. Far
         /\ n < Far => Aged(n) = n + 1
         /\ n = Far => Aged(n) = Far
BY FarIsFar DEF Aged

LEMMA OvertakenIsAMessage ==
  ASSUME NEW m \in Message, NEW fresh
  PROVE  /\ Overtaken(m, fresh) \in Message
         /\ Overtaken(m, fresh).sections = m.sections
         /\ Overtaken(m, fresh).latest = m.latest \ fresh
         /\ Overtaken(m, fresh).age = Aged(m.age)
<1>1. m.age \in 0 .. Far
  BY DEF Message
<1>2. Aged(m.age) \in 0 .. Far
  BY <1>1, AgedIsNext, FarIsFar
<1> QED BY <1>2 DEF Overtaken, Message

LEMMA NoMessageIsAMessage == NoMessage \in Message /\ NoMessage.age = 0
BY FarIsFar DEF NoMessage, Message

LEMMA RepliesAreReplies ==
  ASSUME NEW b \in BOOLEAN, NEW c \in BOOLEAN
  PROVE  [resync |-> b, error |-> c] \in ServerToAgent
BY DEF ServerToAgent

LEMMA GivingUpTypes ==
  ASSUME TypeOK, GiveUp
  PROVE  /\ stage' \in {"idle", "sending", "replying"}
         /\ channel' \in {"http", "websocket"}
         /\ message' \in Message /\ message'.age = 0
         /\ reply' \in ServerToAgent
<1>1. message' \in Message /\ message'.age = 0
  BY NoMessageIsAMessage DEF TypeOK, GiveUp
<1>2. reply' \in ServerToAgent
  BY DEF GiveUp, NoReply, ServerToAgent
<1> QED BY <1>1, <1>2 DEF GiveUp

LEMMA HeartbeatTypes ==
  ASSUME TypeOK, Heartbeat
  PROVE  TypeOK'
<1>1. PICK fresh \in {reporting_flags, reporting_flags \cup {Health}} :
        /\ message' = [sections |-> fresh, latest |-> fresh, age |-> 0]
        /\ reporting_flags' = Remaining(fresh)
        /\ delivered' = delivered \ fresh
        /\ changed' = changed \ fresh
        /\ staged' = {Overtaken(m, fresh) : m \in staged}
        /\ late' = {Overtaken(m, fresh) : m \in {l \in late : l.age < MaxLate}}
  BY DEF Heartbeat
<1>2. fresh \subseteq Sections
  BY SessionAssumption DEF TypeOK
<1>3. message' \in Message /\ message'.age = 0
  BY <1>1, <1>2, FarIsFar DEF Message
<1>4. staged' \subseteq Message
  BY <1>1, OvertakenIsAMessage DEF TypeOK
<1>5. ASSUME NEW m \in late' PROVE m \in Message /\ m.age <= MaxLate
  <2>1. PICK l \in late : l.age < MaxLate /\ m = Overtaken(l, fresh)
    BY <1>1, <1>5
  <2>2. l \in Message /\ l.age \in 0 .. Far
    BY DEF TypeOK, Message
  <2>3. m \in Message /\ m.age = Aged(l.age)
    BY <2>1, <2>2, OvertakenIsAMessage
  <2>4. Aged(l.age) = l.age + 1
    BY <2>1, <2>2, AgedIsNext, FarIsFar, SessionAssumption
  <2> QED BY <2>1, <2>2, <2>3, <2>4, SessionAssumption
<1>6. behind' \in 0 .. Far /\ (behind = Far => behind' = Far)
  BY AgedIsNext, FarIsFar DEF TypeOK, Heartbeat
<1>7. /\ reporting_flags' \subseteq Sections /\ delivered' \subseteq Sections
      /\ changed' \subseteq Changing /\ (delivered = {} => delivered' = {})
  BY <1>1 DEF TypeOK, Remaining
<1>8. /\ stage' = "sending" /\ channel' \in {"http", "websocket"}
      /\ UNCHANGED <<transport, controller, sent_count, window_over, reply, known, queue,
                     human_in_loop, settled, ask_lost, clean>>
  BY SessionAssumption DEF Heartbeat, configuration, TypeOK
<1> QED BY <1>3, <1>4, <1>5, <1>6, <1>7, <1>8 DEF TypeOK

LEMMA ReceiveReplyTypes ==
  ASSUME TypeOK, ReceiveReply
  PROVE  TypeOK'
<1>1. reporting_flags' \subseteq Sections
  BY DEF TypeOK, ReceiveReply, AfterReply
<1>2. sent_count' \in 0 .. (ResendAfter - 1)
  <2>1. CASE controller # "SentCount" \/ Triggers
    BY <2>1, SessionAssumption DEF ReceiveReply, UpdateSent
  <2>2. CASE controller = "SentCount" /\ ~Triggers
    <3>1. ~(sent_count + 1 >= ResendAfter)
      BY <2>2 DEF Triggers
    <3>2. sent_count' = sent_count + 1
      BY <2>2 DEF ReceiveReply, UpdateSent
    <3> QED BY <3>1, <3>2, SessionAssumption DEF TypeOK
  <2> QED BY <2>1, <2>2
<1>3. window_over' \in BOOLEAN
  BY DEF TypeOK, ReceiveReply, UpdateSent
<1>4. message' \in Message /\ message'.age = 0 /\ reply' \in ServerToAgent
  BY NoMessageIsAMessage DEF ReceiveReply, NoReply, ServerToAgent
<1>5. /\ stage' = "idle"
      /\ UNCHANGED <<transport, controller, channel, late, known, staged, behind, queue,
                     human_in_loop, delivered, changed, settled, ask_lost, clean>>
  BY DEF ReceiveReply, configuration, provider, history
<1> QED BY <1>1, <1>2, <1>3, <1>4, <1>5 DEF TypeOK

LEMMA HandleRequestTypes ==
  ASSUME TypeOK, NEW written \in BOOLEAN, HandleRequest(written)
  PROVE  TypeOK'
<1>0. message \in Message
  BY DEF TypeOK
<1>1. /\ delivered' \subseteq Sections /\ behind' \in 0 .. Far /\ known' = TRUE
      /\ queue' \in Seq(Commands)
  BY <1>0, UpsertTypes DEF HandleRequest
<1>2. /\ stage' \in {"idle", "sending", "replying"}
      /\ channel' \in {"http", "websocket"}
      /\ message' \in Message /\ message'.age = 0
      /\ reply' \in ServerToAgent
  <2>1. CASE written
    <3>1. stage' = "replying" /\ UNCHANGED <<channel, message>>
      BY <2>1 DEF HandleRequest
    <3>2. reply' \in ServerToAgent
      <4>1. reply' = [resync |-> Asks(message), error |-> FALSE] /\ Asks(message) \in BOOLEAN
        BY <2>1 DEF HandleRequest, Asks
      <4> QED BY <4>1, RepliesAreReplies
    <3> QED BY <3>1, <3>2 DEF TypeOK
  <2>2. CASE ~written
    BY <2>2, GivingUpTypes DEF HandleRequest
  <2> QED BY <2>1, <2>2
<1>3. ask_lost' \in BOOLEAN /\ clean' \in BOOLEAN
  BY DEF HandleRequest, StillUnheard
<1>4. UNCHANGED <<transport, controller, reporting_flags, sent_count, window_over, late, staged,
                  human_in_loop, changed, settled>>
  BY DEF HandleRequest, GiveUp, consumer, configuration
<1> QED BY <1>1, <1>2, <1>3, <1>4 DEF TypeOK

LEMMA RefuseRequestTypes ==
  ASSUME TypeOK, RefuseRequest
  PROVE  TypeOK'
<1>1. staged' \subseteq Message
  BY DEF TypeOK, RefuseRequest, Stage
<1>2. /\ stage' \in {"idle", "sending", "replying"}
      /\ channel' \in {"http", "websocket"}
      /\ message' \in Message /\ message'.age = 0
      /\ reply' \in ServerToAgent
  <2>1. CASE channel = "http"
    BY <2>1, GivingUpTypes DEF RefuseRequest
  <2>2. CASE channel # "http"
    <3>1. stage' = "replying" /\ UNCHANGED <<channel, message>>
      BY <2>2 DEF RefuseRequest
    <3>2. reply' \in ServerToAgent
      <4>1. reply' = [resync |-> FALSE, error |-> TRUE]
        BY <2>2 DEF RefuseRequest
      <4> QED BY <4>1, RepliesAreReplies
    <3> QED BY <3>1, <3>2 DEF TypeOK
  <2> QED BY <2>1, <2>2
<1>3. /\ clean' = FALSE
      /\ UNCHANGED <<transport, controller, reporting_flags, sent_count, window_over, late, known,
                     behind, queue, human_in_loop, delivered, changed, settled, ask_lost>>
  BY DEF RefuseRequest, GiveUp, consumer, configuration
<1> QED BY <1>1, <1>2, <1>3 DEF TypeOK

LEMMA HandleLateTypes ==
  ASSUME TypeOK, HandleLate
  PROVE  TypeOK'
<1>0. PICK m \in late, written \in BOOLEAN :
        /\ late' = {}
        /\ IF Admitted
           THEN /\ Upsert(m, written)
                /\ ask_lost' = (StillUnheard(m) \/ (written /\ Asks(m)))
                /\ UNCHANGED staged
           ELSE /\ Stage(m)
                /\ UNCHANGED <<delivered, behind, known, queue, ask_lost>>
  BY DEF HandleLate
<1>1. m \in Message
  BY DEF TypeOK
<1>2. /\ clean' = FALSE /\ late' = {}
      /\ UNCHANGED <<transport, controller, reporting_flags, sent_count, window_over, stage,
                     channel, message, reply, human_in_loop, changed, settled>>
  BY <1>0 DEF HandleLate, consumer, configuration
<1>3. CASE Admitted
  <2>1. /\ delivered' \subseteq Sections /\ behind' \in 0 .. Far /\ known' = TRUE
        /\ queue' \in Seq(Commands)
    BY <1>0, <1>1, <1>3, UpsertTypes
  <2>2. ask_lost' \in BOOLEAN /\ staged' = staged
    BY <1>0, <1>3 DEF StillUnheard
  <2> QED BY <1>2, <2>1, <2>2 DEF TypeOK
<1>4. CASE ~Admitted
  <2>1. staged' \subseteq Message
    BY <1>0, <1>1, <1>4 DEF Stage, TypeOK
  <2>2. UNCHANGED <<delivered, behind, known, queue, ask_lost>>
    BY <1>0, <1>4
  <2> QED BY <1>2, <2>1, <2>2 DEF TypeOK
<1> QED BY <1>3, <1>4

LEMMA LoseRequestTypes ==
  ASSUME TypeOK, LoseRequest
  PROVE  TypeOK'
<1>1. late' = late \/ late' = {message}
  BY DEF LoseRequest
<1>2. late' \subseteq Message /\ \A m \in late' : m.age <= MaxLate
  BY <1>1, SessionAssumption DEF TypeOK
<1>3. /\ stage' \in {"idle", "sending", "replying"}
      /\ channel' \in {"http", "websocket"}
      /\ message' \in Message /\ message'.age = 0
      /\ reply' \in ServerToAgent
  BY GivingUpTypes DEF LoseRequest
<1>4. /\ clean' = FALSE
      /\ UNCHANGED <<transport, controller, reporting_flags, sent_count, window_over, known, staged,
                     behind, queue, human_in_loop, delivered, changed, settled, ask_lost>>
  BY DEF LoseRequest, GiveUp, consumer, configuration, provider
<1> QED BY <1>2, <1>3, <1>4 DEF TypeOK

LEMMA LoseReplyTypes ==
  ASSUME TypeOK, LoseReply
  PROVE  TypeOK'
<1>1. /\ stage' \in {"idle", "sending", "replying"}
      /\ channel' \in {"http", "websocket"}
      /\ message' \in Message /\ message'.age = 0
      /\ reply' \in ServerToAgent
  BY GivingUpTypes DEF LoseReply
<1>2. ask_lost' \in BOOLEAN /\ clean' \in BOOLEAN
  BY DEF LoseReply
<1>3. UNCHANGED <<transport, controller, reporting_flags, sent_count, window_over, late, known,
                  staged, behind, queue, human_in_loop, delivered, changed, settled>>
  BY DEF LoseReply, GiveUp, consumer, configuration, provider
<1> QED BY <1>1, <1>2, <1>3 DEF TypeOK

LEMMA ApproveTypes ==
  ASSUME TypeOK, Approve
  PROVE  TypeOK'
<1>1. PICK m \in staged : known' = TRUE /\ delivered' = m.latest /\ behind' = m.age
  BY DEF Approve
<1>2. m \in Message /\ m.latest \subseteq Sections /\ m.age \in 0 .. Far
  BY DEF TypeOK, Message
<1>3. /\ staged' = {} /\ queue' \in Seq(Commands) /\ ask_lost' = TRUE /\ clean' = FALSE
      /\ UNCHANGED <<transport, controller, reporting_flags, sent_count, window_over, stage,
                     channel, message, reply, late, human_in_loop, changed, settled>>
  BY DEF Approve, consumer, configuration, exchange
<1> QED BY <1>1, <1>2, <1>3 DEF TypeOK

LEMMA RemoveClientTypes ==
  ASSUME TypeOK, RemoveClient
  PROVE  TypeOK'
<1>1. /\ known' = FALSE /\ staged' = {} /\ behind' = Far /\ queue' = <<>> /\ delivered' = {}
      /\ clean' = FALSE
      /\ UNCHANGED <<transport, controller, reporting_flags, sent_count, window_over, stage,
                     channel, message, reply, late, human_in_loop, changed, settled, ask_lost>>
  BY DEF RemoveClient, consumer, configuration, exchange
<1>2. queue' \in Seq(Commands) /\ behind' \in 0 .. Far
  BY <1>1, FarIsFar
<1> QED BY <1>1, <1>2 DEF TypeOK

LEMMA QueueCommandTypes ==
  ASSUME TypeOK, QueueCommand
  PROVE  TypeOK'
<1>1. queue' \in Seq(Commands)
  BY RangeOfAppend DEF TypeOK, QueueCommand, Commands
<1>2. /\ known = TRUE
      /\ UNCHANGED <<transport, controller, reporting_flags, sent_count, window_over, stage,
                     channel, message, reply, late, known, staged, behind, human_in_loop,
                     delivered, changed, settled, ask_lost, clean>>
  BY DEF TypeOK, QueueCommand, consumer, configuration, exchange, history
<1> QED BY <1>1, <1>2 DEF TypeOK

\* The steps that leave the two ends as they are.
LEMMA BystanderTypes ==
  ASSUME TypeOK,
         \/ WindowPasses
         \/ \E section \in Changing : Change(section)
         \/ UpdateCommsSettings
         \/ Settle
         \/ UNCHANGED vars
  PROVE  /\ TypeOK'
         /\ UNCHANGED <<reporting_flags, exchange, known, behind, queue, delivered, ask_lost, clean>>
<1>1. UNCHANGED <<reporting_flags, exchange, known, behind, queue, delivered, ask_lost, clean>>
  BY DEF WindowPasses, Change, UpdateCommsSettings, Settle, vars, consumer, exchange, provider,
         history
<1>2. /\ UNCHANGED <<transport, controller, sent_count, staged>>
      /\ window_over' \in BOOLEAN /\ human_in_loop' \in BOOLEAN
      /\ changed' \subseteq Changing /\ settled' \in BOOLEAN
  BY DEF TypeOK, WindowPasses, Change, UpdateCommsSettings, Settle, vars, consumer, configuration,
         provider, history
<1> QED BY <1>1, <1>2 DEF TypeOK, exchange

-----------------------------------------------------------------------------
(* What is noticed stays noticed *)

\* All that SessionInv says beyond the types.
NoticingInv == LateRequests /\ Noticed /\ LateIsOutOfSequence /\ InStep

LEMMA InitSession == Init => SessionInv
<1> SUFFICES ASSUME Init PROVE SessionInv
  OBVIOUS
<1>1. /\ message \in Message /\ message.age = 0 /\ reply \in ServerToAgent
      /\ late = {} /\ staged = {} /\ known = FALSE /\ behind \in 0 .. Far /\ behind = Far
      /\ queue = <<>> /\ queue \in Seq(Commands) /\ delivered = {} /\ changed = {}
  BY NoMessageIsAMessage, FarIsFar DEF Init, NoReply, ServerToAgent
<1>2. sent_count \in 0 .. (ResendAfter - 1) /\ channel \in {"http", "websocket"}
  BY SessionAssumption DEF Init
<1>3. /\ transport \in Transports /\ controller \in Controllers /\ reporting_flags = Sections
      /\ window_over = TRUE /\ stage = "idle" /\ human_in_loop \in BOOLEAN /\ settled = FALSE
      /\ ask_lost = FALSE /\ clean = FALSE
  BY DEF Init
<1>4. TypeOK
  BY <1>1, <1>2, <1>3 DEF TypeOK
<1>5. LateRequests /\ Noticed /\ LateIsOutOfSequence /\ InStep
  BY <1>1, <1>3 DEF LateRequests, Noticed, LateIsOutOfSequence, InStep
<1> QED BY <1>4, <1>5 DEF SessionInv

\* Nothing the invariant speaks of changes.
LEMMA BystanderKeeps ==
  ASSUME SessionInv,
         UNCHANGED <<reporting_flags, exchange, known, behind, queue, delivered, ask_lost, clean>>
  PROVE  NoticingInv'
<1>1. UNCHANGED <<reporting_flags, stage, channel, message, reply, late, known, behind, queue,
                  delivered, ask_lost, clean>>
  BY DEF exchange
<1>2. LateRequests'
  BY <1>1 DEF SessionInv, LateRequests
<1>3. Excused' <=> Excused
  BY <1>1 DEF Excused
<1>4. Noticed'
  BY <1>1, <1>3 DEF SessionInv, Noticed, IdleNoticed, SendingNoticed, ReplyingNoticed
<1>5. LateIsOutOfSequence' /\ InStep'
  BY <1>1 DEF SessionInv, LateIsOutOfSequence, InStep
<1> QED BY <1>2, <1>4, <1>5 DEF NoticingInv

LEMMA HeartbeatKeeps ==
  ASSUME SessionInv, Heartbeat
  PROVE  NoticingInv'
<1>1. PICK fresh \in {reporting_flags, reporting_flags \cup {Health}} :
        /\ message' = [sections |-> fresh, latest |-> fresh, age |-> 0]
        /\ reporting_flags' = Remaining(fresh)
        /\ delivered' = delivered \ fresh
        /\ late' = {Overtaken(m, fresh) : m \in {l \in late : l.age < MaxLate}}
  BY DEF Heartbeat
<1>2. /\ stage = "idle" /\ stage' = "sending" /\ behind' = Aged(behind)
      /\ UNCHANGED <<known, queue, ask_lost, clean>>
  BY DEF Heartbeat
<1>3. behind \in 0 .. Far /\ late \subseteq Message
  BY DEF SessionInv, TypeOK
<1>0. behind' = (IF behind < Far THEN behind + 1 ELSE Far) /\ Far \in Nat /\ Far >= 2
  BY <1>2, FarIsFar DEF Aged
\* Where a late request of the new message's time comes from.
<1>4. ASSUME NEW m \in late'
      PROVE  \E l \in late : /\ l.age \in 0 .. Far /\ l.age < MaxLate
                             /\ m.sections = l.sections /\ m.latest = l.latest \ fresh
                             /\ m.age = l.age + 1
  <2>1. PICK l \in late : l.age < MaxLate /\ m = Overtaken(l, fresh)
    BY <1>1, <1>4
  <2>2. l \in Message /\ l.age \in 0 .. Far
    BY <1>3 DEF Message
  <2>3. m.sections = l.sections /\ m.latest = l.latest \ fresh /\ m.age = Aged(l.age)
    BY <2>1, <2>2, OvertakenIsAMessage
  <2>4. Aged(l.age) = l.age + 1
    BY <2>1, <2>2, AgedIsNext, FarIsFar, SessionAssumption
  <2> QED BY <2>1, <2>2, <2>3, <2>4
<1>5. LateRequests'
  <2>1. message'.latest = message'.sections /\ message'.sections = fresh
    BY <1>1
  <2>2. ASSUME NEW m \in late', m.age = 0 PROVE FALSE
    BY <1>4, <2>2
  <2>3. ASSUME NEW m \in late', m.age = 1 PROVE m.sections \subseteq m.latest \cup fresh
    <3>1. PICK l \in late : /\ l.age \in 0 .. Far /\ m.sections = l.sections
                            /\ m.latest = l.latest \ fresh /\ m.age = l.age + 1
      BY <1>4
    <3>2. l.age = 0
      BY <2>3, <3>1
    <3>3. l.latest = l.sections
      BY <1>2, <3>2 DEF SessionInv, LateRequests
    <3> QED BY <3>1, <3>3
  <2> QED BY <1>2, <2>1, <2>2, <2>3 DEF LateRequests
<1>6. Noticed'
  <2> SUFFICES ASSUME known', ~Excused' PROVE SendingNoticed'
    BY <1>2 DEF Noticed, IdleNoticed, ReplyingNoticed
  <2>1. known /\ ~Excused
    BY <1>2 DEF Excused
  <2>2. IdleNoticed
    BY <2>1 DEF SessionInv, Noticed
  <2>3. message'.sections = fresh /\ reporting_flags' = reporting_flags \ fresh
    BY <1>1 DEF Remaining
  <2>4. ASSUME behind' = 1
        PROVE  Kept \subseteq delivered' \cup reporting_flags' \cup message'.sections
    <3>1. behind = 0
      BY <1>0, <1>3, <2>4
    <3>2. Kept \subseteq delivered \cup reporting_flags
      BY <1>2, <2>2, <3>1 DEF IdleNoticed
    <3> QED BY <1>1, <2>3, <3>2
  <2>5. behind' # 0
    BY <1>2, <1>3, AgedIsNext
  <2>6. ASSUME NEW m \in late', behind' = 2, m.age = 1
        PROVE  Kept \subseteq delivered' \cup m.latest \cup reporting_flags' \cup message'.sections
    <3>1. PICK l \in late : /\ l.age \in 0 .. Far /\ l.age < MaxLate
                            /\ m.latest = l.latest \ fresh /\ m.age = l.age + 1
      BY <1>4
    <3>2. l.age = 0 /\ MaxLate \in Nat /\ MaxLate >= 1 /\ Far = MaxLate + 2
      BY <2>6, <3>1, SessionAssumption DEF Far
    <3>3. behind = 1
      BY <1>0, <1>3, <2>6, <3>2
    <3>4. Kept \subseteq delivered \cup l.latest \cup reporting_flags
      BY <1>2, <2>2, <3>2, <3>3 DEF IdleNoticed
    <3> QED BY <1>1, <2>3, <3>1, <3>4
  <2> QED BY <2>4, <2>5, <2>6 DEF SendingNoticed
<1>7. LateIsOutOfSequence'
  BY <1>2 DEF LateIsOutOfSequence
<1>8. InStep'
  <2>1. clean => known /\ behind = 0
    BY <1>2 DEF SessionInv, InStep
  <2>2. Aged(0) = 1
    BY FarIsFar, AgedIsNext
  <2> QED BY <1>2, <2>1, <2>2 DEF InStep
<1> QED BY <1>5, <1>6, <1>7, <1>8 DEF NoticingInv

\* The reply asks for everything, or nothing that it should have asked for is missing.
LEMMA ReceiveReplyKeeps ==
  ASSUME SessionInv, ReceiveReply
  PROVE  NoticingInv'
<1>1. /\ stage = "replying" /\ stage' = "idle" /\ reporting_flags' = AfterReply
      /\ UNCHANGED <<late, known, behind, queue, delivered, ask_lost, clean>>
  BY DEF ReceiveReply, provider, history
<1>2. LateRequests'
  BY <1>1 DEF SessionInv, LateRequests
<1>3. Noticed'
  <2> SUFFICES ASSUME known', ~Excused' PROVE IdleNoticed'
    BY <1>1 DEF Noticed, SendingNoticed, ReplyingNoticed
  <2>1. ReplyingNoticed
    BY <1>1 DEF SessionInv, Noticed, Excused
  <2>2. Kept \subseteq delivered \cup AfterReply
    BY <1>1, <2>1 DEF ReplyingNoticed, AfterReply, Kept, SessionInv, TypeOK
  <2> QED BY <1>1, <2>2 DEF IdleNoticed
<1>4. LateIsOutOfSequence' /\ InStep'
  BY <1>1 DEF LateIsOutOfSequence, SessionInv, InStep
<1> QED BY <1>2, <1>3, <1>4 DEF NoticingInv

-----------------------------------------------------------------------------
(* Messages that reach the provider *)

\* The message of the exchange is handled.
LEMMA HandledIsNoticed ==
  ASSUME SessionInv, stage = "sending", NEW written \in BOOLEAN, Upsert(message, written),
         ~StillUnheard(message), "resync" \notin Range(queue')
  PROVE  (written /\ Asks(message)) \/ Kept \subseteq delivered' \cup reporting_flags
<1>1. TypeOK /\ message \in Message /\ message.age = 0
  BY DEF SessionInv, TypeOK
<1>2. CASE Excused \/ Gap(message)
  BY <1>1, <1>2, AnExcuseLeadsOn
<1>3. CASE ~Excused /\ ~Gap(message)
  <2>1. known /\ behind = 1
    BY <1>1, <1>3, NoGapMeansNext
  <2>2. Kept \subseteq delivered \cup reporting_flags \cup message.sections
    BY <1>3, <2>1 DEF SessionInv, Noticed, SendingNoticed
  <2>3. message.latest = message.sections
    BY DEF SessionInv, LateRequests
  <2>4. Kept \subseteq Reported(message) \cup reporting_flags
    BY <1>1, <2>2, <2>3, ReportedCovers
  <2> QED BY <2>4 DEF Upsert
<1> QED BY <1>2, <1>3

LEMMA HandleRequestKeeps ==
  ASSUME SessionInv, NEW written \in BOOLEAN, HandleRequest(written)
  PROVE  NoticingInv'
<1>1. /\ stage = "sending" /\ Upsert(message, written) /\ ask_lost' = StillUnheard(message)
      /\ behind' = message.age /\ known' = TRUE /\ message.age = 0
      /\ late' = late /\ message' = message /\ reporting_flags' = reporting_flags
  <2>1. message' = message /\ reporting_flags' = reporting_flags
    BY DEF HandleRequest, GiveUp, consumer
  <2> QED BY <2>1 DEF HandleRequest, Upsert, LastSeen, SessionInv, TypeOK
<1>2. \/ /\ written /\ stage' = "replying" /\ reply'.resync = Asks(message)
      \/ /\ ~written /\ stage' = "sending" /\ clean' = FALSE
  BY DEF HandleRequest, GiveUp
<1>3. LateRequests'
  BY <1>1, <1>2 DEF SessionInv, LateRequests
<1>4. Noticed'
  <2> SUFFICES ASSUME ~Excused' PROVE SendingNoticed' /\ ReplyingNoticed'
    BY <1>2 DEF Noticed, IdleNoticed
  <2>1. (written /\ Asks(message)) \/ Kept \subseteq delivered' \cup reporting_flags
    BY <1>1, HandledIsNoticed DEF Excused
  <2>2. SendingNoticed'
    BY <1>1, <1>2, <2>1 DEF SendingNoticed
  <2>3. ReplyingNoticed'
    BY <1>1, <1>2, <2>1 DEF ReplyingNoticed
  <2> QED BY <2>2, <2>3
<1>5. LateIsOutOfSequence' /\ InStep'
  BY <1>1, <1>2 DEF LateIsOutOfSequence, InStep
<1> QED BY <1>3, <1>4, <1>5 DEF NoticingInv

\* The provider does not know the agent, and does not get to know it.
LEMMA RefusedKeeps ==
  ASSUME SessionInv, ~known, ~known',
         LateRequests', ~clean'
  PROVE  NoticingInv'
BY DEF NoticingInv, Noticed, LateIsOutOfSequence, InStep

LEMMA RefuseRequestKeeps ==
  ASSUME SessionInv, RefuseRequest
  PROVE  NoticingInv'
<1>1. ~known /\ ~known' /\ ~clean' /\ stage = "sending" /\ late' = late
  BY DEF RefuseRequest, Admitted
<1>2. (stage' = "idle" \/ (stage' # "idle" /\ message' = message))
  BY DEF RefuseRequest, GiveUp
<1>3. LateRequests'
  BY <1>1, <1>2 DEF SessionInv, LateRequests
<1> QED BY <1>1, <1>3, RefusedKeeps

\* A late request is handled: it was in sequence with what the record counts on,
\* or the provider asks.
LEMMA LateHandledIsNoticed ==
  ASSUME SessionInv, NEW m \in late, NEW written \in BOOLEAN, Upsert(m, written),
         ~StillUnheard(m), ~(written /\ Asks(m)), "resync" \notin Range(queue')
  PROVE  /\ stage = "idle" /\ m.age = 0 => Kept \subseteq delivered' \cup reporting_flags
         /\ stage = "sending" /\ m.age = 0 => Kept \subseteq delivered' \cup reporting_flags
         /\ stage = "sending" /\ m.age = 1 =>
               Kept \subseteq delivered' \cup reporting_flags \cup message.sections
         /\ stage = "replying" => Kept \subseteq delivered' \cup reporting_flags
<1>1. TypeOK /\ m \in Message
  BY DEF SessionInv, TypeOK
<1>2. CASE Excused \/ Gap(m)
  BY <1>1, <1>2, AnExcuseLeadsOn
<1>3. CASE ~Excused /\ ~Gap(m)
  <2>1. known /\ behind = m.age + 1 /\ m.age \in Nat
    <3>1. m.age \in 0 .. Far /\ Far \in Nat
      BY <1>1, FarIsFar DEF Message
    <3> QED BY <1>1, <1>3, <3>1, NoGapMeansNext
  <2>2. Noticed /\ LateRequests /\ LateIsOutOfSequence
    BY DEF SessionInv
  <2>3. CASE stage = "idle" /\ m.age = 0
    <3>1. Kept \subseteq delivered \cup m.latest \cup reporting_flags
      BY <1>3, <2>1, <2>2, <2>3 DEF Noticed, IdleNoticed
    <3>2. m.latest = m.sections
      BY <2>2, <2>3 DEF LateRequests
    <3>3. Kept \subseteq Reported(m) \cup reporting_flags
      BY <1>1, <3>1, <3>2, ReportedCovers
    <3> QED BY <2>3, <3>3 DEF Upsert
  <2>4. CASE stage = "sending" /\ m.age = 0
    <3>1. m = message /\ m.latest = m.sections
      BY <2>2, <2>4 DEF LateRequests
    <3>2. Kept \subseteq delivered \cup m.latest \cup reporting_flags
      BY <1>3, <2>1, <2>2, <2>4, <3>1 DEF Noticed, SendingNoticed
    <3>3. Kept \subseteq Reported(m) \cup reporting_flags
      BY <1>1, <3>1, <3>2, ReportedCovers
    <3> QED BY <2>4, <3>3 DEF Upsert
  <2>5. CASE stage = "sending" /\ m.age = 1
    <3>1. m.sections \subseteq m.latest \cup (reporting_flags \cup message.sections)
      BY <2>2, <2>5 DEF LateRequests
    <3>2. Kept \subseteq delivered \cup m.latest \cup (reporting_flags \cup message.sections)
      BY <1>3, <2>1, <2>2, <2>5 DEF Noticed, SendingNoticed
    <3>3. Kept \subseteq Reported(m) \cup (reporting_flags \cup message.sections)
      BY <1>1, <3>1, <3>2, ReportedCovers
    <3> QED BY <2>5, <3>3 DEF Upsert
  <2>6. CASE stage = "replying"
    <3>1. behind = 0
      BY <1>3, <2>1, <2>2, <2>6 DEF LateIsOutOfSequence, Excused
    <3> QED BY <2>1, <3>1
  <2> QED BY <2>3, <2>4, <2>5, <2>6
<1> QED BY <1>2, <1>3

LEMMA HandleLateKeeps ==
  ASSUME SessionInv, HandleLate
  PROVE  NoticingInv'
<1>0. PICK m \in late, written \in BOOLEAN :
        /\ late' = {}
        /\ IF Admitted
           THEN /\ Upsert(m, written)
                /\ ask_lost' = (StillUnheard(m) \/ (written /\ Asks(m)))
                /\ UNCHANGED staged
           ELSE /\ Stage(m)
                /\ UNCHANGED <<delivered, behind, known, queue, ask_lost>>
  BY DEF HandleLate
<1>1. /\ late' = {} /\ ~clean'
      /\ UNCHANGED <<reporting_flags, stage, message, reply>>
  BY <1>0 DEF HandleLate, consumer
<1>2. LateRequests'
  BY <1>1 DEF SessionInv, LateRequests
<1>3. CASE Admitted
  <2>1. behind' = m.age
    BY <1>0, <1>3 DEF Upsert, LastSeen
  <2>2. Noticed'
    <3> SUFFICES ASSUME ~Excused' PROVE IdleNoticed' /\ SendingNoticed' /\ ReplyingNoticed'
      BY DEF Noticed
    <3>1. /\ stage = "idle" /\ m.age = 0 => Kept \subseteq delivered' \cup reporting_flags
          /\ stage = "sending" /\ m.age = 0 => Kept \subseteq delivered' \cup reporting_flags
          /\ stage = "sending" /\ m.age = 1 =>
                Kept \subseteq delivered' \cup reporting_flags \cup message.sections
          /\ stage = "replying" => Kept \subseteq delivered' \cup reporting_flags
      BY <1>0, <1>3, LateHandledIsNoticed DEF Excused
    <3> QED BY <1>1, <2>1, <3>1 DEF IdleNoticed, SendingNoticed, ReplyingNoticed
  <2> QED BY <1>1, <1>2, <2>2 DEF NoticingInv, LateIsOutOfSequence, InStep
<1>4. CASE ~Admitted
  <2>1. ~known /\ ~known'
    BY <1>0, <1>4 DEF Admitted
  <2> QED BY <1>1, <1>2, <2>1, RefusedKeeps
<1> QED BY <1>3, <1>4

-----------------------------------------------------------------------------
(* Losses, agent and operators *)

LEMMA LoseRequestKeeps ==
  ASSUME SessionInv, LoseRequest
  PROVE  NoticingInv'
<1>1. /\ stage = "sending" /\ ~clean'
      /\ UNCHANGED <<reporting_flags, known, behind, queue, delivered, ask_lost>>
      /\ \A m \in late' : m \in late \/ m = message
  BY DEF LoseRequest, GiveUp, consumer, provider
<1>2. stage' = "idle" \/ (stage' = "sending" /\ message' = message)
  BY DEF LoseRequest, GiveUp
<1>3. message.age = 0 /\ message.latest = message.sections
  BY <1>1 DEF SessionInv, TypeOK, LateRequests
<1>4. \A m \in late' : m.age = 0 => m = message
  BY <1>1, <1>3 DEF SessionInv, LateRequests
<1>5. \A m \in late' : m.age = 1 => m \in late
  BY <1>1, <1>3
<1>6. LateRequests'
  BY <1>1, <1>2, <1>3, <1>4, <1>5 DEF SessionInv, LateRequests
<1>7. Noticed'
  <2> SUFFICES ASSUME known', ~Excused' PROVE IdleNoticed' /\ SendingNoticed'
    BY <1>2 DEF Noticed, ReplyingNoticed
  <2>1. SendingNoticed
    BY <1>1 DEF SessionInv, Noticed, Excused
  <2>2. IdleNoticed'
    BY <1>1, <1>2, <1>3, <1>4, <2>1 DEF IdleNoticed, SendingNoticed
  <2>3. SendingNoticed'
    BY <1>1, <1>2, <1>5, <2>1 DEF SendingNoticed
  <2> QED BY <2>2, <2>3
<1> QED BY <1>1, <1>2, <1>6, <1>7 DEF NoticingInv, LateIsOutOfSequence, InStep

LEMMA LoseReplyKeeps ==
  ASSUME SessionInv, LoseReply
  PROVE  NoticingInv'
<1>1. /\ stage = "replying" /\ ask_lost' = (ask_lost \/ reply.resync)
      /\ UNCHANGED <<reporting_flags, late, known, behind, queue, delivered>>
  BY DEF LoseReply, GiveUp, consumer, provider
<1>2. \/ /\ stage' = "idle"
      \/ /\ stage' = "sending" /\ message' = message /\ ~clean'
  BY DEF LoseReply, GiveUp
<1>3. LateRequests'
  BY <1>1, <1>2 DEF SessionInv, LateRequests
<1>4. Noticed'
  <2> SUFFICES ASSUME known', ~Excused' PROVE IdleNoticed' /\ SendingNoticed'
    BY <1>2 DEF Noticed, ReplyingNoticed
  <2>1. ReplyingNoticed /\ ~reply.resync
    BY <1>1 DEF SessionInv, Noticed, Excused
  <2>2. Kept \subseteq delivered \cup reporting_flags
    BY <1>1, <2>1 DEF ReplyingNoticed
  <2> QED BY <1>1, <2>2 DEF IdleNoticed, SendingNoticed
<1>5. InStep'
  <2>1. clean' => clean
    BY DEF LoseReply
  <2> QED BY <1>1, <1>2, <2>1 DEF SessionInv, InStep
<1> QED BY <1>2, <1>3, <1>4, <1>5 DEF NoticingInv, LateIsOutOfSequence

LEMMA QueueCommandKeeps ==
  ASSUME SessionInv, QueueCommand
  PROVE  NoticingInv'
<1>1. UNCHANGED <<reporting_flags, stage, message, reply, late, known, behind, delivered, ask_lost,
                  clean>>
  BY DEF QueueCommand, consumer, exchange, history
<1>2. Excused => Excused'
  BY <1>1, RangeOfAppend DEF SessionInv, TypeOK, QueueCommand, Excused, Commands
<1>3. LateRequests'
  BY <1>1 DEF SessionInv, LateRequests
<1>4. Noticed'
  BY <1>1, <1>2 DEF SessionInv, Noticed, IdleNoticed, SendingNoticed, ReplyingNoticed
<1> QED BY <1>1, <1>3, <1>4 DEF SessionInv, NoticingInv, LateIsOutOfSequence, InStep

\* The record is removed, or replaced on the strength of an older message.
LEMMA RecordReplacedKeeps ==
  ASSUME SessionInv, RemoveClient \/ Approve
  PROVE  NoticingInv'
<1>1. UNCHANGED <<stage, message, late>> /\ ~clean' /\ (~known' \/ ask_lost')
  BY DEF RemoveClient, Approve, exchange
<1>2. LateRequests'
  BY <1>1 DEF SessionInv, LateRequests
<1> QED BY <1>1, <1>2 DEF NoticingInv, Noticed, Excused, LateIsOutOfSequence, InStep

LEMMA NextKeepsSession == SessionInv /\ [Next]_vars => SessionInv'
<1> SUFFICES ASSUME SessionInv, [Next]_vars PROVE SessionInv'
  OBVIOUS
<1>0. TypeOK
  BY DEF SessionInv
<1>1. CASE Heartbeat
  BY <1>0, <1>1, HeartbeatTypes, HeartbeatKeeps DEF SessionInv, NoticingInv
<1>2. CASE ReceiveReply
  BY <1>0, <1>2, ReceiveReplyTypes, ReceiveReplyKeeps DEF SessionInv, NoticingInv
<1>3. ASSUME NEW written \in BOOLEAN, HandleRequest(written) PROVE SessionInv'
  BY <1>0, <1>3, HandleRequestTypes, HandleRequestKeeps DEF SessionInv, NoticingInv
<1>4. CASE RefuseRequest
  BY <1>0, <1>4, RefuseRequestTypes, RefuseRequestKeeps DEF SessionInv, NoticingInv
<1>5. CASE HandleLate
  BY <1>0, <1>5, HandleLateTypes, HandleLateKeeps DEF SessionInv, NoticingInv
<1>6. CASE LoseRequest
  BY <1>0, <1>6, LoseRequestTypes, LoseRequestKeeps DEF SessionInv, NoticingInv
<1>7. CASE LoseReply
  BY <1>0, <1>7, LoseReplyTypes, LoseReplyKeeps DEF SessionInv, NoticingInv
<1>8. CASE QueueCommand
  BY <1>0, <1>8, QueueCommandTypes, QueueCommandKeeps DEF SessionInv, NoticingInv
<1>9. CASE RemoveClient
  BY <1>0, <1>9, RemoveClientTypes, RecordReplacedKeeps DEF SessionInv, NoticingInv
<1>10. CASE Approve
  BY <1>0, <1>10, ApproveTypes, RecordReplacedKeeps DEF SessionInv, NoticingInv
<1>11. CASE \/ WindowPasses
            \/ \E section \in Changing : Change(section)
            \/ UpdateCommsSettings
            \/ Settle
            \/ UNCHANGED vars
  BY <1>0, <1>11, BystanderTypes, BystanderKeeps DEF SessionInv, NoticingInv
<1> QED BY <1>1, <1>2, <1>3, <1>4, <1>5, <1>6, <1>7, <1>8, <1>9, <1>10, <1>11
    DEF Next, ConsumerStep, ProviderStep, NetworkStep, Disturbance

-----------------------------------------------------------------------------
(* Theorems *)

\* Between two turns of the heartbeat loop, what is missing from the record and
\* not about to be sent shows as a gap, or is being asked for.
LEMMA SessionIsNoticed == SessionInv => SessionInvariant
<1> SUFFICES ASSUME SessionInv PROVE SessionInvariant
  OBVIOUS
<1>1. ASSUME stage = "idle", known, Outstanding # {}, ~Excused PROVE behind > 0
  <2>1. ~(Kept \subseteq delivered \cup reporting_flags)
    BY <1>1 DEF Outstanding
  <2>2. behind # 0
    BY <1>1, <2>1 DEF SessionInv, Noticed, IdleNoticed
  <2>3. behind \in 0 .. Far
    BY DEF SessionInv, TypeOK
  <2> QED BY <2>2, <2>3, FarIsFar
<1>2. LossIsNoticed
  BY <1>1 DEF LossIsNoticed, Excused
<1> QED BY <1>2 DEF SessionInv, SessionInvariant

\* A report that did not get through is never forgotten in silence, whatever the
\* network loses, delays or lets through late, over either transport and with any
\* full-update controller (client_message_builder.py, state.py check_sequence_num).
THEOREM SessionInvariantAlways == Spec => []SessionInvariant
<1>1. Init => SessionInv
  BY InitSession
<1>2. SessionInv /\ [Next]_vars => SessionInv'
  BY NextKeepsSession
<1>3. SessionInv => SessionInvariant
  BY SessionIsNoticed
<1> QED BY <1>1, <1>2, <1>3, PTL DEF Spec

ResyncStep ==
    clean /\ late' = late /\ "resync" \notin Range(queue) /\ ~QueueCommand
        => "resync" \notin Range(queue') /\ (reply'.resync => reply.resync)

\* A message in sequence adds no command, and takes only one that was queued.
LEMMA NothingAddedInSequence ==
  ASSUME SessionInv, clean, "resync" \notin Range(queue),
         NEW written \in BOOLEAN, HandleRequest(written)
  PROVE  "resync" \notin Range(queue') /\ ~reply'.resync
<1>1. known /\ behind = 1 /\ message.age = 0 /\ queue \in Seq(Commands)
  BY DEF SessionInv, InStep, TypeOK, HandleRequest
<1>2. Queued(message) = queue
  BY <1>1 DEF Queued, Gap
<1>3. queue # <<>> => Head(queue) \in Range(queue) /\ Range(Tail(queue)) \subseteq Range(queue)
  BY <1>1, HeadAndTailAreQueued
<1>4. ~Asks(message)
  BY <1>2, <1>3 DEF Asks
<1>5. "resync" \notin Range(queue')
  BY <1>2, <1>3 DEF HandleRequest, Upsert
<1>6. ~reply'.resync
  <2>1. reply' = [resync |-> Asks(message), error |-> FALSE] \/ reply' = NoReply
    BY DEF HandleRequest, GiveUp
  <2> QED BY <1>4, <2>1 DEF NoReply
<1> QED BY <1>5, <1>6

LEMMA NextResyncsAfterLoss == SessionInv /\ [Next]_vars => [ResyncStep]_vars
<1> SUFFICES ASSUME SessionInv, Next, clean, late' = late, "resync" \notin Range(queue),
                    ~QueueCommand
             PROVE  "resync" \notin Range(queue') /\ (reply'.resync => reply.resync)
  BY DEF ResyncStep
<1>0. ~NoReply.resync /\ Range(<<>>) = {}
  BY DEF NoReply, Range
<1>1. CASE Heartbeat
  BY <1>1 DEF Heartbeat
<1>2. CASE ReceiveReply
  BY <1>0, <1>2 DEF ReceiveReply, provider
<1>3. ASSUME NEW written \in BOOLEAN, HandleRequest(written)
      PROVE "resync" \notin Range(queue') /\ ~reply'.resync
  BY <1>3, NothingAddedInSequence
<1>4. CASE RefuseRequest
  <2>1. known
    BY DEF SessionInv, InStep
  <2> QED BY <1>4, <2>1 DEF RefuseRequest, Admitted
<1>5. CASE HandleLate
  BY <1>5 DEF HandleLate
<1>6. CASE LoseRequest
  BY <1>0, <1>6 DEF LoseRequest, GiveUp, provider
<1>7. CASE LoseReply
  BY <1>0, <1>7 DEF LoseReply, GiveUp, provider
<1>8. CASE RemoveClient \/ Approve
  BY <1>0, <1>8 DEF RemoveClient, Approve, exchange
<1>9. CASE \/ WindowPasses
           \/ \E section \in Changing : Change(section)
           \/ UpdateCommsSettings
           \/ Settle
  BY <1>9 DEF WindowPasses, Change, UpdateCommsSettings, Settle, exchange, provider
<1> QED BY <1>1, <1>2, <1>3, <1>4, <1>5, <1>6, <1>7, <1>8, <1>9
    DEF Next, ConsumerStep, ProviderStep, NetworkStep, Disturbance

\* The provider itself asks an agent it knows for its full state only after a loss, also
\* over the fallback from WebSocket to HTTP (state.py check_sequence_num, client_mixins.py send);
\* an operator may ask at any time.
THEOREM ResyncOnlyAfterLossAlways == Spec => ResyncOnlyAfterLoss
<1>1. Init => SessionInv
  BY InitSession
<1>2. SessionInv /\ [Next]_vars => SessionInv'
  BY NextKeepsSession
<1>3. SessionInv /\ [Next]_vars => [ResyncStep]_vars
  BY NextResyncsAfterLoss
<1>4. [ResyncStep]_vars
        <=> [clean /\ late' = late /\ "resync" \notin Range(queue) /\ ~QueueCommand
               => "resync" \notin Range(queue') /\ (reply'.resync => reply.resync)]_vars
  BY DEF ResyncStep
<1> QED BY <1>1, <1>2, <1>3, <1>4, PTL DEF Spec, ResyncOnlyAfterLoss
=============================================================================
