--------------------------- MODULE MCOpampEndpoint ---------------------------
(* Instances of OpampEndpoint small enough for TLC. *)
EXTENDS OpampEndpoint

CONSTANTS a1, s1, s2, none, custom, h1, w1, w2, loop, unknown

MCAgentUids == {a1, unknown}
MCServerUids == {s1, s2}
MCActions == {custom}
MCNextActions == {"packageavailable"}
MCConfigs == {"cfg"}
MCFrequencies == {-1}
MCHttpHandlers == {h1}
MCWebSockets == {w1, w2}
MCSymmetry == Permutations(MCWebSockets) \cup Permutations(MCServerUids)

Anonymously ==
    unknown \in DOMAIN clients \cup addressed \cup {handlers[h].uid : h \in Handlers}

\* What operators have set, commands aside.
MCUnset ==
    [next_actions |-> <<>>, requested_config |-> NoConfig,
     heartbeat_frequency |-> DEFAULT_HEARTBEAT_FREQUENCY]
MCSettingsChanged ==
    {field \in DOMAIN MCUnset :
        \E id \in DOMAIN clients : clients[id][field] # MCUnset[field]}
    \cup {"default" : f \in {default_heartbeat} \ {DEFAULT_HEARTBEAT_FREQUENCY}}

MCSequenceNumbers ==
    {clients[id].message_id : id \in DOMAIN clients}
    \cup {pending_approvals[id].message_id : id \in DOMAIN pending_approvals}
MCReissued == (minted \cup DOMAIN clients \cup DOMAIN pending_approvals \cup blocked_agents)
              \ MCAgentUids

\* Bound: replies, over two WebSockets, of one agent that may be reissued a UID,
\* while nobody has to be approved;
MCReplies ==
    /\ ~human_in_loop /\ blocked_agents = {} /\ pending_approvals = <<>>
    /\ ~Anonymously
    /\ Cardinality(MCReissued) <= 1
    /\ DOMAIN replacements \cap DOMAIN clients = {}
    /\ 1 \notin MCSequenceNumbers
    /\ MCSettingsChanged = {}
\* or approvals and blocks, two commands or a next action, and messages without a
\* UID, over one;
MCAdmission ==
    /\ \/ MCSettingsChanged = {}
       \/ MCSettingsChanged = {"next_actions"} /\ Len(command_objects) <= 1
    /\ Anonymously => Len(command_objects) <= 1
    /\ 1 \notin MCSequenceNumbers
    /\ MCReissued = {}
    /\ \E w \in WebSocketHandlers : handlers[w].uid = NoUid
\* or records, over HTTP: an agent that was issued two UIDs, so that one can supersede
\* the other; or sequence numbers in and out of order, of up to three agents, and
\* approvals; or one setting at a time, as no method reads two of them.
MCRecords ==
    /\ ~Anonymously /\ blocked_agents = {}
    /\ \A w \in WebSocketHandlers : handlers[w] = IdleHandler
    /\ Len(command_objects) <= 1
    /\ \A obj \in DOMAIN command_objects : command_objects[obj].action = ForceResync
    /\ \/ /\ MCSettingsChanged = {} /\ ~human_in_loop /\ pending_approvals = <<>>
          /\ Cardinality(DOMAIN clients) <= 2 /\ 1 \notin MCSequenceNumbers
       \/ /\ MCSettingsChanged = {} /\ Cardinality(MCReissued) <= 1
          /\ human_in_loop \/ pending_approvals = <<>>
       \/ /\ Cardinality(MCSettingsChanged) <= 1
          /\ MCReissued = {} /\ pending_approvals = <<>>
MCBounds == MCReplies \/ MCAdmission \/ MCRecords
==============================================================================
