---------------------------- MODULE MCAgentSession ----------------------------
(* Instances of AgentSession small enough for TLC. *)
EXTENDS AgentSession

\* Bound: late requests with one controller, an operator's commands other than to
\* resync with another.
MCLateOrQueued ==
    /\ late # {} => controller = "SentCount"
    /\ "other" \in Range(queue) => controller = "TimeSend"
=============================================================================
