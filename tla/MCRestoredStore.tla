---------------------------- MODULE MCRestoredStore ----------------------------
(* Instances of RestoredStore small enough for TLC. *)
EXTENDS RestoredStore

CONSTANTS a1, s1, g1, none

MCAgentUids == {a1}
MCServerUids == {s1, g1}
MCMisread == [uid \in {s1} |-> g1]
MCNothing == {}
\* Operators can ask for the full state too, as often as they like.
MCActions == {ForceResync}
\* The whole record, one of an earlier version, and one nobody can place.
MCLacking == {{}, {"message_id", "commands"}, {"client_id"}}
\* A snapshot that no restart is left to read makes no difference.
MCUnread ==
    <<vars, restarts, IF restarts < MaxRestarts THEN snapshot ELSE NoSnapshot>>
\* Bound: nobody is blocked, as blocking changes nothing the other methods read;
\* after a save only records change: the restart forgets the rest; and a second
\* command before the restart is for the only agent, which has not been identified.
MCShortly ==
    /\ blocked_agents = {}
    /\ \/ Len(command_objects) <= 1 + restarts
       \/ /\ minted \cup DOMAIN pending_approvals = {}
          /\ Cardinality(DOMAIN clients) <= 1
    /\ restarts < MaxRestarts /\ snapshot # NoSnapshot =>
          /\ DOMAIN clients = DOMAIN snapshot.clients
          /\ pending_approvals = snapshot.pending_approvals
          /\ replacements = snapshot.replacements
          /\ command_objects = snapshot.command_objects
================================================================================
