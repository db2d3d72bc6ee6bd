--------------------------- MODULE MCBrokerSessions ---------------------------
(* Instances of BrokerSessions small enough for TLC. *)
EXTENDS BrokerSessions
=============================================================================
