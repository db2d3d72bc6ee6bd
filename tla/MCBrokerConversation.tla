------------------------ MODULE MCBrokerConversation ------------------------
EXTENDS BrokerConversation

\* What the names of two tools fit.
NameFits(tool) == IF tool = "otel_agents" THEN {"agents"} ELSE {"restart"}
=============================================================================
