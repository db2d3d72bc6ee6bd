------------------------ MODULE MCAgentAuthorization ------------------------
EXTENDS AgentAuthorization
=============================================================================
