--------------------------- MODULE MCAgentHarness ---------------------------
EXTENDS AgentHarness

=============================================================================
