--------------------------- MODULE MCAgentSession ---------------------------
(* The agent sessions of one task with a few backends and agents.          *)
EXTENDS AgentSession
=============================================================================
