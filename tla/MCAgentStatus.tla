--------------------------- MODULE MCAgentStatus ---------------------------
(* Instances of AgentStatus for TLC: the agents are the ids 1 and 2. *)
EXTENDS AgentStatus
=============================================================================
