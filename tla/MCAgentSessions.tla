--------------------------- MODULE MCAgentSessions ---------------------------
(* Small instances of AgentSessions for TLC. *)
EXTENDS AgentSessions, TLC

\* Workspaces, peers and slugs each play the same part.
Symmetry == Permutations(Workspace) \cup Permutations(Peer) \cup Permutations(Slug)
=============================================================================
