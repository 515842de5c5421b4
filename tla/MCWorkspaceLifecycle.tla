------------------------ MODULE MCWorkspaceLifecycle ------------------------
(* Instances of WorkspaceLifecycle for TLC. *)
EXTENDS WorkspaceLifecycle
=============================================================================
