---------------------------- MODULE MCPtyWrites ----------------------------
(* An instance of PtyWrites for TLC: its constants are in pty_writes.cfg.  *)
EXTENDS PtyWrites
=============================================================================
