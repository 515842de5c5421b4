---------------------------- MODULE MCEventTail ----------------------------
(* An instance of EventTail for TLC: whose transcripts there are.          *)
EXTENDS EventTail, TLC

CONSTANTS f1, f2, a1, a2

MCOwner == f1 :> a1 @@ f2 :> a2
=============================================================================
