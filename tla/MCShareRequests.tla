-------------------------- MODULE MCShareRequests --------------------------
(* Instances of ShareRequests for TLC: one workspace, time in a few units. *)
EXTENDS ShareRequests, TLC

CONSTANT w1

\* Every instance belongs to the one workspace.
MCHome == [a \in Agent |-> w1]

\* The dashboards play the same part: symmetric, in the runs without liveness.
Symmetry == Permutations(Dashboard)
=============================================================================
