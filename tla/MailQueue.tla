----------------------------- MODULE MailQueue -----------------------------
(***************************************************************************)
(* What the agent inbox promises its senders, whatever dashboards,         *)
(* injection tasks and crashes stand between a message and its reader:     *)
(* ids are handed out in order, a row is recorded as delivered only when   *)
(* its text reached a session, and a row that was settled never comes back *)
(* to the queue.  Delivery is at least once, so reaching the agent and     *)
(* being recorded as delivered are two different steps.                    *)
(***************************************************************************)
EXTENDS Naturals

CONSTANT MaxMsg     \* the highest message id a behaviour hands out

VARIABLES inbox,    \* the state of the row of each id
          reached   \* the ids whose text reached an agent's session

MessageId == 1 .. MaxMsg
RowState == {"absent", "queued", "delivered", "dropped", "deleted"}

Init ==
  /\ inbox = [i \in MessageId |-> "absent"]
  /\ reached = {}

\* Ids are handed out in order, one per message.
Send(i) ==
  /\ inbox[i] = "absent"
  /\ \A j \in MessageId : j < i => inbox[j] # "absent"
  /\ inbox' = [inbox EXCEPT ![i] = "queued"]
  /\ UNCHANGED reached

\* The text of a message that was sent reaches the agent (again, maybe).
Reach(i) ==
  /\ inbox[i] # "absent"
  /\ reached' = reached \cup {i}
  /\ UNCHANGED inbox

\* Only messages that reached their agent are recorded as delivered.
Deliver(S) ==
  /\ \A i \in S : inbox[i] = "queued" /\ i \in reached
  /\ inbox' = [i \in MessageId |-> IF i \in S THEN "delivered" ELSE inbox[i]]
  /\ UNCHANGED reached

\* Messages are retired; one that another dashboard delivered meanwhile too.
Drop(S) ==
  /\ \A i \in S : inbox[i] \in {"queued", "delivered"}
  /\ inbox' = [i \in MessageId |-> IF i \in S THEN "dropped" ELSE inbox[i]]
  /\ UNCHANGED reached

\* The rows of a removed agent go with it.
Discard(S) ==
  /\ \A i \in S : inbox[i] # "absent"
  /\ inbox' = [i \in MessageId |-> IF i \in S THEN "deleted" ELSE inbox[i]]
  /\ UNCHANGED reached

Next ==
  \/ \E i \in MessageId : Send(i) \/ Reach(i)
  \/ \E S \in SUBSET MessageId : Deliver(S) \/ Drop(S) \/ Discard(S)

vars == <<inbox, reached>>

Spec == Init /\ [][Next]_vars
=============================================================================
