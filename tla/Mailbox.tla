------------------------------ MODULE Mailbox ------------------------------
(***************************************************************************)
(* Agent-to-agent mail.  Sibling `wsx` processes insert rows in the        *)
(* agent_messages table; each running dashboard drains the table on its    *)
(* tick and injects every queued message into the session of its target.   *)
(* An injection takes minutes, so it runs in a detached task that reports  *)
(* an outcome, which a later tick applies: only then is the row marked     *)
(* delivered.  Everything a dashboard knows about mail besides the rows is *)
(* in memory and lost when it stops.                                       *)
(*                                                                         *)
(* A dashboard's tick holds the App lock; it is cut here into the apply    *)
(* and poll step (Tick), the read of the table (ReadInbox) and the         *)
(* dispatch (Dispatch), in that fixed order, because injection tasks and   *)
(* the processes that share the table run between them.                    *)
(***************************************************************************)
EXTENDS Naturals, FiniteSets

CONSTANTS
  Dashboard,     \* the dashboards that may run against the database
  Agent,         \* agent instances, the rows of workspace_agents
  Nobody,        \* the target of an id not handed out yet
  Primary,       \* those that are the primary agent of their workspace
  MaxMsg,        \* bound: how many messages are sent
  MaxAttempts,   \* MAX_DELIVERY_ATTEMPTS
  MaxCrash       \* bound: how many times dashboards stop

ASSUME MailboxAssumption ==
  /\ Primary \subseteq Agent
  /\ Nobody \notin Agent
  /\ MaxMsg \in Nat
  /\ MaxAttempts \in Nat \ {0}
  /\ MaxCrash \in Nat

VARIABLES
  \* the database
  inbox,       \* message id -> state of its agent_messages row
  target,      \* message id -> the instance it is addressed to
  lastId,      \* the AUTOINCREMENT counter
  live,        \* the instances that have a workspace_agents row
  \* the memory of each dashboard
  up,          \* whether it runs
  pc,          \* where its tick is
  unseen,      \* whether data_version moved since it last looked
  retry,       \* whether next_mail_drain_ms is armed
  pending,     \* the queued ids its drain read
  delivering,  \* the ids with an injection in flight
  attempts,    \* delivery_attempts
  parked,      \* pending_acks: written, but the ack did not reach the table
  outcomes,    \* delivery_outcomes, reported by the tasks
  workers,     \* the detached injection tasks
  session,     \* its SessionManager's entry for each instance
  \* the environment and history
  crashes,     \* how many times a dashboard stopped
  reached,     \* the ids whose text reached some session
  written      \* how often a run of a dashboard saw its text written

MessageId == 1 .. MaxMsg

dbVars == <<inbox, target, lastId, live>>
memVars == <<retry, pending, delivering, attempts, parked, outcomes>>
historyVars == <<reached, written>>
vars == <<dbVars, up, pc, unseen, memVars, workers, session, crashes,
          historyVars>>

RowState == {"absent", "queued", "delivered", "dropped", "deleted"}
Outcome == [id : MessageId, written : BOOLEAN, attempted : BOOLEAN]
\* One task: what is left of its batch, whether an injection of it failed,
\* and whether the session it holds is gone.
Task == [target : Agent, items : SUBSET MessageId,
         failed : BOOLEAN, gone : BOOLEAN]

TypeOK ==
  /\ inbox \in [MessageId -> RowState]
  /\ target \in [MessageId -> Agent \cup {Nobody}]
  /\ lastId \in 0 .. MaxMsg
  /\ live \subseteq Agent
  /\ up \in [Dashboard -> BOOLEAN]
  /\ pc \in [Dashboard -> {"idle", "read", "dispatch"}]
  /\ unseen \in [Dashboard -> BOOLEAN]
  /\ retry \in [Dashboard -> BOOLEAN]
  /\ pending \in [Dashboard -> SUBSET MessageId]
  /\ delivering \in [Dashboard -> SUBSET MessageId]
  /\ attempts \in [Dashboard -> [MessageId -> 0 .. MaxAttempts]]
  /\ parked \in [Dashboard -> SUBSET MessageId]
  /\ outcomes \in [Dashboard -> SUBSET Outcome]
  /\ workers \in [Dashboard -> SUBSET Task]
  /\ session \in [Dashboard -> [Agent -> {"none", "running", "exited"}]]
  /\ crashes \in 0 .. MaxCrash
  /\ reached \subseteq MessageId
  /\ written \in [Dashboard -> [MessageId -> Nat]]

-----------------------------------------------------------------------------
(***************************************************************************)
(* A dashboard that starts: App::new arms the heartbeat, so that mail      *)
(* queued while wsx was down is drained, and snapshots data_version.       *)
(***************************************************************************)
Init ==
  /\ inbox = [i \in MessageId |-> "absent"]
  /\ target = [i \in MessageId |-> Nobody]
  /\ lastId = 0
  /\ live = Agent
  /\ up = [d \in Dashboard |-> TRUE]
  /\ pc = [d \in Dashboard |-> "idle"]
  /\ unseen = [d \in Dashboard |-> FALSE]
  /\ retry = [d \in Dashboard |-> TRUE]
  /\ pending = [d \in Dashboard |-> {}]
  /\ delivering = [d \in Dashboard |-> {}]
  /\ attempts = [d \in Dashboard |-> [i \in MessageId |-> 0]]
  /\ parked = [d \in Dashboard |-> {}]
  /\ outcomes = [d \in Dashboard |-> {}]
  /\ workers = [d \in Dashboard |-> {}]
  /\ session = [d \in Dashboard |-> [a \in Agent |-> "none"]]
  /\ crashes = 0
  /\ reached = {}
  /\ written = [d \in Dashboard |-> [i \in MessageId |-> 0]]

\* A commit by `who` moves data_version for every other dashboard that runs.
Committed(who) ==
  [d \in Dashboard |-> unseen[d] \/ (up[d] /\ d \notin who)]

\* The sessions a refresh leaves: those of removed instances are killed.
KeptSessions(d, known) ==
  [a \in Agent |-> IF a \in known THEN session[d][a] ELSE "none"]

\* The tasks of d after the sessions of `dead` are gone: a task keeps the
\* session it was started with, and only learns that it exited.
Orphaned(d, dead) ==
  {IF w.target \in dead THEN [w EXCEPT !.gone = TRUE] ELSE w : w \in workers[d]}

-----------------------------------------------------------------------------
(* Other processes: `wsx agent send` and `wsx agent remove`.               *)

\* enqueue_message: the foreign key refuses a target that has no row.
Send(a) ==
  /\ a \in live
  /\ lastId < MaxMsg
  /\ lastId' = lastId + 1
  /\ inbox' = [inbox EXCEPT ![lastId + 1] = "queued"]
  /\ target' = [target EXCEPT ![lastId + 1] = a]
  /\ unseen' = Committed({})
  /\ UNCHANGED <<live, up, pc, memVars, workers, session, crashes, historyVars>>

\* remove_workspace_agent: one transaction deletes the instance and its inbox.
RemoveRows(a) ==
  /\ a \in live \ Primary
  /\ live' = live \ {a}
  /\ inbox' = [i \in MessageId |-> IF target[i] = a THEN "deleted" ELSE inbox[i]]
  /\ UNCHANGED <<target, lastId>>

RemoveByCli(a) ==
  /\ RemoveRows(a)
  /\ unseen' = Committed({})
  /\ UNCHANGED <<up, pc, memVars, workers, session, crashes, historyVars>>

\* The agents panel kills the session, removes the row and refreshes.
RemoveByDashboard(d, a) ==
  /\ up[d] /\ pc[d] = "idle"
  /\ RemoveRows(a)
  /\ unseen' = Committed({d})
  /\ session' = [session EXCEPT ![d] = KeptSessions(d, live \ {a})]
  /\ workers' = [workers EXCEPT ![d] = Orphaned(d, (Agent \ live) \cup {a})]
  /\ UNCHANGED <<up, pc, memVars, crashes, historyVars>>

-----------------------------------------------------------------------------
(* The tick of a dashboard.                                                *)

\* A bug: every reported outcome is taken for a delivery.
WrittenIds_AnyOutcome(os) == {o.id : o \in os}

\* The ids among reported outcomes whose text was written.
WrittenIds(os) == {o.id : o \in {x \in os : x.written}}
FailedIds(os) == {o.id : o \in {x \in os : ~x.written}}

\* The failed ids that were really offered to the agent: the tail of a batch
\* abandoned after a failure is not charged an attempt.
ChargedIds(os) == {o.id : o \in {x \in os : ~x.written /\ x.attempted}}

\* Bugs: an id is released although its ack failed, or kept after a failure.
StillInFlight_ReleasesUnacked(d, os, ok) == delivering[d] \ {o.id : o \in os}
StillInFlight_KeepsFailed(d, os, ok) == delivering[d] \ ok

\* delivering after the outcomes os are applied, when the ids in ok were
\* marked delivered: a written id whose ack failed stays in flight.
StillInFlight(d, os, ok) == delivering[d] \ (ok \cup FailedIds(os))

\* A bug: an applied outcome does not bring the drain back.
DrainWanted_IgnoresOutcomes(os, due, external) == due \/ external

\* Whether this tick drains the inbox: outcomes were applied, the heartbeat
\* is due, or another process committed.
DrainWanted(os, due, external) == os # {} \/ due \/ external

\* apply_delivery_outcomes, mail_drain_due and poll_external_changes.
\* requeued: the parked acks whose backoff expired; ok: the acks that reached
\* the table; due: whether an armed heartbeat has expired; refreshed: whether
\* the refresh that a new data_version calls for succeeds.
TickWith(d, requeued, ok, due, refreshed) ==
  LET os == outcomes[d] \cup
            {[id |-> i, written |-> TRUE, attempted |-> TRUE] : i \in requeued}
      external == unseen[d] /\ refreshed
      acked == {i \in ok : inbox[i] = "queued"}
  IN /\ up[d] /\ pc[d] = "idle"
     /\ requeued \subseteq parked[d]
     /\ ok \subseteq WrittenIds(os)
     /\ due => retry[d]
     /\ inbox' = [i \in MessageId |-> IF i \in acked THEN "delivered" ELSE inbox[i]]
     /\ delivering' = [delivering EXCEPT ![d] = StillInFlight(d, os, ok)]
     /\ parked' = [parked EXCEPT ![d] = (@ \ requeued) \cup (WrittenIds(os) \ ok)]
     /\ attempts' = [attempts EXCEPT ![d] = [i \in MessageId |->
          IF i \in ok THEN 0
          ELSE IF i \in ChargedIds(os) THEN attempts[d][i] + 1
          ELSE attempts[d][i]]]
     /\ outcomes' = [outcomes EXCEPT ![d] = {}]
     /\ unseen' = [e \in Dashboard |->
          IF e = d THEN unseen[d] /\ ~refreshed
                   ELSE unseen[e] \/ (up[e] /\ acked # {})]
     /\ session' = IF external
                   THEN [session EXCEPT ![d] = KeptSessions(d, live)] ELSE session
     /\ workers' = IF external
                   THEN [workers EXCEPT ![d] = Orphaned(d, Agent \ live)] ELSE workers
     /\ pc' = [pc EXCEPT ![d] = IF DrainWanted(os, due, external) THEN "read" ELSE "idle"]
     /\ UNCHANGED <<target, lastId, live, up, retry, pending, crashes, historyVars>>

Tick(d) ==
  \E requeued \in SUBSET parked[d], due, refreshed \in BOOLEAN :
  \E ok \in SUBSET (WrittenIds(outcomes[d]) \cup requeued) :
    TickWith(d, requeued, ok, due, refreshed)

\* drain_agent_messages begins: it clears the heartbeat and reads the table.
ReadInbox(d) ==
  /\ up[d] /\ pc[d] = "read"
  /\ retry' = [retry EXCEPT ![d] = FALSE]
  /\ pending' = [pending EXCEPT ![d] = {i \in MessageId : inbox[i] = "queued"}]
  /\ pc' = [pc EXCEPT ![d] = "dispatch"]
  /\ UNCHANGED <<dbVars, up, unseen, delivering, attempts, parked, outcomes,
                 workers, session, crashes, historyVars>>

\* The read fails: the heartbeat is the only thing that brings it back.
ReadFails(d) ==
  /\ up[d] /\ pc[d] = "read"
  /\ retry' = [retry EXCEPT ![d] = TRUE]
  /\ pc' = [pc EXCEPT ![d] = "idle"]
  /\ UNCHANGED <<dbVars, up, unseen, pending, delivering, attempts, parked,
                 outcomes, workers, session, crashes, historyVars>>

\* target_in_flight: an injection task already runs against a.
TargetInFlight(d, a) == \E i \in delivering[d] : target[i] = a

\* A bug: no ceiling on the attempts.
Deliverable_NoCeiling(d) == {i \in pending[d] : i \notin delivering[d]}

\* deliverable: neither in flight nor past the attempt ceiling.
Deliverable(d) ==
  {i \in pending[d] : i \notin delivering[d] /\ attempts[d][i] < MaxAttempts}

\* ensure_instance_session, and what the drain makes of its answer:
\* "session" (one is there, or is spawned), "drop" (the agent's binary or its
\* worktree is missing), "retry" (refused, failed, or still no session).
\* An existing entry answers "session" whether its process runs or exited.
EnsureAnswers(d, a) ==
  IF session[d][a] # "none" THEN {"session", "retry"}
  ELSE IF a \in live THEN {"session", "drop", "retry"} ELSE {"retry"}

\* The batch of one target.
Batch(d, a) == {i \in Deliverable(d) : target[i] = a}

\* The targets a drain may start a task for.
Free(d) == {a \in Agent : Batch(d, a) # {} /\ ~TargetInFlight(d, a)}

\* A bug: a failed mark_dropped does not re-arm the heartbeat.
Rearmed_IgnoresLostDrops(d, answer, lost) == \E a \in Free(d) : answer[a] = "retry"

\* The heartbeat after a dispatch: armed when a target is to be retried, and
\* when retiring a message failed.
Rearmed(d, answer, lost) == lost # {} \/ \E a \in Free(d) : answer[a] = "retry"

\* The rest of drain_agent_messages: one task per free target, started with
\* its whole batch.  answer: what ensure_instance_session gives for each free
\* target; lost: the ids whose mark_dropped failed.
DispatchWith(d, answer, lost) ==
  LET served == {a \in Free(d) : answer[a] = "session"}
      retired == UNION {Batch(d, a) : a \in {b \in Free(d) : answer[b] = "drop"}}
      dropped == {i \in retired \ lost : inbox[i] \in {"queued", "delivered"}}
  IN /\ up[d] /\ pc[d] = "dispatch"
     /\ \A a \in Free(d) : answer[a] \in EnsureAnswers(d, a)
     /\ lost \subseteq retired
     /\ inbox' = [i \in MessageId |-> IF i \in dropped THEN "dropped" ELSE inbox[i]]
     /\ unseen' = [e \in Dashboard |-> unseen[e] \/ (e # d /\ up[e] /\ dropped # {})]
     /\ retry' = [retry EXCEPT ![d] = @ \/ Rearmed(d, answer, lost)]
     /\ delivering' = [delivering EXCEPT ![d] =
          @ \cup UNION {Batch(d, a) : a \in served}]
     /\ workers' = [workers EXCEPT ![d] = @ \cup
          {[target |-> a, items |-> Batch(d, a), failed |-> FALSE,
            gone |-> session[d][a] = "exited"] : a \in served}]
     /\ session' = [session EXCEPT ![d] = [a \in Agent |->
          IF a \in served /\ session[d][a] = "none" THEN "running" ELSE session[d][a]]]
     /\ pending' = [pending EXCEPT ![d] = {}]
     /\ pc' = [pc EXCEPT ![d] = "idle"]
     /\ UNCHANGED <<target, lastId, live, up, attempts, parked, outcomes,
                    crashes, historyVars>>

Dispatch(d) ==
  \E answer \in [Free(d) -> {"session", "drop", "retry"}], lost \in SUBSET pending[d] :
    DispatchWith(d, answer, lost)

-----------------------------------------------------------------------------
(* The detached injection task of one target, and the session it holds.    *)

\* A bug: the newest message of a batch is written first.
IsFirst_Newest(i, S) == \A j \in S : i >= j

\* Messages of a batch are written in id order.
IsFirst(i, S) == \A j \in S : i <= j

\* What one turn of the task's loop may report.  After a failure the tail of
\* the batch is "abandoned"; else send_text_when_settled wrote the text, or
\* failed: the process has exited, DELIVERY_TIMEOUT_MS went by, or the Enter
\* was not acknowledged in time, in which case the text may still land.
TurnResults(w) ==
  IF w.failed THEN {"abandoned"}
  ELSE IF w.gone THEN {"failed"} ELSE {"written", "failed", "landed late"}

\* One turn of the loop: the next message is tried, its outcome reported.
TurnWith(d, w, i, result) ==
  LET rest == [w EXCEPT !.items = @ \ {i}, !.failed = result # "written"]
  IN /\ w \in workers[d] /\ i \in w.items
     /\ IsFirst(i, w.items)
     /\ outcomes' = [outcomes EXCEPT ![d] = @ \cup
          {[id |-> i, written |-> result = "written",
            attempted |-> result # "abandoned"]}]
     /\ workers' = [workers EXCEPT ![d] = (@ \ {w}) \cup
          (IF rest.items = {} THEN {} ELSE {rest})]
     /\ reached' = IF result \in {"written", "landed late"} THEN reached \cup {i}
                   ELSE reached
     /\ written' = IF result = "written"
                   THEN [written EXCEPT ![d][i] = @ + 1] ELSE written
     /\ UNCHANGED <<dbVars, up, pc, unseen, retry, pending, delivering, attempts,
                    parked, session, crashes>>

Turn(d) ==
  \E w \in workers[d] : \E i \in w.items, result \in TurnResults(w) :
    TurnWith(d, w, i, result)

\* The agent process exits; its entry stays in the SessionManager.
SessionExits(d, a) ==
  /\ session[d][a] = "running"
  /\ session' = [session EXCEPT ![d][a] = "exited"]
  /\ workers' = [workers EXCEPT ![d] = Orphaned(d, {a})]
  /\ UNCHANGED <<dbVars, up, pc, unseen, memVars, crashes, historyVars>>

\* Sharing restarts the sessions of a workspace: each entry is removed or
\* forgotten, and the respawn succeeds or leaves none.
RestartSession(d, a) ==
  /\ up[d] /\ pc[d] = "idle" /\ a \in live
  /\ session[d][a] # "none"
  /\ \E s \in {"none", "running"} : session' = [session EXCEPT ![d][a] = s]
  /\ workers' = [workers EXCEPT ![d] = Orphaned(d, {a})]
  /\ UNCHANGED <<dbVars, up, pc, unseen, memVars, crashes, historyVars>>

\* The dashboard quits or dies: its memory, sessions and tasks are gone.
Crash(d) ==
  /\ up[d]
  /\ crashes < MaxCrash
  /\ crashes' = crashes + 1
  /\ up' = [up EXCEPT ![d] = FALSE]
  /\ pc' = [pc EXCEPT ![d] = "idle"]
  /\ unseen' = [unseen EXCEPT ![d] = FALSE]
  /\ retry' = [retry EXCEPT ![d] = FALSE]
  /\ pending' = [pending EXCEPT ![d] = {}]
  /\ delivering' = [delivering EXCEPT ![d] = {}]
  /\ attempts' = [attempts EXCEPT ![d] = [i \in MessageId |-> 0]]
  /\ parked' = [parked EXCEPT ![d] = {}]
  /\ outcomes' = [outcomes EXCEPT ![d] = {}]
  /\ workers' = [workers EXCEPT ![d] = {}]
  /\ session' = [session EXCEPT ![d] = [a \in Agent |-> "none"]]
  /\ written' = [written EXCEPT ![d] = [i \in MessageId |-> 0]]
  /\ UNCHANGED <<dbVars, reached>>

\* App::new: the first tick finds the heartbeat due.
Start(d) ==
  /\ ~up[d]
  /\ up' = [up EXCEPT ![d] = TRUE]
  /\ retry' = [retry EXCEPT ![d] = TRUE]
  /\ UNCHANGED <<dbVars, pc, unseen, pending, delivering, attempts, parked,
                 outcomes, workers, session, crashes, historyVars>>

Next ==
  \/ \E a \in Agent : Send(a) \/ RemoveByCli(a)
  \/ \E d \in Dashboard, a \in Agent :
       RemoveByDashboard(d, a) \/ SessionExits(d, a) \/ RestartSession(d, a)
  \/ \E d \in Dashboard :
       \/ Tick(d) \/ ReadInbox(d) \/ ReadFails(d) \/ Dispatch(d)
       \/ Turn(d) \/ Crash(d) \/ Start(d)

Spec == Init /\ [][Next]_vars

-----------------------------------------------------------------------------
(* Safety.                                                                 *)

\* While a dashboard runs it never writes a message it already wrote, however
\* many acks fail, batches are abandoned and sessions restart: an id stays in
\* `delivering` until its row is marked (apply_delivery_outcomes).
NoReinjection == \A d \in Dashboard, i \in MessageId : written[d][i] <= 1

\* Two injection tasks never run against one session, so that no message's
\* Enter lands in another one's text (target_in_flight).
OneWorkerPerTarget ==
  \A d \in Dashboard : \A w1, w2 \in workers[d] :
    w1.target = w2.target => w1 = w2

\* An id in flight is in the batch of one task, in one reported outcome or in
\* one parked ack: never in two of them, which would apply it twice, nor in
\* none, which would block its target for the life of the dashboard.
TaskIds(d) == UNION {w.items : w \in workers[d]}
OutcomeIds(d) == WrittenIds(outcomes[d]) \cup FailedIds(outcomes[d])
OneOwnerInFlight ==
  \A d \in Dashboard :
    /\ delivering[d] = TaskIds(d) \cup OutcomeIds(d) \cup parked[d]
    /\ TaskIds(d) \cap (OutcomeIds(d) \cup parked[d]) = {}
    /\ OutcomeIds(d) \cap parked[d] = {}
    /\ WrittenIds(outcomes[d]) \cap FailedIds(outcomes[d]) = {}

\* No mail is forgotten: a message this dashboard could still deliver has
\* something left that brings the drain back to it, the heartbeat, a commit
\* not looked at, or an outcome that is or will be reported for its target.
Deliverer(d, i) ==
  up[d] /\ inbox[i] = "queued" /\ i \notin delivering[d] /\ attempts[d][i] < MaxAttempts
NoForgottenMail ==
  \A d \in Dashboard, i \in MessageId :
    Deliverer(d, i) =>
      \/ pc[d] = "read"
      \/ pc[d] = "dispatch" /\ i \in pending[d]
      \/ retry[d]
      \/ unseen[d]
      \/ TargetInFlight(d, target[i])

\* A row says delivered only if the text reached a session (AgentMessage::
\* reached_agent), across every crash, failed ack and second dashboard.
DeliveredReachedAgent ==
  \A i \in MessageId : inbox[i] = "delivered" => i \in reached

\* Messages to one agent are written in the order they were sent: one is
\* passed over only once this dashboard wrote it or gave up on it.
WritesInOrder ==
  [][\A d \in Dashboard : \A i, j \in MessageId :
       /\ written'[d][j] > written[d][j]
       /\ i < j /\ target[i] = target[j] /\ inbox[i] = "queued"
       => written[d][i] > 0 \/ attempts[d][i] = MaxAttempts]_vars

\* The inbox is an at-least-once queue (MailQueue).
Queue == INSTANCE MailQueue WITH inbox <- inbox, reached <- reached, MaxMsg <- MaxMsg
ImplementsQueue == Queue!Spec

-----------------------------------------------------------------------------
(***************************************************************************)
(* Liveness.  The run loop ticks every 125 ms for as long as a dashboard   *)
(* runs, and injection tasks always return (their waits have timeouts).    *)
(* Backoffs and the heartbeat expire, and a write, a read or a spawn that  *)
(* fails does so transiently: tried again and again, it works some time.   *)
(***************************************************************************)
GoodTick(d) ==
  TickWith(d, parked[d], WrittenIds(outcomes[d]) \cup parked[d], retry[d], TRUE)
GoodDispatch(d) ==
  \E answer \in [Free(d) -> {"session", "drop", "retry"}] :
    /\ \A a \in Free(d) : answer[a] = "retry" => EnsureAnswers(d, a) = {"retry"}
    /\ DispatchWith(d, answer, {})

Fairness ==
  \A d \in Dashboard :
    /\ SF_vars(GoodTick(d))
    /\ SF_vars(ReadInbox(d))
    /\ WF_vars(ReadInbox(d) \/ ReadFails(d))
    /\ SF_vars(GoodDispatch(d))
    /\ WF_vars(Dispatch(d))
    /\ WF_vars(Turn(d))
    /\ WF_vars(Start(d))

FairSpec == Spec /\ Fairness

\* Every queued message is settled in the end, or a dashboard gave up on it
\* after MAX_DELIVERY_ATTEMPTS: none waits for a wake-up that never comes.
MailSettles ==
  \A i \in MessageId :
    inbox[i] = "queued" ~>
      inbox[i] # "queued" \/ \E d \in Dashboard : attempts[d][i] = MaxAttempts

\* No target stays blocked: an id does not stay in flight for ever.
FlightEnds ==
  \A d \in Dashboard, i \in MessageId : i \in delivering[d] ~> i \notin delivering[d]

-----------------------------------------------------------------------------
(***************************************************************************)
(* A claim of the repository that the code does not meet.                  *)
(***************************************************************************)

\* The dashboard delivers a message by "starting the agent first if needed":
\* what it dispatches, it dispatches to a running session.
StartsAgentFirst ==
  [][\A d \in Dashboard : \A i \in delivering'[d] \ delivering[d] :
       session'[d][target[i]] = "running"]_vars
=============================================================================
