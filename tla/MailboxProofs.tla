--------------------------- MODULE MailboxProofs ---------------------------
(***************************************************************************)
(* Proofs about Mailbox, for every set of dashboards and agents and every  *)
(* bound.  The invariant IInv below is inductive; its parts are the        *)
(* properties the runs check and what makes them inductive.                *)
(***************************************************************************)
EXTENDS Mailbox, TLAPS

-----------------------------------------------------------------------------
(* The inductive invariant.                                                *)

\* Rows exist for the ids handed out, and nothing in flight, read or written
\* has an id that was not handed out.
IdsHandedOut ==
  /\ \A i \in MessageId :
       /\ inbox[i] = "absent" <=> i > lastId
       /\ target[i] \in Agent <=> i <= lastId
  /\ \A d \in Dashboard :
       /\ \A i \in delivering[d] \cup pending[d] : i <= lastId
       /\ \A i \in MessageId : written[d][i] > 0 => i <= lastId

\* A task has a batch for its own target.
TasksMatchTarget ==
  \A d \in Dashboard : \A w \in workers[d] :
    w.items # {} /\ \A i \in w.items : target[i] = w.target

\* What is in flight is below the ceiling: only a failure moves the count,
\* and it ends the flight.
BelowCeiling ==
  \A d \in Dashboard : \A i \in delivering[d] : attempts[d][i] < MaxAttempts

\* Where a text this dashboard wrote can be: with its ack outstanding, or
\* with a row that is no longer queued.  So no task is about to write it, and
\* a drain that read it as queued finds it in flight.
WrittenSettles ==
  \A d \in Dashboard, i \in MessageId :
    /\ i \in TaskIds(d) => written[d][i] = 0
    /\ written[d][i] > 0 =>
         inbox[i] # "queued" \/ i \in WrittenIds(outcomes[d]) \cup parked[d]
    /\ written[d][i] > 0 /\ pc[d] = "dispatch" /\ i \in pending[d] =>
         i \in delivering[d]

\* A reported write and a parked ack are of a text that reached a session.
WrittenReached ==
  \A d \in Dashboard : WrittenIds(outcomes[d]) \cup parked[d] \subseteq reached

IInv ==
  /\ TypeOK
  /\ IdsHandedOut
  /\ TasksMatchTarget
  /\ OneWorkerPerTarget
  /\ OneOwnerInFlight
  /\ BelowCeiling
  /\ NoReinjection
  /\ WrittenSettles
  /\ WrittenReached
  /\ DeliveredReachedAgent
  /\ NoForgottenMail

-----------------------------------------------------------------------------
(* Initial states and the steps of other processes.                        *)

LEMMA InitIInv == Init => IInv
<1> SUFFICES ASSUME Init PROVE IInv
  OBVIOUS
<1> USE MailboxAssumption DEF Init, MessageId
<1>1. TypeOK
  BY DEF TypeOK, RowState, Outcome, Task
<1>2. IdsHandedOut
  BY DEF IdsHandedOut
<1>3. \A d \in Dashboard : TaskIds(d) = {} /\ WrittenIds(outcomes[d]) = {}
                          /\ FailedIds(outcomes[d]) = {}
  BY DEF TaskIds, WrittenIds, FailedIds
<1>4. TasksMatchTarget /\ OneWorkerPerTarget /\ BelowCeiling
  BY DEF TasksMatchTarget, OneWorkerPerTarget, BelowCeiling
<1>5. OneOwnerInFlight
  BY <1>3 DEF OneOwnerInFlight, OutcomeIds
<1>6. NoReinjection /\ WrittenSettles /\ WrittenReached
  BY <1>3 DEF NoReinjection, WrittenSettles, WrittenReached
<1>7. DeliveredReachedAgent /\ NoForgottenMail
  BY DEF DeliveredReachedAgent, NoForgottenMail, Deliverer
<1> QED
  BY <1>1, <1>2, <1>4, <1>5, <1>6, <1>7 DEF IInv

LEMMA SendIInv ==
  ASSUME IInv, NEW a \in Agent, Send(a)
  PROVE  IInv'
<1> USE MailboxAssumption
<1>1. TypeOK'
  BY DEF IInv, TypeOK, Send, MessageId, RowState, Committed, memVars, historyVars
<1>2. IdsHandedOut'
  BY DEF IInv, TypeOK, IdsHandedOut, Send, MessageId, memVars, historyVars
<1>3. UNCHANGED <<up, pc, memVars, workers, historyVars>>
  BY DEF Send
<1>4. \A i \in MessageId : i <= lastId => inbox'[i] = inbox[i] /\ target'[i] = target[i]
  BY DEF IInv, TypeOK, Send, MessageId
<1>5. \A d \in Dashboard : TaskIds(d)' = TaskIds(d) /\ OutcomeIds(d)' = OutcomeIds(d)
                          /\ WrittenIds(outcomes[d])' = WrittenIds(outcomes[d])
                          /\ FailedIds(outcomes[d])' = FailedIds(outcomes[d])
  BY <1>3 DEF TaskIds, OutcomeIds, WrittenIds, FailedIds, memVars
<1>6. OneOwnerInFlight' /\ OneWorkerPerTarget' /\ BelowCeiling' /\ NoReinjection' /\ WrittenReached'
  BY <1>3, <1>5 DEF IInv, OneOwnerInFlight, OneWorkerPerTarget, BelowCeiling,
     NoReinjection, WrittenReached, memVars, historyVars
<1>7. TasksMatchTarget'
  <2>1. \A d \in Dashboard : \A w \in workers[d] : \A i \in w.items : i \in delivering[d]
    BY DEF IInv, OneOwnerInFlight, TaskIds
  <2>2. \A d \in Dashboard : \A w \in workers[d] : \A i \in w.items : target'[i] = target[i]
    BY <1>4, <2>1 DEF IInv, IdsHandedOut, TypeOK
  <2> QED
    BY <1>3, <2>2 DEF IInv, TasksMatchTarget
<1>8. WrittenSettles'
  BY <1>3, <1>4, <1>5 DEF IInv, WrittenSettles, IdsHandedOut, TypeOK, memVars, historyVars
<1>9. DeliveredReachedAgent'
  BY <1>3 DEF IInv, TypeOK, DeliveredReachedAgent, Send, MessageId, historyVars
<1>10. NoForgottenMail'
  BY <1>3 DEF IInv, TypeOK, NoForgottenMail, Deliverer, Send, Committed
<1> QED
  BY <1>1, <1>2, <1>6, <1>7, <1>8, <1>9, <1>10 DEF IInv

\* Killing sessions leaves every task its target and what is left of its batch.
LEMMA OrphanedFrame ==
  ASSUME IInv, NEW d \in Dashboard, NEW dead,
         workers' = [workers EXCEPT ![d] = Orphaned(d, dead)],
         target' = target
  PROVE  /\ workers' \in [Dashboard -> SUBSET Task]
         /\ \A e \in Dashboard : TaskIds(e)' = TaskIds(e)
         /\ OneWorkerPerTarget'
         /\ TasksMatchTarget'
<1> DEFINE Orphan(w) == IF w.target \in dead THEN [w EXCEPT !.gone = TRUE] ELSE w
<1>1. workers \in [Dashboard -> SUBSET Task]
  BY DEF IInv, TypeOK
<1>2. \A w \in workers[d] : /\ Orphan(w) \in Task
                            /\ Orphan(w).target = w.target
                            /\ Orphan(w).items = w.items
  <2> SUFFICES ASSUME NEW w \in Task
               PROVE  Orphan(w) \in Task /\ Orphan(w).target = w.target
                                        /\ Orphan(w).items = w.items
    BY <1>1
  <2>1. [w EXCEPT !.gone = TRUE] \in Task
    BY DEF Task
  <2>2. [w EXCEPT !.gone = TRUE].target = w.target /\ [w EXCEPT !.gone = TRUE].items = w.items
    BY DEF Task
  <2> QED
    BY <2>1, <2>2
<1>3. workers'[d] = {Orphan(w) : w \in workers[d]}
  BY <1>1 DEF Orphaned
<1>4. \A e \in Dashboard : e # d => workers'[e] = workers[e]
  BY <1>1
<1> HIDE DEF Orphan
<1>5. workers' \in [Dashboard -> SUBSET Task]
  BY <1>1, <1>2, <1>3, <1>4
<1>6. TaskIds(d)' = TaskIds(d)
  BY <1>2, <1>3 DEF TaskIds
<1>7. \A e \in Dashboard : TaskIds(e)' = TaskIds(e)
  BY <1>4, <1>6 DEF TaskIds
<1>8. OneWorkerPerTarget'
  <2> SUFFICES ASSUME NEW e \in Dashboard, NEW w1 \in workers'[e], NEW w2 \in workers'[e],
                      w1.target = w2.target
               PROVE  w1 = w2
    BY DEF OneWorkerPerTarget
  <2>1. CASE e = d
    <3>1. PICK v1 \in workers[d] : w1 = Orphan(v1)
      BY <1>3, <2>1
    <3>2. PICK v2 \in workers[d] : w2 = Orphan(v2)
      BY <1>3, <2>1
    <3>3. v1.target = v2.target
      BY <1>2, <3>1, <3>2
    <3> QED
      BY <3>1, <3>2, <3>3 DEF IInv, OneWorkerPerTarget
  <2>2. CASE e # d
    BY <1>4, <2>2 DEF IInv, OneWorkerPerTarget
  <2> QED
    BY <2>1, <2>2
<1>9. TasksMatchTarget'
  BY <1>2, <1>3, <1>4 DEF IInv, TasksMatchTarget
<1> QED
  BY <1>5, <1>7, <1>8, <1>9

\* A step that leaves the tasks' batches, the outcomes and the acks alone.
LEMMA SameFlight ==
  ASSUME IInv, UNCHANGED <<delivering, attempts, parked, outcomes, historyVars>>,
         \A e \in Dashboard : TaskIds(e)' = TaskIds(e)
  PROVE  /\ OneOwnerInFlight' /\ BelowCeiling' /\ NoReinjection' /\ WrittenReached'
         /\ \A e \in Dashboard : WrittenIds(outcomes[e])' = WrittenIds(outcomes[e])
<1>1. \A e \in Dashboard : /\ WrittenIds(outcomes[e])' = WrittenIds(outcomes[e])
                          /\ FailedIds(outcomes[e])' = FailedIds(outcomes[e])
                          /\ OutcomeIds(e)' = OutcomeIds(e)
  BY DEF WrittenIds, FailedIds, OutcomeIds
<1>2. OneOwnerInFlight'
  BY <1>1 DEF IInv, OneOwnerInFlight
<1> QED
  BY <1>1, <1>2 DEF IInv, BelowCeiling, NoReinjection, WrittenReached, historyVars

\* Removing an instance deletes rows, and touches nothing in flight.
LEMMA RemoveRowsFrame ==
  ASSUME IInv, NEW a \in Agent, RemoveRows(a)
  PROVE  /\ inbox' \in [MessageId -> RowState]
         /\ \A i \in MessageId : inbox'[i] = inbox[i] \/ (inbox'[i] = "deleted" /\ inbox[i] # "absent")
         /\ live' \subseteq Agent
<1>1. \A i \in MessageId : target[i] = a => inbox[i] # "absent"
  BY MailboxAssumption DEF IInv, TypeOK, IdsHandedOut, MessageId
<1> QED
  BY <1>1 DEF IInv, TypeOK, RemoveRows, RowState

LEMMA RemoveByCliIInv ==
  ASSUME IInv, NEW a \in Agent, RemoveByCli(a)
  PROVE  IInv'
<1>1. RemoveRows(a) /\ UNCHANGED <<target, lastId, up, pc, memVars, workers, session, crashes, historyVars>>
  BY DEF RemoveByCli, RemoveRows
<1>2. /\ inbox' \in [MessageId -> RowState]
      /\ \A i \in MessageId : inbox'[i] = inbox[i] \/ (inbox'[i] = "deleted" /\ inbox[i] # "absent")
      /\ live' \subseteq Agent
  BY <1>1, RemoveRowsFrame
<1>3. TypeOK'
  BY <1>1, <1>2 DEF IInv, TypeOK, RemoveByCli, Committed, memVars, historyVars
<1>4. IdsHandedOut'
  BY <1>1, <1>2 DEF IInv, IdsHandedOut, memVars, historyVars
<1>5. \A e \in Dashboard : TaskIds(e)' = TaskIds(e)
  BY <1>1 DEF TaskIds
<1>6. TasksMatchTarget' /\ OneWorkerPerTarget'
  BY <1>1 DEF IInv, TasksMatchTarget, OneWorkerPerTarget
<1>7. /\ OneOwnerInFlight' /\ BelowCeiling' /\ NoReinjection' /\ WrittenReached'
      /\ \A e \in Dashboard : WrittenIds(outcomes[e])' = WrittenIds(outcomes[e])
  BY <1>1, <1>5, SameFlight DEF memVars
<1>8. WrittenSettles'
  BY <1>1, <1>2, <1>5, <1>7 DEF IInv, WrittenSettles, memVars, historyVars
<1>9. DeliveredReachedAgent'
  BY <1>1, <1>2 DEF IInv, DeliveredReachedAgent, historyVars
<1>10. \A d \in Dashboard, i \in MessageId : TargetInFlight(d, target[i])' = TargetInFlight(d, target[i])
  BY <1>1 DEF TargetInFlight, memVars
<1>11. NoForgottenMail'
  BY <1>1, <1>2, <1>10 DEF IInv, TypeOK, NoForgottenMail, Deliverer, RemoveByCli, Committed, memVars
<1> QED
  BY <1>3, <1>4, <1>6, <1>7, <1>8, <1>9, <1>11 DEF IInv

LEMMA RemoveByDashboardIInv ==
  ASSUME IInv, NEW d \in Dashboard, NEW a \in Agent, RemoveByDashboard(d, a)
  PROVE  IInv'
<1>1. RemoveRows(a) /\ UNCHANGED <<target, lastId, up, pc, memVars, crashes, historyVars>>
  BY DEF RemoveByDashboard, RemoveRows
<1>2. /\ inbox' \in [MessageId -> RowState]
      /\ \A i \in MessageId : inbox'[i] = inbox[i] \/ (inbox'[i] = "deleted" /\ inbox[i] # "absent")
      /\ live' \subseteq Agent
  BY <1>1, RemoveRowsFrame
<1>3. /\ workers' \in [Dashboard -> SUBSET Task]
      /\ \A e \in Dashboard : TaskIds(e)' = TaskIds(e)
      /\ OneWorkerPerTarget' /\ TasksMatchTarget'
  BY <1>1, OrphanedFrame DEF RemoveByDashboard
<1>4. session' \in [Dashboard -> [Agent -> {"none", "running", "exited"}]]
  BY DEF IInv, TypeOK, RemoveByDashboard, KeptSessions
<1>5. TypeOK'
  BY <1>1, <1>2, <1>3, <1>4 DEF IInv, TypeOK, RemoveByDashboard, Committed, memVars, historyVars
<1>6. IdsHandedOut'
  BY <1>1, <1>2 DEF IInv, IdsHandedOut, memVars, historyVars
<1>7. /\ OneOwnerInFlight' /\ BelowCeiling' /\ NoReinjection' /\ WrittenReached'
      /\ \A e \in Dashboard : WrittenIds(outcomes[e])' = WrittenIds(outcomes[e])
  BY <1>1, <1>3, SameFlight DEF memVars
<1>8. WrittenSettles'
  BY <1>1, <1>2, <1>3, <1>7 DEF IInv, WrittenSettles, memVars, historyVars
<1>9. DeliveredReachedAgent'
  BY <1>1, <1>2 DEF IInv, DeliveredReachedAgent, historyVars
<1>10. \A e \in Dashboard, i \in MessageId : TargetInFlight(e, target[i])' = TargetInFlight(e, target[i])
  BY <1>1 DEF TargetInFlight, memVars
<1>11. NoForgottenMail'
  BY <1>1, <1>2, <1>10 DEF IInv, TypeOK, NoForgottenMail, Deliverer, RemoveByDashboard, Committed, memVars
<1> QED
  BY <1>3, <1>5, <1>6, <1>7, <1>8, <1>9, <1>11 DEF IInv

-----------------------------------------------------------------------------
(* Steps of a dashboard.                                                   *)

\* A step that changes the sessions a dashboard's tasks hold, and no more.
LEMMA SessionStepIInv ==
  ASSUME IInv, NEW d \in Dashboard, NEW a \in Agent,
         SessionExits(d, a) \/ RestartSession(d, a)
  PROVE  IInv'
<1>1. UNCHANGED <<dbVars, up, pc, unseen, memVars, crashes, historyVars>>
  BY DEF SessionExits, RestartSession
<1>2. /\ workers' \in [Dashboard -> SUBSET Task]
      /\ \A e \in Dashboard : TaskIds(e)' = TaskIds(e)
      /\ OneWorkerPerTarget' /\ TasksMatchTarget'
  <2>1. target' = target
    BY <1>1 DEF dbVars
  <2> QED
    BY <2>1, OrphanedFrame DEF SessionExits, RestartSession
<1>3. session' \in [Dashboard -> [Agent -> {"none", "running", "exited"}]]
  <2>1. session \in [Dashboard -> [Agent -> {"none", "running", "exited"}]]
    BY DEF IInv, TypeOK
  <2>2. PICK x \in {"none", "running", "exited"} : session' = [session EXCEPT ![d][a] = x]
    BY DEF SessionExits, RestartSession
  <2> QED
    BY <2>1, <2>2
<1>4. TypeOK'
  BY <1>1, <1>2, <1>3 DEF IInv, TypeOK, dbVars, memVars, historyVars
<1>5. IdsHandedOut' /\ DeliveredReachedAgent'
  BY <1>1 DEF IInv, IdsHandedOut, DeliveredReachedAgent, dbVars, memVars, historyVars
<1>6. /\ OneOwnerInFlight' /\ BelowCeiling' /\ NoReinjection' /\ WrittenReached'
      /\ \A e \in Dashboard : WrittenIds(outcomes[e])' = WrittenIds(outcomes[e])
  BY <1>1, <1>2, SameFlight DEF memVars
<1>7. WrittenSettles'
  BY <1>1, <1>2, <1>6 DEF IInv, WrittenSettles, dbVars, memVars, historyVars
<1>8. NoForgottenMail'
  BY <1>1 DEF IInv, NoForgottenMail, Deliverer, TargetInFlight, dbVars, memVars
<1> QED
  BY <1>2, <1>4, <1>5, <1>6, <1>7, <1>8 DEF IInv

LEMMA StartIInv ==
  ASSUME IInv, NEW d \in Dashboard, Start(d)
  PROVE  IInv'
<1>1. UNCHANGED <<dbVars, pc, unseen, pending, delivering, attempts, parked,
                  outcomes, workers, session, crashes, historyVars>>
  BY DEF Start
<1>2. \A e \in Dashboard : TaskIds(e)' = TaskIds(e)
  BY <1>1 DEF TaskIds
<1>3. TypeOK'
  BY <1>1 DEF IInv, TypeOK, Start, dbVars, historyVars
<1>4. IdsHandedOut' /\ DeliveredReachedAgent' /\ TasksMatchTarget' /\ OneWorkerPerTarget'
  BY <1>1 DEF IInv, IdsHandedOut, DeliveredReachedAgent, TasksMatchTarget,
     OneWorkerPerTarget, dbVars, historyVars
<1>5. /\ OneOwnerInFlight' /\ BelowCeiling' /\ NoReinjection' /\ WrittenReached'
      /\ \A e \in Dashboard : WrittenIds(outcomes[e])' = WrittenIds(outcomes[e])
  BY <1>1, <1>2, SameFlight
<1>6. WrittenSettles'
  BY <1>1, <1>2, <1>5 DEF IInv, WrittenSettles, dbVars, historyVars
<1>7. NoForgottenMail'
  BY <1>1 DEF IInv, TypeOK, NoForgottenMail, Deliverer, TargetInFlight, Start, dbVars
<1> QED
  BY <1>3, <1>4, <1>5, <1>6, <1>7 DEF IInv

LEMMA ReadIInv ==
  ASSUME IInv, NEW d \in Dashboard, ReadInbox(d) \/ ReadFails(d)
  PROVE  IInv'
<1>1. UNCHANGED <<dbVars, up, unseen, delivering, attempts, parked, outcomes,
                  workers, session, crashes, historyVars>>
  BY DEF ReadInbox, ReadFails
<1>2. /\ pc[d] = "read"
      /\ \A e \in Dashboard : e # d => pc'[e] = pc[e] /\ retry'[e] = retry[e] /\ pending'[e] = pending[e]
      /\ pc \in [Dashboard -> {"idle", "read", "dispatch"}]
      /\ pending \in [Dashboard -> SUBSET MessageId]
  BY DEF IInv, TypeOK, ReadInbox, ReadFails
<1>3. \/ pc'[d] = "dispatch" /\ pending'[d] = {i \in MessageId : inbox[i] = "queued"}
      \/ pc'[d] = "idle" /\ retry'[d] = TRUE /\ pending'[d] = pending[d]
  BY DEF IInv, TypeOK, ReadInbox, ReadFails
<1>4. \A e \in Dashboard : TaskIds(e)' = TaskIds(e)
  BY <1>1 DEF TaskIds
<1>5. TypeOK'
  <2>1. pc' \in [Dashboard -> {"idle", "read", "dispatch"}] /\ retry' \in [Dashboard -> BOOLEAN]
        /\ pending' \in [Dashboard -> SUBSET MessageId]
    <3>1. CASE ReadInbox(d)
      BY <3>1 DEF IInv, TypeOK, ReadInbox
    <3>2. CASE ReadFails(d)
      BY <3>2 DEF IInv, TypeOK, ReadFails
    <3> QED
      BY <3>1, <3>2
  <2> QED
    BY <1>1, <2>1 DEF IInv, TypeOK, dbVars, historyVars
<1>6. IdsHandedOut'
  <2>1. \A i \in MessageId : inbox[i] = "queued" => i <= lastId
    BY MailboxAssumption DEF IInv, TypeOK, IdsHandedOut, MessageId
  <2>2. \A e \in Dashboard : \A i \in pending'[e] : i <= lastId
    BY <1>2, <1>3, <2>1 DEF IInv, IdsHandedOut
  <2> QED
    BY <1>1, <2>2 DEF IInv, IdsHandedOut, dbVars, historyVars
<1>7. DeliveredReachedAgent' /\ TasksMatchTarget' /\ OneWorkerPerTarget'
  BY <1>1 DEF IInv, DeliveredReachedAgent, TasksMatchTarget, OneWorkerPerTarget,
     dbVars, historyVars
<1>8. /\ OneOwnerInFlight' /\ BelowCeiling' /\ NoReinjection' /\ WrittenReached'
      /\ \A e \in Dashboard : WrittenIds(outcomes[e])' = WrittenIds(outcomes[e])
  BY <1>1, <1>4, SameFlight
<1>9. WrittenSettles'
  <2>1. \A e \in Dashboard : WrittenIds(outcomes[e]) \cup parked[e] \subseteq delivering[e]
    BY DEF IInv, OneOwnerInFlight, OutcomeIds
  <2> QED
    BY <1>1, <1>2, <1>3, <1>4, <1>8, <2>1 DEF IInv, WrittenSettles, dbVars, historyVars
<1>10. NoForgottenMail'
  BY <1>1, <1>2, <1>3 DEF IInv, NoForgottenMail, Deliverer, TargetInFlight, dbVars
<1> QED
  BY <1>5, <1>6, <1>7, <1>8, <1>9, <1>10 DEF IInv

LEMMA CrashIInv ==
  ASSUME IInv, NEW d \in Dashboard, Crash(d)
  PROVE  IInv'
<1> USE MailboxAssumption
<1>1. UNCHANGED <<dbVars, reached>>
  BY DEF Crash
<1>2. \A e \in Dashboard : e # d =>
        /\ TaskIds(e)' = TaskIds(e)
        /\ WrittenIds(outcomes[e])' = WrittenIds(outcomes[e])
        /\ FailedIds(outcomes[e])' = FailedIds(outcomes[e])
  BY DEF IInv, TypeOK, Crash, TaskIds, WrittenIds, FailedIds
<1>3. TaskIds(d)' = {} /\ WrittenIds(outcomes[d])' = {} /\ FailedIds(outcomes[d])' = {}
  BY DEF IInv, TypeOK, Crash, TaskIds, WrittenIds, FailedIds
<1>4. TypeOK'
  BY DEF IInv, TypeOK, Crash, dbVars
<1>5. IdsHandedOut' /\ DeliveredReachedAgent'
  BY DEF IInv, TypeOK, IdsHandedOut, DeliveredReachedAgent, Crash, dbVars
<1>6. TasksMatchTarget' /\ OneWorkerPerTarget' /\ BelowCeiling' /\ NoReinjection'
  BY DEF IInv, TypeOK, TasksMatchTarget, OneWorkerPerTarget, BelowCeiling,
     NoReinjection, Crash, dbVars
<1>7. OneOwnerInFlight' /\ WrittenReached' /\ WrittenSettles'
  BY <1>1, <1>2, <1>3 DEF IInv, TypeOK, OneOwnerInFlight, OutcomeIds, WrittenReached,
     WrittenSettles, Crash, dbVars
<1>8. NoForgottenMail'
  BY DEF IInv, TypeOK, NoForgottenMail, Deliverer, TargetInFlight, Crash, dbVars
<1> QED
  BY <1>4, <1>5, <1>6, <1>7, <1>8 DEF IInv

\* A turn of a task moves one id from its batch to the outcomes.
LEMMA TurnIInv ==
  ASSUME IInv, NEW d \in Dashboard, Turn(d)
  PROVE  IInv'
<1> USE MailboxAssumption
<1>1. PICK w \in workers[d] : \E i \in w.items, result \in TurnResults(w) : TurnWith(d, w, i, result)
  BY DEF Turn
<1>1a. PICK i \in w.items, result \in TurnResults(w) : TurnWith(d, w, i, result)
  BY <1>1
<1>2. /\ workers \in [Dashboard -> SUBSET Task] /\ w \in Task /\ i \in MessageId
      /\ outcomes \in [Dashboard -> SUBSET Outcome]
      /\ written \in [Dashboard -> [MessageId -> Nat]]
      /\ reached \subseteq MessageId
      /\ result \in {"abandoned", "written", "failed", "landed late"}
  <2>1. /\ workers \in [Dashboard -> SUBSET Task] /\ outcomes \in [Dashboard -> SUBSET Outcome]
        /\ written \in [Dashboard -> [MessageId -> Nat]] /\ reached \subseteq MessageId
    BY DEF IInv, TypeOK
  <2>2. w \in Task
    BY <2>1
  <2>3. i \in MessageId
    BY <2>2 DEF Task
  <2>4. result \in {"abandoned", "written", "failed", "landed late"}
    BY DEF TurnResults
  <2> QED
    BY <2>1, <2>2, <2>3, <2>4
<1>3. UNCHANGED <<dbVars, up, pc, unseen, retry, pending, delivering, attempts,
                  parked, session, crashes>>
  BY <1>1a DEF TurnWith
<1> DEFINE o == [id |-> i, written |-> result = "written",
                 attempted |-> result # "abandoned"]
           rest == [w EXCEPT !.items = @ \ {i}, !.failed = result # "written"]
<1>4. o \in Outcome /\ o.id = i /\ (o.written <=> result = "written")
  BY <1>2 DEF Outcome
<1>5. rest \in Task /\ rest.target = w.target /\ rest.items = w.items \ {i}
  BY <1>2 DEF Task
<1>6. /\ outcomes' = [outcomes EXCEPT ![d] = @ \cup {o}]
      /\ workers' = [workers EXCEPT ![d] = (@ \ {w}) \cup (IF rest.items = {} THEN {} ELSE {rest})]
  BY <1>1a DEF TurnWith
<1> HIDE DEF o, rest
<1>7. /\ outcomes'[d] = outcomes[d] \cup {o}
      /\ workers'[d] = (workers[d] \ {w}) \cup (IF rest.items = {} THEN {} ELSE {rest})
      /\ \A e \in Dashboard : e # d => outcomes'[e] = outcomes[e] /\ workers'[e] = workers[e]
  BY <1>2, <1>6
<1>8. /\ \A v \in workers[d] : v # w => v.target # w.target
      /\ \A v \in workers[d] : v # w => i \notin v.items
  <2>1. \A v \in workers[d] : v # w => v.target # w.target
    BY DEF IInv, OneWorkerPerTarget
  <2>2. \A v \in workers[d] : \A j \in v.items : target[j] = v.target
    BY DEF IInv, TasksMatchTarget
  <2> QED
    BY <2>1, <2>2
<1>9. TaskIds(d)' = TaskIds(d) \ {i} /\ i \in TaskIds(d)
  <2>1. \A j : j \in TaskIds(d) <=> \E v \in workers[d] : j \in v.items
    BY DEF TaskIds
  <2>2. \A j : j \in TaskIds(d)' <=> \E v \in workers'[d] : j \in v.items
    BY DEF TaskIds
  <2>3. ASSUME NEW j, j \in TaskIds(d)' PROVE j \in TaskIds(d) /\ j # i
    BY <1>5, <1>7, <1>8, <2>1, <2>2, <2>3
  <2>4. ASSUME NEW j, j \in TaskIds(d), j # i PROVE j \in TaskIds(d)'
    <3>1. PICK v \in workers[d] : j \in v.items
      BY <2>1, <2>4
    <3>2. CASE v = w
      BY <1>5, <1>7, <2>2, <2>4, <3>1, <3>2
    <3>3. CASE v # w
      BY <1>7, <2>2, <3>1, <3>3
    <3> QED
      BY <3>2, <3>3
  <2> QED
    BY <2>1, <2>3, <2>4
<1>10. /\ WrittenIds(outcomes[d])' = WrittenIds(outcomes[d]) \cup (IF result = "written" THEN {i} ELSE {})
       /\ FailedIds(outcomes[d])' = FailedIds(outcomes[d]) \cup (IF result = "written" THEN {} ELSE {i})
  BY <1>4, <1>7 DEF WrittenIds, FailedIds
<1>11. OutcomeIds(d)' = OutcomeIds(d) \cup {i}
  BY <1>10 DEF OutcomeIds
<1>12. \A e \in Dashboard : e # d => /\ TaskIds(e)' = TaskIds(e)
                                     /\ OutcomeIds(e)' = OutcomeIds(e)
                                     /\ WrittenIds(outcomes[e])' = WrittenIds(outcomes[e])
                                     /\ FailedIds(outcomes[e])' = FailedIds(outcomes[e])
  BY <1>7 DEF TaskIds, OutcomeIds, WrittenIds, FailedIds
<1>13. /\ i \notin OutcomeIds(d) \cup parked[d] /\ i \in delivering[d]
       /\ i \notin WrittenIds(outcomes[d]) /\ i \notin FailedIds(outcomes[d])
  BY <1>9 DEF IInv, OneOwnerInFlight, OutcomeIds
<1>14. /\ written[d][i] = 0
       /\ \A e \in Dashboard, j \in MessageId : ~(e = d /\ j = i /\ result = "written") => written'[e][j] = written[e][j]
       /\ written'[d][i] \in {0, 1}
       /\ result # "written" => written'[d][i] = 0
       /\ written' \in [Dashboard -> [MessageId -> Nat]]
  <2>1. written[d][i] = 0
    BY <1>2, <1>9 DEF IInv, WrittenSettles
  <2>2. written' = IF result = "written" THEN [written EXCEPT ![d][i] = @ + 1] ELSE written
    BY <1>1a DEF TurnWith
  <2>3. CASE result = "written"
    BY <1>2, <2>1, <2>2, <2>3
  <2>4. CASE result # "written"
    BY <1>2, <2>1, <2>2, <2>4
  <2> QED
    BY <2>1, <2>3, <2>4
<1>15. /\ reached \subseteq reached' /\ reached' \subseteq MessageId
       /\ result = "written" => i \in reached'
  BY <1>1a, <1>2 DEF TurnWith
<1>16. TypeOK'
  <2>1. workers' \in [Dashboard -> SUBSET Task] /\ outcomes' \in [Dashboard -> SUBSET Outcome]
    BY <1>2, <1>4, <1>5, <1>6
  <2> QED
    BY <1>3, <1>14, <1>15, <2>1 DEF IInv, TypeOK, dbVars
<1>17. IdsHandedOut'
  BY <1>3, <1>13, <1>14 DEF IInv, IdsHandedOut, dbVars
<1>18. TasksMatchTarget'
  BY <1>3, <1>5, <1>7 DEF IInv, TasksMatchTarget, dbVars
<1>19. OneWorkerPerTarget'
  BY <1>5, <1>7, <1>8 DEF IInv, OneWorkerPerTarget
<1>20. OneOwnerInFlight'
  <2>1. \A e \in Dashboard : delivering'[e] = delivering[e] /\ parked'[e] = parked[e]
    BY <1>3
  <2>2. /\ delivering'[d] = TaskIds(d)' \cup OutcomeIds(d)' \cup parked'[d]
        /\ TaskIds(d)' \cap (OutcomeIds(d)' \cup parked'[d]) = {}
        /\ OutcomeIds(d)' \cap parked'[d] = {}
    BY <1>9, <1>11, <1>13, <2>1 DEF IInv, OneOwnerInFlight
  <2>3. WrittenIds(outcomes[d])' \cap FailedIds(outcomes[d])' = {}
    BY <1>10, <1>13 DEF IInv, OneOwnerInFlight
  <2> QED
    BY <1>12, <2>1, <2>2, <2>3 DEF IInv, OneOwnerInFlight
<1>21. BelowCeiling' /\ DeliveredReachedAgent'
  BY <1>3, <1>15 DEF IInv, BelowCeiling, DeliveredReachedAgent, dbVars
<1>22. NoReinjection'
  <2> SUFFICES ASSUME NEW e \in Dashboard, NEW j \in MessageId PROVE written'[e][j] <= 1
    BY DEF NoReinjection
  <2>1. written[e][j] <= 1
    BY DEF IInv, NoReinjection
  <2> QED
    BY <1>14, <2>1
<1>23. WrittenSettles'
  <2> SUFFICES ASSUME NEW e \in Dashboard, NEW j \in MessageId
               PROVE  /\ j \in TaskIds(e)' => written'[e][j] = 0
                      /\ written'[e][j] > 0 =>
                           inbox'[j] # "queued" \/ j \in WrittenIds(outcomes[e])' \cup parked'[e]
                      /\ written'[e][j] > 0 /\ pc'[e] = "dispatch" /\ j \in pending'[e] =>
                           j \in delivering'[e]
    BY DEF WrittenSettles
  <2>1. CASE e = d /\ j = i
    BY <1>3, <1>9, <1>10, <1>13, <1>14, <2>1
  <2>2. CASE e = d /\ j # i
    BY <1>3, <1>9, <1>10, <1>14, <2>2 DEF IInv, WrittenSettles, dbVars
  <2>3. CASE e # d
    BY <1>3, <1>12, <1>14, <2>3 DEF IInv, WrittenSettles, dbVars
  <2> QED
    BY <2>1, <2>2, <2>3
<1>24. WrittenReached'
  BY <1>3, <1>10, <1>12, <1>15 DEF IInv, WrittenReached
<1>25. NoForgottenMail'
  BY <1>3 DEF IInv, NoForgottenMail, Deliverer, TargetInFlight, dbVars
<1> QED
  BY <1>16, <1>17, <1>18, <1>19, <1>20, <1>21, <1>22, <1>23, <1>24, <1>25 DEF IInv

\* A tick settles the reported outcomes: an acknowledged id and a failed one
\* leave the flight, a written one whose ack failed is parked.
LEMMA TickIInv ==
  ASSUME IInv, NEW d \in Dashboard, Tick(d)
  PROVE  IInv'
<1> USE MailboxAssumption
<1>1. PICK requeued \in SUBSET parked[d], due \in BOOLEAN, refreshed \in BOOLEAN :
        \E ok \in SUBSET (WrittenIds(outcomes[d]) \cup requeued) :
          TickWith(d, requeued, ok, due, refreshed)
  BY DEF Tick
<1>2. PICK ok \in SUBSET (WrittenIds(outcomes[d]) \cup requeued) :
        TickWith(d, requeued, ok, due, refreshed)
  BY <1>1
<1> DEFINE os == outcomes[d] \cup
                 {[id |-> i, written |-> TRUE, attempted |-> TRUE] : i \in requeued}
           external == unseen[d] /\ refreshed
           acked == {i \in ok : inbox[i] = "queued"}
           W == WrittenIds(outcomes[d])
           F == FailedIds(outcomes[d])
<1>3. WrittenIds(os) = W \cup requeued /\ FailedIds(os) = F
  <2> DEFINE Q == {[id |-> i, written |-> TRUE, attempted |-> TRUE] : i \in requeued}
  <2>1. \A q \in Q : q.written /\ q.id \in requeued
    <3> SUFFICES ASSUME NEW i \in requeued
                 PROVE  LET q == [id |-> i, written |-> TRUE, attempted |-> TRUE]
                        IN  q.written /\ q.id \in requeued
      BY Zenon
    <3> QED
      OBVIOUS
  <2>2. \A i \in requeued : \E q \in Q : q.written /\ q.id = i
    <3> SUFFICES ASSUME NEW i \in requeued PROVE \E q \in Q : q.written /\ q.id = i
      OBVIOUS
    <3>1. [id |-> i, written |-> TRUE, attempted |-> TRUE] \in Q
      BY Zenon
    <3>2. [id |-> i, written |-> TRUE, attempted |-> TRUE].written /\
          [id |-> i, written |-> TRUE, attempted |-> TRUE].id = i
      OBVIOUS
    <3> QED
      BY <3>1, <3>2, Zenon
  <2> HIDE DEF Q
  <2>3. WrittenIds(outcomes[d] \cup Q) = W \cup requeued
    BY <2>1, <2>2 DEF WrittenIds
  <2>4. FailedIds(outcomes[d] \cup Q) = F
    BY <2>1 DEF FailedIds
  <2> QED
    BY <2>3, <2>4 DEF Q
<1>4. ChargedIds(os) \subseteq F
  BY DEF ChargedIds, FailedIds
<1>5. /\ up[d] /\ pc[d] = "idle"
      /\ inbox' = [i \in MessageId |-> IF i \in acked THEN "delivered" ELSE inbox[i]]
      /\ delivering' = [delivering EXCEPT ![d] = delivering[d] \ (ok \cup F)]
      /\ parked' = [parked EXCEPT ![d] = (@ \ requeued) \cup ((W \cup requeued) \ ok)]
      /\ attempts' = [attempts EXCEPT ![d] = [i \in MessageId |->
           IF i \in ok THEN 0
           ELSE IF i \in ChargedIds(os) THEN attempts[d][i] + 1
           ELSE attempts[d][i]]]
      /\ outcomes' = [outcomes EXCEPT ![d] = {}]
      /\ unseen' = [e \in Dashboard |->
           IF e = d THEN unseen[d] /\ ~refreshed
                    ELSE unseen[e] \/ (up[e] /\ acked # {})]
      /\ session' = IF external THEN [session EXCEPT ![d] = KeptSessions(d, live)] ELSE session
      /\ workers' = IF external
                    THEN [workers EXCEPT ![d] = Orphaned(d, Agent \ live)] ELSE workers
      /\ pc' = [pc EXCEPT ![d] = IF os # {} \/ due \/ external THEN "read" ELSE "idle"]
      /\ UNCHANGED <<target, lastId, live, up, retry, pending, crashes, historyVars>>
  BY <1>2, <1>3 DEF TickWith, StillInFlight, DrainWanted
<1>6. os = {} => W = {} /\ F = {} /\ ok = {} /\ requeued = {} /\ ChargedIds(os) = {}
  BY <1>3 DEF WrittenIds, FailedIds, ChargedIds
<1> HIDE DEF os
<1>7. /\ W \subseteq MessageId /\ F \subseteq MessageId /\ parked[d] \subseteq MessageId
      /\ W \cap F = {} /\ W \cap parked[d] = {} /\ F \cap parked[d] = {}
      /\ delivering[d] = TaskIds(d) \cup W \cup F \cup parked[d]
      /\ TaskIds(d) \cap (W \cup F \cup parked[d]) = {}
      /\ ok \subseteq W \cup requeued
      /\ W \cup parked[d] \subseteq reached
  <2>1. delivering[d] \subseteq MessageId
    BY DEF IInv, TypeOK
  <2>2. delivering[d] = TaskIds(d) \cup W \cup F \cup parked[d]
    BY DEF IInv, OneOwnerInFlight, OutcomeIds
  <2> QED
    BY <2>1, <2>2 DEF IInv, OneOwnerInFlight, OutcomeIds, WrittenReached
<1>8. /\ workers' \in [Dashboard -> SUBSET Task]
      /\ \A e \in Dashboard : TaskIds(e)' = TaskIds(e)
      /\ OneWorkerPerTarget' /\ TasksMatchTarget'
  <2>1. CASE external
    BY <1>5, <2>1, OrphanedFrame
  <2>2. CASE ~external
    <3>1. workers' = workers /\ target' = target
      BY <1>5, <2>2
    <3> QED
      BY <3>1 DEF IInv, TypeOK, TaskIds, OneWorkerPerTarget, TasksMatchTarget
  <2> QED
    BY <2>1, <2>2
<1> DEFINE P == (parked[d] \ requeued) \cup ((W \cup requeued) \ ok)
<1>9. /\ delivering \in [Dashboard -> SUBSET MessageId] /\ parked \in [Dashboard -> SUBSET MessageId]
      /\ delivering'[d] = delivering[d] \ (ok \cup F)
      /\ parked'[d] = P
      /\ P \subseteq W \cup parked[d]
      /\ \A e \in Dashboard : e # d => delivering'[e] = delivering[e] /\ parked'[e] = parked[e]
  BY <1>5 DEF IInv, TypeOK
<1>10. delivering'[d] = TaskIds(d) \cup P /\ TaskIds(d) \cap P = {}
  BY <1>7, <1>9
<1>11. /\ WrittenIds(outcomes[d])' = {} /\ FailedIds(outcomes[d])' = {} /\ OutcomeIds(d)' = {}
       /\ \A e \in Dashboard : e # d =>
            /\ WrittenIds(outcomes[e])' = WrittenIds(outcomes[e])
            /\ FailedIds(outcomes[e])' = FailedIds(outcomes[e])
            /\ OutcomeIds(e)' = OutcomeIds(e)
  <2>1. outcomes'[d] = {} /\ \A e \in Dashboard : e # d => outcomes'[e] = outcomes[e]
    BY <1>5 DEF IInv, TypeOK
  <2> QED
    BY <2>1 DEF WrittenIds, FailedIds, OutcomeIds
<1>12. /\ \A i \in MessageId : inbox'[i] = inbox[i] \/ (inbox[i] = "queued" /\ inbox'[i] = "delivered" /\ i \in ok)
       /\ \A i \in MessageId : i \in ok => inbox'[i] # "queued"
       /\ inbox' \in [MessageId -> RowState]
  BY <1>5 DEF IInv, TypeOK, RowState
<1>13. /\ \A i \in MessageId : i \notin ok \cup F => attempts'[d][i] = attempts[d][i]
       /\ \A e \in Dashboard : e # d => attempts'[e] = attempts[e]
       /\ attempts' \in [Dashboard -> [MessageId -> 0 .. MaxAttempts]]
  <2> DEFINE row == [i \in MessageId |->
         IF i \in ok THEN 0
         ELSE IF i \in ChargedIds(os) THEN attempts[d][i] + 1 ELSE attempts[d][i]]
  <2>1. attempts \in [Dashboard -> [MessageId -> 0 .. MaxAttempts]]
    BY DEF IInv, TypeOK
  <2>2. \A i \in F : attempts[d][i] < MaxAttempts
    BY <1>7 DEF IInv, BelowCeiling
  <2>3. row \in [MessageId -> 0 .. MaxAttempts]
    <3> SUFFICES ASSUME NEW i \in MessageId PROVE row[i] \in 0 .. MaxAttempts
      OBVIOUS
    <3>1. attempts[d][i] \in 0 .. MaxAttempts
      BY <2>1
    <3>2. i \in ChargedIds(os) => attempts[d][i] < MaxAttempts
      BY <1>4, <2>2
    <3> QED
      BY <3>1, <3>2
  <2>4. attempts' = [attempts EXCEPT ![d] = row]
    BY <1>5
  <2>5. \A i \in MessageId : i \notin ok \cup F => row[i] = attempts[d][i]
    BY <1>4
  <2> HIDE DEF row
  <2> QED
    BY <2>1, <2>3, <2>4, <2>5
<1>14. TypeOK'
  <2>1. delivering' \in [Dashboard -> SUBSET MessageId] /\ parked' \in [Dashboard -> SUBSET MessageId]
    BY <1>5, <1>7, <1>9
  <2>2. pc' \in [Dashboard -> {"idle", "read", "dispatch"}] /\ outcomes' \in [Dashboard -> SUBSET Outcome]
    BY <1>5 DEF IInv, TypeOK
  <2>3. unseen' \in [Dashboard -> BOOLEAN]
    BY <1>5 DEF IInv, TypeOK
  <2>4. session' \in [Dashboard -> [Agent -> {"none", "running", "exited"}]]
    BY <1>5 DEF IInv, TypeOK, KeptSessions
  <2> QED
    BY <1>5, <1>8, <1>12, <1>13, <2>1, <2>2, <2>3, <2>4 DEF IInv, TypeOK, historyVars
<1>15. IdsHandedOut'
  BY <1>5, <1>9, <1>12 DEF IInv, IdsHandedOut, historyVars
<1>16. OneOwnerInFlight'
  BY <1>8, <1>9, <1>10, <1>11 DEF IInv, OneOwnerInFlight
<1>17. BelowCeiling'
  <2>1. \A i \in delivering'[d] : i \in delivering[d] /\ i \in MessageId /\ i \notin ok \cup F
    BY <1>9
  <2> QED
    BY <1>9, <1>13, <2>1 DEF IInv, BelowCeiling
<1>18. NoReinjection' /\ WrittenReached' /\ DeliveredReachedAgent'
  BY <1>5, <1>7, <1>9, <1>11, <1>12 DEF IInv, NoReinjection, WrittenReached,
     DeliveredReachedAgent, historyVars
<1>19. WrittenSettles'
  <2> SUFFICES ASSUME NEW e \in Dashboard, NEW j \in MessageId
               PROVE  /\ j \in TaskIds(e)' => written'[e][j] = 0
                      /\ written'[e][j] > 0 =>
                           inbox'[j] # "queued" \/ j \in WrittenIds(outcomes[e])' \cup parked'[e]
                      /\ written'[e][j] > 0 /\ pc'[e] = "dispatch" /\ j \in pending'[e] =>
                           j \in delivering'[e]
    BY DEF WrittenSettles
  <2>1. CASE e = d
    <3>1. pc'[d] # "dispatch"
      BY <1>5 DEF IInv, TypeOK
    <3>2. j \in W \cup parked[d] => j \in P \/ j \in ok
      OBVIOUS
    <3>3. written'[d][j] > 0 => inbox[j] # "queued" \/ j \in W \cup parked[d]
      BY <1>5 DEF IInv, WrittenSettles, historyVars
    <3> QED
      BY <1>5, <1>8, <1>9, <1>12, <2>1, <3>1, <3>2, <3>3 DEF IInv, WrittenSettles, historyVars
  <2>2. CASE e # d
    <3>1. pc'[e] = pc[e]
      BY <1>5, <2>2 DEF IInv, TypeOK
    <3> QED
      BY <1>5, <1>8, <1>9, <1>11, <1>12, <2>2, <3>1 DEF IInv, WrittenSettles, historyVars
  <2> QED
    BY <2>1, <2>2
<1>20. NoForgottenMail'
  <2> SUFFICES ASSUME NEW e \in Dashboard, NEW i \in MessageId, Deliverer(e, i)'
               PROVE  \/ pc'[e] = "read"
                      \/ pc'[e] = "dispatch" /\ i \in pending'[e]
                      \/ retry'[e]
                      \/ unseen'[e]
                      \/ TargetInFlight(e, target[i])'
    BY DEF NoForgottenMail
  <2>1. inbox[i] = "queued" /\ up'[e] = up[e]
    BY <1>5, <1>12 DEF Deliverer
  <2>2. CASE e # d
    <3>1. pc'[e] = pc[e] /\ (unseen[e] => unseen'[e])
      BY <1>5, <2>2 DEF IInv, TypeOK
    <3>2. Deliverer(e, i) /\ (TargetInFlight(e, target[i]) => TargetInFlight(e, target[i])')
      BY <1>5, <1>9, <1>13, <2>1, <2>2 DEF Deliverer, TargetInFlight
    <3> QED
      BY <1>5, <3>1, <3>2 DEF IInv, NoForgottenMail
  <2>3. CASE e = d /\ (os # {} \/ due \/ external)
    BY <1>5, <2>3 DEF IInv, TypeOK
  <2>4. CASE e = d /\ ~(os # {} \/ due \/ external)
    <3>1. delivering'[d] = delivering[d] /\ attempts'[d][i] = attempts[d][i]
      BY <1>6, <1>9, <1>13, <2>4
    <3>2. unseen[d] => unseen'[d]
      BY <1>5, <2>4
    <3>3. Deliverer(d, i) /\ (TargetInFlight(d, target[i]) => TargetInFlight(d, target[i])')
      BY <1>5, <2>1, <2>4, <3>1 DEF Deliverer, TargetInFlight
    <3> QED
      BY <1>5, <2>4, <3>2, <3>3 DEF IInv, NoForgottenMail
  <2> QED
    BY <2>2, <2>3, <2>4
<1> QED
  BY <1>8, <1>14, <1>15, <1>16, <1>17, <1>18, <1>19, <1>20 DEF IInv

\* A dispatch starts one task for each target it serves, with messages that
\* were not in flight, and leaves no deliverable message without a wake-up.
LEMMA DispatchIInv ==
  ASSUME IInv, NEW d \in Dashboard, Dispatch(d)
  PROVE  IInv'
<1> USE MailboxAssumption
<1>1. PICK answer \in [Free(d) -> {"session", "drop", "retry"}], lost \in SUBSET pending[d] :
        DispatchWith(d, answer, lost)
  BY DEF Dispatch
<1> DEFINE served == {a \in Free(d) : answer[a] = "session"}
           retired == UNION {Batch(d, a) : a \in {b \in Free(d) : answer[b] = "drop"}}
           dropped == {i \in retired \ lost : inbox[i] \in {"queued", "delivered"}}
           D == UNION {Batch(d, a) : a \in served}
           started(a) == [target |-> a, items |-> Batch(d, a), failed |-> FALSE,
                          gone |-> session[d][a] = "exited"]
<1>2. /\ up[d] /\ pc[d] = "dispatch"
      /\ inbox' = [i \in MessageId |-> IF i \in dropped THEN "dropped" ELSE inbox[i]]
      /\ unseen' = [e \in Dashboard |-> unseen[e] \/ (e # d /\ up[e] /\ dropped # {})]
      /\ retry' = [retry EXCEPT ![d] = @ \/ Rearmed(d, answer, lost)]
      /\ delivering' = [delivering EXCEPT ![d] = @ \cup D]
      /\ workers' = [workers EXCEPT ![d] = @ \cup {started(a) : a \in served}]
      /\ session' = [session EXCEPT ![d] = [a \in Agent |->
           IF a \in served /\ session[d][a] = "none" THEN "running" ELSE session[d][a]]]
      /\ pending' = [pending EXCEPT ![d] = {}]
      /\ pc' = [pc EXCEPT ![d] = "idle"]
      /\ UNCHANGED <<target, lastId, live, up, attempts, parked, outcomes,
                     crashes, historyVars>>
  BY <1>1 DEF DispatchWith
<1>3. \A a : Batch(d, a) \subseteq pending[d] \cap MessageId
             /\ \A i \in Batch(d, a) : /\ target[i] = a
                                       /\ i \notin delivering[d]
                                       /\ attempts[d][i] < MaxAttempts
  BY DEF IInv, TypeOK, Batch, Deliverable
<1>4. \A a \in served : /\ a \in Agent /\ Batch(d, a) # {}
                        /\ \A i \in delivering[d] : target[i] # a
  BY DEF Free, TargetInFlight
<1>5. \A a \in served : /\ started(a) \in Task
                        /\ started(a).target = a
                        /\ started(a).items = Batch(d, a)
  <2> SUFFICES ASSUME NEW a \in served
               PROVE  started(a) \in Task /\ started(a).target = a /\ started(a).items = Batch(d, a)
    OBVIOUS
  <2>1. a \in Agent /\ Batch(d, a) \subseteq MessageId
    BY <1>3, <1>4
  <2> QED
    BY <2>1 DEF Task
<1> HIDE DEF served, started
<1>6. /\ delivering'[d] = delivering[d] \cup D
      /\ pc'[d] = "idle" /\ pending'[d] = {}
      /\ workers'[d] = workers[d] \cup {started(a) : a \in served}
      /\ (retry[d] \/ Rearmed(d, answer, lost)) => retry'[d]
      /\ \A e \in Dashboard : e # d => /\ delivering'[e] = delivering[e] /\ pc'[e] = pc[e]
                                       /\ pending'[e] = pending[e] /\ workers'[e] = workers[e]
                                       /\ retry'[e] = retry[e]
      /\ \A e \in Dashboard : unseen[e] => unseen'[e]
  BY <1>2 DEF IInv, TypeOK
<1>7. /\ D \subseteq pending[d] \cap MessageId
      /\ D \cap delivering[d] = {}
      /\ \A i \in D : attempts[d][i] < MaxAttempts /\ target[i] \in served
  BY <1>3
<1>8. TaskIds(d)' = TaskIds(d) \cup D
  <2>1. \A j : j \in TaskIds(d) <=> \E v \in workers[d] : j \in v.items
    BY DEF TaskIds
  <2>2. \A j : j \in TaskIds(d)' <=> \E v \in workers'[d] : j \in v.items
    BY DEF TaskIds
  <2>3. \A j : j \in D <=> \E a \in served : j \in started(a).items
    BY <1>5
  <2> QED
    BY <1>6, <2>1, <2>2, <2>3
<1>9. \A e \in Dashboard : /\ e # d => TaskIds(e)' = TaskIds(e)
                           /\ WrittenIds(outcomes[e])' = WrittenIds(outcomes[e])
                           /\ FailedIds(outcomes[e])' = FailedIds(outcomes[e])
                           /\ OutcomeIds(e)' = OutcomeIds(e)
  BY <1>2, <1>6 DEF TaskIds, WrittenIds, FailedIds, OutcomeIds
<1>10. /\ \A i \in MessageId : inbox'[i] = inbox[i] \/
            (i \in dropped /\ inbox'[i] = "dropped" /\ inbox[i] \in {"queued", "delivered"})
       /\ \A i \in dropped : i \in MessageId => inbox'[i] = "dropped"
       /\ inbox' \in [MessageId -> RowState]
  BY <1>2 DEF IInv, TypeOK, RowState
<1>11. workers' \in [Dashboard -> SUBSET Task]
  <2>1. {started(a) : a \in served} \subseteq Task
    BY <1>5
  <2> QED
    BY <1>2, <2>1 DEF IInv, TypeOK
<1>12. TypeOK'
  <2>1. delivering' \in [Dashboard -> SUBSET MessageId] /\ pending' \in [Dashboard -> SUBSET MessageId]
    BY <1>2, <1>7 DEF IInv, TypeOK
  <2>2. pc' \in [Dashboard -> {"idle", "read", "dispatch"}]
    BY <1>2 DEF IInv, TypeOK
  <2>3. unseen' \in [Dashboard -> BOOLEAN]
    BY <1>2 DEF IInv, TypeOK
  <2>4. retry' \in [Dashboard -> BOOLEAN]
    BY <1>2 DEF IInv, TypeOK
  <2>5. session' \in [Dashboard -> [Agent -> {"none", "running", "exited"}]]
    BY <1>2 DEF IInv, TypeOK
  <2> QED
    BY <1>2, <1>10, <1>11, <2>1, <2>2, <2>3, <2>4, <2>5 DEF IInv, TypeOK, historyVars
<1>13. IdsHandedOut'
  <2>1. \A i \in MessageId : inbox'[i] = "absent" <=> inbox[i] = "absent"
    BY <1>10
  <2>2. \A e \in Dashboard : \A i \in delivering'[e] \cup pending'[e] : i \in delivering[e] \cup pending[e]
    BY <1>6, <1>7
  <2> QED
    BY <1>2, <2>1, <2>2 DEF IInv, IdsHandedOut, historyVars
<1>14. TasksMatchTarget'
  <2>1. \A w \in workers'[d] : w.items # {} /\ \A i \in w.items : target[i] = w.target
    BY <1>3, <1>4, <1>5, <1>6 DEF IInv, TasksMatchTarget
  <2> QED
    BY <1>2, <1>6, <2>1 DEF IInv, TasksMatchTarget
<1>15. OneWorkerPerTarget'
  <2>1. \A w \in workers[d] : w.target \notin served
    <3> SUFFICES ASSUME NEW w \in workers[d] PROVE w.target \notin served
      OBVIOUS
    <3>1. PICK i \in w.items : target[i] = w.target
      BY DEF IInv, TasksMatchTarget
    <3>2. i \in delivering[d]
      BY <3>1 DEF IInv, OneOwnerInFlight, TaskIds
    <3> QED
      BY <1>4, <3>1, <3>2
  <2>2. ASSUME NEW w1 \in workers'[d], NEW w2 \in workers'[d], w1.target = w2.target
        PROVE  w1 = w2
    <3>1. CASE w1 \in workers[d] /\ w2 \in workers[d]
      BY <2>2, <3>1 DEF IInv, OneWorkerPerTarget
    <3>2. CASE w1 \in workers[d] /\ w2 \notin workers[d]
      BY <1>5, <1>6, <2>1, <2>2, <3>2
    <3>3. CASE w1 \notin workers[d] /\ w2 \in workers[d]
      BY <1>5, <1>6, <2>1, <2>2, <3>3
    <3>4. CASE w1 \notin workers[d] /\ w2 \notin workers[d]
      BY <1>5, <1>6, <2>2, <3>4
    <3> QED
      BY <3>1, <3>2, <3>3, <3>4
  <2> QED
    BY <1>6, <2>2 DEF IInv, OneWorkerPerTarget
<1>16. OneOwnerInFlight'
  <2>1. /\ delivering[d] = TaskIds(d) \cup OutcomeIds(d) \cup parked[d]
        /\ TaskIds(d) \cap (OutcomeIds(d) \cup parked[d]) = {}
    BY DEF IInv, OneOwnerInFlight
  <2>2. /\ delivering'[d] = TaskIds(d)' \cup OutcomeIds(d) \cup parked[d]
        /\ TaskIds(d)' \cap (OutcomeIds(d) \cup parked[d]) = {}
    BY <1>6, <1>7, <1>8, <2>1
  <2>3. parked' = parked /\ \A e \in Dashboard : OutcomeIds(e)' = OutcomeIds(e)
    BY <1>2, <1>9
  <2>5. ASSUME NEW e \in Dashboard
        PROVE  /\ delivering'[e] = TaskIds(e)' \cup OutcomeIds(e)' \cup parked'[e]
               /\ TaskIds(e)' \cap (OutcomeIds(e)' \cup parked'[e]) = {}
    <3>1. CASE e = d
      BY <2>2, <2>3, <3>1
    <3>2. CASE e # d
      BY <1>6, <1>9, <2>3, <3>2 DEF IInv, OneOwnerInFlight
    <3> QED
      BY <3>1, <3>2
  <2>6. \A e \in Dashboard : /\ OutcomeIds(e)' \cap parked'[e] = {}
                             /\ WrittenIds(outcomes[e])' \cap FailedIds(outcomes[e])' = {}
    BY <1>9, <2>3 DEF IInv, OneOwnerInFlight
  <2> QED
    BY <2>5, <2>6 DEF OneOwnerInFlight
<1>17. BelowCeiling'
  BY <1>2, <1>6, <1>7 DEF IInv, BelowCeiling
<1>18. NoReinjection' /\ WrittenReached'
  BY <1>2, <1>9 DEF IInv, NoReinjection, WrittenReached, historyVars
<1>19. DeliveredReachedAgent'
  BY <1>2, <1>10 DEF IInv, DeliveredReachedAgent, historyVars
<1>20. \A i \in D : written[d][i] = 0
  BY <1>2, <1>7 DEF IInv, TypeOK, WrittenSettles
<1>21. WrittenSettles'
  <2> SUFFICES ASSUME NEW e \in Dashboard, NEW j \in MessageId
               PROVE  /\ j \in TaskIds(e)' => written'[e][j] = 0
                      /\ written'[e][j] > 0 =>
                           inbox'[j] # "queued" \/ j \in WrittenIds(outcomes[e])' \cup parked'[e]
                      /\ written'[e][j] > 0 /\ pc'[e] = "dispatch" /\ j \in pending'[e] =>
                           j \in delivering'[e]
    BY DEF WrittenSettles
  <2>1. inbox[j] # "queued" => inbox'[j] # "queued"
    BY <1>10
  <2>2. j \in TaskIds(e)' => written'[e][j] = 0
    BY <1>2, <1>8, <1>9, <1>20 DEF IInv, WrittenSettles, historyVars
  <2>3. /\ written'[e][j] = written[e][j] /\ parked'[e] = parked[e]
        /\ WrittenIds(outcomes[e])' = WrittenIds(outcomes[e])
    BY <1>2, <1>9 DEF historyVars
  <2>4. written'[e][j] > 0 => inbox'[j] # "queued" \/ j \in WrittenIds(outcomes[e])' \cup parked'[e]
    BY <2>1, <2>3 DEF IInv, WrittenSettles
  <2>5. written'[e][j] > 0 /\ pc'[e] = "dispatch" /\ j \in pending'[e] => j \in delivering'[e]
    BY <1>6, <2>3 DEF IInv, WrittenSettles
  <2> QED
    BY <2>2, <2>4, <2>5
<1>22. NoForgottenMail'
  <2> SUFFICES ASSUME NEW e \in Dashboard, NEW i \in MessageId, Deliverer(e, i)'
               PROVE  \/ pc'[e] = "read"
                      \/ pc'[e] = "dispatch" /\ i \in pending'[e]
                      \/ retry'[e]
                      \/ unseen'[e]
                      \/ TargetInFlight(e, target[i])'
    BY DEF NoForgottenMail
  <2>1. inbox[i] = "queued" /\ i \notin dropped
    BY <1>10 DEF Deliverer
  <2>2. Deliverer(e, i)
    BY <1>2, <1>6, <2>1 DEF Deliverer
  <2>3. TargetInFlight(e, target[i]) => TargetInFlight(e, target[i])'
    BY <1>2, <1>6 DEF TargetInFlight
  <2>4. CASE e # d
    BY <1>6, <2>2, <2>3, <2>4 DEF IInv, NoForgottenMail
  <2>5. CASE e = d /\ (retry[d] \/ unseen[d] \/ TargetInFlight(d, target[i]))
    BY <1>6, <2>3, <2>5
  <2>6. CASE e = d /\ ~TargetInFlight(d, target[i]) /\ i \in pending[d]
    <3>1. target[i] \in Agent
      BY <2>6 DEF IInv, IdsHandedOut
    <3>2. i \in Batch(d, target[i])
      BY <2>2, <2>6 DEF Deliverer, Batch, Deliverable
    <3>3. target[i] \in Free(d)
      BY <2>6, <3>1, <3>2 DEF Free
    <3>4. target[i] \notin served
      <4>1. i \notin D
        BY <1>6, <2>6 DEF Deliverer
      <4> QED
        BY <3>2, <4>1
    <3>5. CASE answer[target[i]] = "drop"
      <4>1. i \in retired
        BY <3>2, <3>3, <3>5
      <4>2. i \in lost
        BY <2>1, <4>1
      <4> QED
        BY <1>6, <2>6, <4>2 DEF Rearmed
    <3>6. CASE answer[target[i]] = "retry"
      BY <1>6, <2>6, <3>3, <3>6 DEF Rearmed
    <3> QED
      BY <3>3, <3>4, <3>5, <3>6 DEF served
  <2> QED
    BY <1>2, <2>2, <2>4, <2>5, <2>6 DEF IInv, NoForgottenMail
<1> QED
  BY <1>12, <1>13, <1>14, <1>15, <1>16, <1>17, <1>18, <1>19, <1>21, <1>22 DEF IInv

-----------------------------------------------------------------------------
(* The theorems.                                                           *)

LEMMA NextIInv == IInv /\ [Next]_vars => IInv'
<1> SUFFICES ASSUME IInv, [Next]_vars PROVE IInv'
  OBVIOUS
<1>1. CASE \E a \in Agent : Send(a) \/ RemoveByCli(a)
  BY <1>1, SendIInv, RemoveByCliIInv
<1>2. CASE \E d \in Dashboard, a \in Agent :
             RemoveByDashboard(d, a) \/ SessionExits(d, a) \/ RestartSession(d, a)
  BY <1>2, RemoveByDashboardIInv, SessionStepIInv
<1>3. CASE \E d \in Dashboard : Tick(d) \/ ReadInbox(d) \/ ReadFails(d) \/ Dispatch(d)
  BY <1>3, TickIInv, ReadIInv, DispatchIInv
<1>4. CASE \E d \in Dashboard : Turn(d) \/ Crash(d) \/ Start(d)
  BY <1>4, TurnIInv, CrashIInv, StartIInv
<1>5. CASE UNCHANGED vars
  <2>1. \A d \in Dashboard : /\ TaskIds(d)' = TaskIds(d)
                             /\ OutcomeIds(d)' = OutcomeIds(d)
                             /\ WrittenIds(outcomes[d])' = WrittenIds(outcomes[d])
                             /\ FailedIds(outcomes[d])' = FailedIds(outcomes[d])
    BY <1>5 DEF TaskIds, OutcomeIds, WrittenIds, FailedIds, vars, memVars
  <2>2. TypeOK' /\ IdsHandedOut' /\ TasksMatchTarget' /\ OneWorkerPerTarget'
    BY <1>5 DEF IInv, TypeOK, IdsHandedOut, TasksMatchTarget, OneWorkerPerTarget,
       vars, dbVars, memVars, historyVars
  <2>3. OneOwnerInFlight' /\ BelowCeiling' /\ NoReinjection' /\ WrittenReached'
    BY <1>5, <2>1 DEF IInv, OneOwnerInFlight, BelowCeiling, NoReinjection, WrittenReached,
       vars, dbVars, memVars, historyVars
  <2>4. WrittenSettles' /\ DeliveredReachedAgent'
    BY <1>5, <2>1 DEF IInv, WrittenSettles, DeliveredReachedAgent,
       vars, dbVars, memVars, historyVars
  <2>5. NoForgottenMail'
    BY <1>5 DEF IInv, NoForgottenMail, Deliverer, TargetInFlight, vars, dbVars, memVars
  <2> QED
    BY <2>2, <2>3, <2>4, <2>5 DEF IInv
<1> QED
  BY <1>1, <1>2, <1>3, <1>4, <1>5 DEF Next

\* Everything a dashboard keeps about mail stays consistent: IInv always holds.
THEOREM Invariance == Spec => []IInv
  BY InitIInv, NextIInv, PTL DEF Spec

\* The variables keep their types, whatever the bounds; in particular no
\* count of attempts passes MAX_DELIVERY_ATTEMPTS.
THEOREM TypeCorrect == Spec => []TypeOK
<1>1. IInv => TypeOK
  BY DEF IInv
<1> QED
  BY <1>1, Invariance, PTL

\* A running dashboard never writes a message it already wrote
\* (apply_delivery_outcomes, requeue_due_acks).
THEOREM NeverInjectedTwice == Spec => []NoReinjection
<1>1. IInv => NoReinjection
  BY DEF IInv
<1> QED
  BY <1>1, Invariance, PTL

\* Two injection tasks never run against one session (target_in_flight).
THEOREM TasksNeverShareATarget == Spec => []OneWorkerPerTarget
<1>1. IInv => OneWorkerPerTarget
  BY DEF IInv
<1> QED
  BY <1>1, Invariance, PTL

\* Every id in flight has exactly one owner that will end the flight.
THEOREM FlightHasOneOwner == Spec => []OneOwnerInFlight
<1>1. IInv => OneOwnerInFlight
  BY DEF IInv
<1> QED
  BY <1>1, Invariance, PTL

\* A message a dashboard can deliver always has something that will bring the
\* drain back to it (schedule_mail_retry and the tick's three triggers).
THEOREM MailNeverForgotten == Spec => []NoForgottenMail
<1>1. IInv => NoForgottenMail
  BY DEF IInv
<1> QED
  BY <1>1, Invariance, PTL

\* A row says delivered only if its text reached a session.
THEOREM DeliveredMeansReached == Spec => []DeliveredReachedAgent
<1>1. IInv => DeliveredReachedAgent
  BY DEF IInv
<1> QED
  BY <1>1, Invariance, PTL

-----------------------------------------------------------------------------
(***************************************************************************)
(* Order.  A drain reads the whole queue, a batch is all that can be       *)
(* delivered to its target, and a task that did not fail wrote what is no  *)
(* longer in its batch: so what a task passes over was written or given up *)
(* on.                                                                     *)
(***************************************************************************)

\* This dashboard wrote a message, or gave up on it.
Over(d, i) == written[d][i] > 0 \/ attempts[d][i] = MaxAttempts

\* What a drain read has no gap: an older message that is still queued was read.
ReadWhole ==
  \A d \in Dashboard : pc[d] = "dispatch" =>
    \A j \in pending[d], i \in MessageId : i < j /\ inbox[i] = "queued" => i \in pending[d]

\* What is ahead of a message in a batch is in the batch, or over.
Clear(d, w) ==
  ~w.failed => \A j \in w.items, i \in MessageId :
    i < j /\ target[i] = w.target /\ inbox[i] = "queued" => i \in w.items \/ Over(d, i)
NoneAhead(d) == \A w \in workers[d] : Clear(d, w)

Order == ReadWhole /\ \A d \in Dashboard : NoneAhead(d)

\* A turn of a task leaves the rows, the tick and the counts alone.
LEMMA TurnFrame ==
  ASSUME NEW d \in Dashboard, Turn(d)
  PROVE  UNCHANGED dbVars /\ UNCHANGED <<pc, pending, attempts>>
<1>1. PICK w \in workers[d] : \E i \in w.items, result \in TurnResults(w) : TurnWith(d, w, i, result)
  BY DEF Turn
<1>2. PICK i \in w.items, result \in TurnResults(w) : TurnWith(d, w, i, result)
  BY <1>1
<1> QED
  BY <1>2, Zenon DEF TurnWith

\* A queued row was queued before, or it is the newest; targets are kept.
LEMMA QueuedBefore ==
  ASSUME IInv, [Next]_vars, NEW i \in MessageId
  PROVE  /\ i <= lastId => target'[i] = target[i]
         /\ inbox'[i] = "queued" => inbox[i] = "queued" \/ i > lastId
         /\ inbox[i] = "queued" => i <= lastId
<1>0. /\ inbox \in [MessageId -> RowState] /\ target \in [MessageId -> Agent \cup {Nobody}]
      /\ lastId \in 0 .. MaxMsg /\ MaxMsg \in Nat
      /\ inbox[i] = "absent" <=> i > lastId
  BY MailboxAssumption DEF IInv, TypeOK, IdsHandedOut
<1>1. CASE \E a \in Agent : Send(a)
  BY <1>0, <1>1 DEF Send, MessageId
<1>2. CASE \E a \in Agent : RemoveRows(a)
  BY <1>0, <1>2 DEF RemoveRows, MessageId
<1>3. CASE \E d \in Dashboard : Tick(d)
  BY <1>0, <1>3 DEF Tick, TickWith, MessageId
<1>4. CASE \E d \in Dashboard : Dispatch(d)
  BY <1>0, <1>4 DEF Dispatch, DispatchWith, MessageId
<1>5. CASE UNCHANGED dbVars
  BY <1>0, <1>5 DEF dbVars, MessageId
<1>6. CASE \E d \in Dashboard : ReadInbox(d) \/ ReadFails(d) \/ Turn(d) \/ Crash(d) \/ Start(d)
  BY <1>5, <1>6, TurnFrame DEF ReadInbox, ReadFails, Crash, Start
<1>7. CASE \E d \in Dashboard, a \in Agent : SessionExits(d, a) \/ RestartSession(d, a)
  BY <1>5, <1>7 DEF SessionExits, RestartSession
<1> QED
  BY <1>1, <1>2, <1>3, <1>4, <1>5, <1>6, <1>7 DEF Next, RemoveByCli, RemoveByDashboard, vars

LEMMA ReadWholeNext ==
  ASSUME IInv, ReadWhole, [Next]_vars
  PROVE  ReadWhole'
<1>1. SUFFICES ASSUME NEW d \in Dashboard, pc'[d] = "dispatch", NEW j \in pending'[d],
                      NEW i \in MessageId, i < j, inbox'[i] = "queued"
               PROVE  i \in pending'[d]
  BY DEF ReadWhole
<1>0. /\ pc \in [Dashboard -> {"idle", "read", "dispatch"}]
      /\ pending \in [Dashboard -> SUBSET MessageId]
      /\ inbox \in [MessageId -> RowState]
      /\ lastId \in 0 .. MaxMsg /\ MaxMsg \in Nat
      /\ \A k \in pending[d] : k <= lastId
  BY MailboxAssumption DEF IInv, TypeOK, IdsHandedOut
<1>2. CASE ReadInbox(d)
  BY <1>0, <1>1, <1>2 DEF ReadInbox, dbVars
<1>3. CASE pc[d] = "dispatch" /\ pending'[d] = pending[d]
  <2>1. i <= lastId
    BY <1>0, <1>1, <1>3 DEF MessageId
  <2>2. inbox[i] = "queued"
    BY <1>0, <1>1, <2>1, QueuedBefore DEF MessageId
  <2> QED
    BY <1>1, <1>3, <2>2 DEF ReadWhole
<1>4. CASE UNCHANGED <<pc, pending>>
  BY <1>1, <1>3, <1>4
<1>5. ASSUME NEW e \in Dashboard,
             Tick(e) \/ ReadInbox(e) \/ ReadFails(e) \/ Dispatch(e) \/ Crash(e)
      PROVE  ReadInbox(d) \/ (pc[d] = "dispatch" /\ pending'[d] = pending[d])
  <2>1. CASE Tick(e)
    BY <1>0, <1>1, <2>1 DEF Tick, TickWith
  <2>2. CASE ReadInbox(e) \/ ReadFails(e)
    BY <1>0, <1>1, <2>2 DEF ReadInbox, ReadFails
  <2>3. CASE Dispatch(e)
    BY <1>0, <1>1, <2>3 DEF Dispatch, DispatchWith
  <2>4. CASE Crash(e)
    BY <1>0, <1>1, <2>4 DEF Crash
  <2> QED
    BY <1>5, <2>1, <2>2, <2>3, <2>4
<1>6. ASSUME NEW e \in Dashboard, NEW a \in Agent,
             \/ Send(a) \/ RemoveByCli(a) \/ RemoveByDashboard(e, a)
             \/ SessionExits(e, a) \/ RestartSession(e, a)
      PROVE  UNCHANGED <<pc, pending>>
  BY <1>6 DEF Send, RemoveByCli, RemoveByDashboard, SessionExits, RestartSession, memVars
<1>7. CASE \E a \in Agent : Send(a) \/ RemoveByCli(a)
  BY <1>4, <1>7 DEF Send, RemoveByCli, memVars
<1>8. CASE \E e \in Dashboard : Turn(e) \/ Start(e)
  BY <1>4, <1>8, TurnFrame DEF Start
<1>9. CASE UNCHANGED vars
  BY <1>4, <1>9 DEF vars, memVars
<1> QED
  BY <1>2, <1>3, <1>4, <1>5, <1>6, <1>7, <1>8, <1>9 DEF Next

\* A task that keeps its batch, while nothing that is over is taken up again.
LEMMA ClearKept ==
  ASSUME IInv, [Next]_vars, NEW d \in Dashboard, NEW v, NEW w \in workers[d], Clear(d, w),
         v.target = w.target, v.items = w.items, v.failed = w.failed,
         \A i \in MessageId : Over(d, i) => Over(d, i)'
  PROVE  Clear(d, v)'
<1>1. SUFFICES ASSUME ~v.failed, NEW j \in v.items, NEW i \in MessageId,
                      i < j, target'[i] = v.target, inbox'[i] = "queued"
               PROVE  i \in v.items \/ Over(d, i)'
  BY DEF Clear
<1>2. j \in MessageId /\ j <= lastId /\ lastId \in Nat
  <2>1. j \in delivering[d]
    BY <1>1 DEF IInv, OneOwnerInFlight, TaskIds
  <2> QED
    BY <2>1, MailboxAssumption DEF IInv, TypeOK, IdsHandedOut
<1>3. i <= lastId
  BY <1>1, <1>2 DEF MessageId
<1>4. target[i] = w.target /\ inbox[i] = "queued"
  BY <1>1, <1>2, <1>3, QueuedBefore DEF MessageId
<1>5. i \in w.items \/ Over(d, i)
  BY <1>1, <1>4 DEF Clear
<1> QED
  BY <1>5

\* A session that is killed leaves its tasks their batches.
LEMMA OrphanedBatches ==
  ASSUME TypeOK, NEW d \in Dashboard, NEW e \in Dashboard, NEW dead,
         workers' = [workers EXCEPT ![e] = Orphaned(e, dead)]
  PROVE  \A v \in workers'[d] : \E w \in workers[d] :
           v.target = w.target /\ v.items = w.items /\ v.failed = w.failed
<1>1. workers \in [Dashboard -> SUBSET Task]
  BY DEF TypeOK
<1>2. CASE d # e
  BY <1>1, <1>2
<1>3. CASE d = e
  <2>1. SUFFICES ASSUME NEW v \in workers'[d]
                 PROVE  \E w \in workers[d] :
                          v.target = w.target /\ v.items = w.items /\ v.failed = w.failed
    OBVIOUS
  <2>2. PICK w \in workers[d] : v = IF w.target \in dead THEN [w EXCEPT !.gone = TRUE] ELSE w
    BY <1>1, <1>3, <2>1 DEF Orphaned
  <2>3. w \in Task
    BY <1>1
  <2> QED
    BY <2>2, <2>3 DEF Task
<1> QED
  BY <1>2, <1>3

\* What is written stays written and what is given up on stays so, as long as
\* the dashboard runs.
LEMMA OverKept ==
  ASSUME IInv, Next, NEW d \in Dashboard, ~Crash(d), NEW i \in MessageId, Over(d, i)
  PROVE  Over(d, i)'
<1>0. /\ attempts \in [Dashboard -> [MessageId -> 0 .. MaxAttempts]]
      /\ written \in [Dashboard -> [MessageId -> Nat]]
      /\ MaxAttempts \in Nat
  BY MailboxAssumption DEF IInv, TypeOK
<1>1. CASE UNCHANGED <<attempts, written>>
  BY <1>1 DEF Over
<1>2. ASSUME NEW e \in Dashboard, Tick(e)
      PROVE  Over(d, i)'
  <2>1. PICK requeued \in SUBSET parked[e], due \in BOOLEAN, refreshed \in BOOLEAN :
          \E ok \in SUBSET (WrittenIds(outcomes[e]) \cup requeued) :
            TickWith(e, requeued, ok, due, refreshed)
    BY <1>2 DEF Tick
  <2>2. PICK ok \in SUBSET (WrittenIds(outcomes[e]) \cup requeued) :
          TickWith(e, requeued, ok, due, refreshed)
    BY <2>1
  <2> DEFINE os == outcomes[e] \cup
                   {[id |-> k, written |-> TRUE, attempted |-> TRUE] : k \in requeued}
  <2>3. /\ attempts' = [attempts EXCEPT ![e] = [k \in MessageId |->
             IF k \in ok THEN 0
             ELSE IF k \in ChargedIds(os) THEN attempts[e][k] + 1
             ELSE attempts[e][k]]]
        /\ written' = written
    BY <2>2 DEF TickWith, historyVars
  <2>4. ChargedIds(os) \subseteq FailedIds(outcomes[e])
    <3> DEFINE Q == {[id |-> k, written |-> TRUE, attempted |-> TRUE] : k \in requeued}
    <3>1. \A q \in Q : q.written
      <4> SUFFICES ASSUME NEW k \in requeued
                   PROVE  [id |-> k, written |-> TRUE, attempted |-> TRUE].written
        BY Zenon
      <4> QED
        OBVIOUS
    <3> HIDE DEF Q
    <3>2. ChargedIds(outcomes[e] \cup Q) \subseteq FailedIds(outcomes[e])
      BY <3>1 DEF ChargedIds, FailedIds
    <3> QED
      BY <3>2 DEF Q
  <2>5. ok \cup ChargedIds(os) \subseteq delivering[e]
    BY <2>4 DEF IInv, OneOwnerInFlight, OutcomeIds
  <2>6. i \in ok \cup ChargedIds(os) => attempts[e][i] < MaxAttempts
    BY <2>5 DEF IInv, BelowCeiling
  <2> HIDE DEF os
  <2>7. attempts[d][i] = MaxAttempts => attempts'[d][i] = MaxAttempts
    BY <1>0, <2>3, <2>6
  <2> QED
    BY <2>3, <2>7 DEF Over
<1>3. ASSUME NEW e \in Dashboard, Turn(e)
      PROVE  Over(d, i)'
  <2>1. PICK w \in workers[e] : \E k \in w.items, result \in TurnResults(w) : TurnWith(e, w, k, result)
    BY <1>3 DEF Turn
  <2>2. PICK k \in w.items, result \in TurnResults(w) : TurnWith(e, w, k, result)
    BY <2>1
  <2>3. written' = written \/ written' = [written EXCEPT ![e][k] = @ + 1]
    BY <2>2, Zenon DEF TurnWith
  <2>4. written[d][i] > 0 => written'[d][i] > 0
    BY <1>0, <2>3
  <2> QED
    BY <1>3, <2>4, TurnFrame DEF Over
<1>4. ASSUME NEW e \in Dashboard, Crash(e)
      PROVE  Over(d, i)'
  BY <1>0, <1>4 DEF Crash, Over
<1>5. ASSUME NEW e \in Dashboard, ReadInbox(e) \/ ReadFails(e) \/ Dispatch(e) \/ Start(e)
      PROVE  UNCHANGED <<attempts, written>>
  BY <1>5 DEF ReadInbox, ReadFails, Dispatch, DispatchWith, Start, historyVars
<1>6. ASSUME NEW e \in Dashboard, NEW a \in Agent,
             RemoveByDashboard(e, a) \/ SessionExits(e, a) \/ RestartSession(e, a)
      PROVE  UNCHANGED <<attempts, written>>
  BY <1>6 DEF RemoveByDashboard, SessionExits, RestartSession, memVars, historyVars
<1>7. ASSUME NEW a \in Agent, Send(a) \/ RemoveByCli(a)
      PROVE  UNCHANGED <<attempts, written>>
  BY <1>7 DEF Send, RemoveByCli, memVars, historyVars
<1> QED
  BY <1>1, <1>2, <1>3, <1>4, <1>5, <1>6, <1>7 DEF Next

\* Where the tasks of a dashboard come from.
LEMMA WhoseTasks ==
  ASSUME IInv, Next, NEW d \in Dashboard, ~Turn(d), ~Dispatch(d), ~Crash(d)
  PROVE  \A v \in workers'[d] : \E w \in workers[d] :
           v.target = w.target /\ v.items = w.items /\ v.failed = w.failed
<1>0. TypeOK /\ workers \in [Dashboard -> SUBSET Task]
  BY DEF IInv, TypeOK
<1>1. CASE workers'[d] = workers[d]
  BY <1>1
<1>2. ASSUME NEW e \in Dashboard, NEW dead, workers' = [workers EXCEPT ![e] = Orphaned(e, dead)]
      PROVE  \A v \in workers'[d] : \E w \in workers[d] :
               v.target = w.target /\ v.items = w.items /\ v.failed = w.failed
  BY <1>0, <1>2, OrphanedBatches
<1>3. ASSUME NEW e \in Dashboard, Tick(e)
      PROVE  workers' = workers \/ workers' = [workers EXCEPT ![e] = Orphaned(e, Agent \ live)]
  BY <1>3, Zenon DEF Tick, TickWith
<1>4. ASSUME NEW e \in Dashboard, ReadInbox(e) \/ ReadFails(e) \/ Start(e)
      PROVE  workers' = workers
  BY <1>4 DEF ReadInbox, ReadFails, Start
<1>5. ASSUME NEW e \in Dashboard, Dispatch(e) \/ Crash(e)
      PROVE  workers'[d] = workers[d]
  <2>1. e # d
    BY <1>5
  <2>2. \E S : workers' = [workers EXCEPT ![e] = S]
    BY <1>5, Zenon DEF Dispatch, DispatchWith, Crash
  <2> QED
    BY <1>0, <2>1, <2>2
<1>6. ASSUME NEW e \in Dashboard, Turn(e)
      PROVE  workers'[d] = workers[d]
  <2>1. PICK w \in workers[e] : \E k \in w.items, result \in TurnResults(w) : TurnWith(e, w, k, result)
    BY <1>6 DEF Turn
  <2>2. PICK k \in w.items, result \in TurnResults(w) : TurnWith(e, w, k, result)
    BY <2>1
  <2>3. \E S : workers' = [workers EXCEPT ![e] = S]
    BY <2>2, Zenon DEF TurnWith
  <2> QED
    BY <1>0, <1>6, <2>3
<1>7. ASSUME NEW a \in Agent, Send(a) \/ RemoveByCli(a)
      PROVE  workers' = workers
  BY <1>7 DEF Send, RemoveByCli
<1>8. ASSUME NEW e \in Dashboard, NEW a \in Agent,
             RemoveByDashboard(e, a) \/ SessionExits(e, a) \/ RestartSession(e, a)
      PROVE  \E dead : workers' = [workers EXCEPT ![e] = Orphaned(e, dead)]
  BY <1>8 DEF RemoveByDashboard, SessionExits, RestartSession
<1> QED
  BY <1>1, <1>2, <1>3, <1>4, <1>5, <1>6, <1>7, <1>8 DEF Next

\* A turn takes the first message of the batch: what it leaves is behind it.
LEMMA NoneAheadTurn ==
  ASSUME IInv, Next, NEW d \in Dashboard, Turn(d), ~Crash(d), NoneAhead(d)
  PROVE  NoneAhead(d)'
<1>0. /\ workers \in [Dashboard -> SUBSET Task]
      /\ written \in [Dashboard -> [MessageId -> Nat]]
      /\ \A i \in MessageId : Over(d, i) => Over(d, i)'
  BY OverKept DEF IInv, TypeOK
<1>1. PICK w \in workers[d] : \E k \in w.items, result \in TurnResults(w) : TurnWith(d, w, k, result)
  BY DEF Turn
<1>2. PICK k \in w.items, result \in TurnResults(w) : TurnWith(d, w, k, result)
  BY <1>1
<1>3. SUFFICES ASSUME NEW v \in workers'[d]
               PROVE  Clear(d, v)'
  BY DEF NoneAhead
<1>4. \A u \in workers[d] : Clear(d, u)'
  BY <1>0, ClearKept DEF NoneAhead
<1> DEFINE rest == [w EXCEPT !.items = w.items \ {k}, !.failed = result # "written"]
<1>5. v \in workers[d] \/ v = rest
  <2>1. workers' = [workers EXCEPT ![d] = (workers[d] \ {w}) \cup
          (IF rest.items = {} THEN {} ELSE {rest})]
    BY <1>2, Zenon DEF TurnWith
  <2> HIDE DEF rest
  <2> QED
    BY <1>0, <2>1
<1>6. CASE v = rest
  <2>1. w \in Task
    BY <1>0
  <2>2. /\ rest.items = w.items \ {k} /\ rest.target = w.target
        /\ rest.failed = (result # "written")
    BY <2>1 DEF Task
  <2>3. SUFFICES ASSUME result = "written", NEW j \in w.items, NEW i \in MessageId,
                        i < j, target'[i] = w.target, inbox'[i] = "queued"
                 PROVE  i \in w.items \ {k} \/ Over(d, i)'
    <3> HIDE DEF rest
    <3> QED
      BY <1>6, <2>2, <2>3 DEF Clear
  <2>4. ~w.failed
    BY <2>3 DEF TurnResults
  <2>5. i \in w.items \/ Over(d, i)'
    BY <1>4, <2>3, <2>4 DEF Clear
  <2>6. written' = [written EXCEPT ![d][k] = @ + 1]
    BY <1>2, <2>3, Zenon DEF TurnWith
  <2>7. i = k => Over(d, i)'
    BY <1>0, <2>3, <2>6 DEF Over
  <2> QED
    BY <2>5, <2>7
<1> QED
  BY <1>4, <1>5, <1>6

\* A new task has all that can be delivered to its target: nothing for it was in
\* flight, and the drain had read the whole queue.
LEMMA NoneAheadDispatch ==
  ASSUME IInv, ReadWhole, Next, NEW d \in Dashboard, Dispatch(d), ~Crash(d), NoneAhead(d)
  PROVE  NoneAhead(d)'
<1>0. /\ workers \in [Dashboard -> SUBSET Task]
      /\ inbox \in [MessageId -> RowState]
      /\ pending \in [Dashboard -> SUBSET MessageId]
      /\ attempts \in [Dashboard -> [MessageId -> 0 .. MaxAttempts]]
      /\ MaxAttempts \in Nat
      /\ \A i \in MessageId : Over(d, i) => Over(d, i)'
  BY OverKept, MailboxAssumption DEF IInv, TypeOK
<1>1. PICK answer \in [Free(d) -> {"session", "drop", "retry"}], lost \in SUBSET pending[d] :
        DispatchWith(d, answer, lost)
  BY DEF Dispatch
<1>2. SUFFICES ASSUME NEW v \in workers'[d]
               PROVE  Clear(d, v)'
  BY DEF NoneAhead
<1>3. \A u \in workers[d] : Clear(d, u)'
  BY <1>0, ClearKept DEF NoneAhead
<1>4. v \in workers[d] \/ \E a \in Free(d) :
        v = [target |-> a, items |-> Batch(d, a), failed |-> FALSE, gone |-> session[d][a] = "exited"]
  <2> DEFINE served == {a \in Free(d) : answer[a] = "session"}
             new == {[target |-> a, items |-> Batch(d, a), failed |-> FALSE,
                      gone |-> session[d][a] = "exited"] : a \in served}
  <2>1. workers' = [workers EXCEPT ![d] = @ \cup new]
    BY <1>1, Zenon DEF DispatchWith
  <2>2. v \in new => \E a \in Free(d) :
          v = [target |-> a, items |-> Batch(d, a), failed |-> FALSE,
               gone |-> session[d][a] = "exited"]
    BY Zenon
  <2> HIDE DEF new
  <2> QED
    BY <1>0, <2>1, <2>2
<1>5. ASSUME NEW a \in Free(d),
             v = [target |-> a, items |-> Batch(d, a), failed |-> FALSE,
                  gone |-> session[d][a] = "exited"]
      PROVE  Clear(d, v)'
  <2>1. v.items = Batch(d, a) /\ v.target = a
    BY <1>5
  <2>2. SUFFICES ASSUME NEW j \in Batch(d, a), NEW i \in MessageId, i < j,
                        target'[i] = a, inbox'[i] = "queued"
                 PROVE  i \in Batch(d, a) \/ Over(d, i)'
    BY <2>1 DEF Clear
  <2>3. pc[d] = "dispatch" /\ target' = target /\ inbox[i] = "queued"
    BY <1>0, <1>1, <2>2 DEF DispatchWith, MessageId
  <2>4. j \in pending[d]
    BY <2>2 DEF Batch, Deliverable
  <2>5. i \in pending[d]
    BY <2>2, <2>3, <2>4 DEF ReadWhole
  <2>6. i \notin delivering[d]
    BY <1>5, <2>2, <2>3 DEF Free, TargetInFlight
  <2>7. CASE attempts[d][i] < MaxAttempts
    BY <2>2, <2>3, <2>5, <2>6, <2>7 DEF Batch, Deliverable
  <2>8. CASE attempts[d][i] = MaxAttempts
    BY <1>0, <2>8 DEF Over
  <2>9. attempts[d][i] < MaxAttempts \/ attempts[d][i] = MaxAttempts
    <3>1. attempts[d][i] \in 0 .. MaxAttempts
      BY <1>0
    <3>2. MaxAttempts \in Nat
      BY <1>0
    <3> QED
      BY <3>1, <3>2
  <2> QED
    BY <2>7, <2>8, <2>9
<1> QED
  BY <1>3, <1>4, <1>5

LEMMA OrderNext ==
  ASSUME IInv, Order, [Next]_vars
  PROVE  Order'
<1>1. ReadWhole'
  BY ReadWholeNext DEF Order
<1>2. ASSUME NEW d \in Dashboard, Next
      PROVE  NoneAhead(d)'
  <2>1. CASE Crash(d)
    <3>1. workers'[d] = {}
      BY <2>1 DEF Crash, IInv, TypeOK
    <3> QED
      BY <3>1 DEF NoneAhead
  <2>2. CASE Turn(d) /\ ~Crash(d)
    BY <1>2, <2>2, NoneAheadTurn DEF Order
  <2>3. CASE Dispatch(d) /\ ~Crash(d)
    BY <1>2, <2>3, NoneAheadDispatch DEF Order
  <2>4. CASE ~Turn(d) /\ ~Dispatch(d) /\ ~Crash(d)
    <3>1. SUFFICES ASSUME NEW v \in workers'[d]
                   PROVE  Clear(d, v)'
      BY DEF NoneAhead
    <3>2. PICK w \in workers[d] : v.target = w.target /\ v.items = w.items /\ v.failed = w.failed
      BY <1>2, <2>4, WhoseTasks
    <3> QED
      BY <1>2, <2>4, <3>2, OverKept, ClearKept DEF Order, NoneAhead
  <2> QED
    BY <2>1, <2>2, <2>3, <2>4
<1>3. ASSUME UNCHANGED vars
      PROVE  \A d \in Dashboard : NoneAhead(d)'
  BY <1>3 DEF Order, NoneAhead, Clear, Over, vars, dbVars, memVars, historyVars
<1> QED
  BY <1>1, <1>2, <1>3 DEF Order

\* Messages to one agent are written in the order they were sent: an older one
\* that is still queued was written, or its attempts are used up, before a younger
\* one is (drain_agent_messages: one batch per target, in id order, whose tail
\* stops at the first failure).
THEOREM MailInOrder == Spec => WritesInOrder
<1>1. Init => Order
  BY DEF Init, Order, ReadWhole, NoneAhead
<1>2. ASSUME IInv, Order, Next, NEW d \in Dashboard, NEW i \in MessageId, NEW j \in MessageId,
             written'[d][j] > written[d][j], i < j, target[i] = target[j], inbox[i] = "queued"
      PROVE  Over(d, i)
  <2>0. written \in [Dashboard -> [MessageId -> Nat]]
    BY <1>2 DEF IInv, TypeOK
  <2>1. PICK e \in Dashboard : Turn(e)
    <3>1. ASSUME NEW e \in Dashboard, Crash(e)
          PROVE  FALSE
      BY <1>2, <2>0, <3>1 DEF Crash
    <3>2. ASSUME UNCHANGED written
          PROVE  FALSE
      BY <1>2, <2>0, <3>2
    <3>3. ASSUME NEW e \in Dashboard, Tick(e)
          PROVE  UNCHANGED written
      BY <3>3, Zenon DEF Tick, TickWith, historyVars
    <3>4. ASSUME NEW e \in Dashboard, ReadInbox(e) \/ ReadFails(e) \/ Dispatch(e) \/ Start(e)
          PROVE  UNCHANGED written
      BY <3>4 DEF ReadInbox, ReadFails, Dispatch, DispatchWith, Start, historyVars
    <3>5. ASSUME NEW e \in Dashboard, NEW a \in Agent,
                 RemoveByDashboard(e, a) \/ SessionExits(e, a) \/ RestartSession(e, a)
          PROVE  UNCHANGED written
      BY <3>5 DEF RemoveByDashboard, SessionExits, RestartSession, historyVars
    <3>6. ASSUME NEW a \in Agent, Send(a) \/ RemoveByCli(a)
          PROVE  UNCHANGED written
      BY <3>6 DEF Send, RemoveByCli, historyVars
    <3> QED
      BY <1>2, <3>1, <3>2, <3>3, <3>4, <3>5, <3>6 DEF Next
  <2>2. PICK w \in workers[e] : \E k \in w.items, result \in TurnResults(w) : TurnWith(e, w, k, result)
    BY <2>1 DEF Turn
  <2>3. PICK k \in w.items, result \in TurnResults(w) : TurnWith(e, w, k, result)
    BY <2>2
  <2>4. written' = IF result = "written" THEN [written EXCEPT ![e][k] = @ + 1] ELSE written
    BY <2>3, Zenon DEF TurnWith
  <2>5. e = d /\ k = j /\ result = "written"
    BY <1>2, <2>0, <2>4
  <2>6. ~w.failed /\ IsFirst(j, w.items)
    BY <2>3, <2>5, Zenon DEF TurnWith, TurnResults
  <2>7. target[j] = w.target
    BY <1>2, <2>5 DEF IInv, TasksMatchTarget
  <2>8. i \notin w.items
    BY <1>2, <2>6 DEF IsFirst, MessageId
  <2> QED
    BY <1>2, <2>5, <2>6, <2>7, <2>8 DEF Order, NoneAhead, Clear
<1>3. ASSUME IInv, Order, [Next]_vars
      PROVE  [\A d \in Dashboard : \A i, j \in MessageId :
               /\ written'[d][j] > written[d][j]
               /\ i < j /\ target[i] = target[j] /\ inbox[i] = "queued"
               => written[d][i] > 0 \/ attempts[d][i] = MaxAttempts]_vars
  BY <1>2, <1>3 DEF Over
<1>4. IInv /\ Order /\ [Next]_vars => Order'
  BY OrderNext
<1> QED
  BY <1>1, <1>3, <1>4, Invariance, PTL DEF Spec, WritesInOrder

-----------------------------------------------------------------------------
(***************************************************************************)
(* Mailbox implements MailQueue: a Send is a Send, a removal a Discard, a  *)
(* tick's acks are a Deliver, the retirements of a dispatch a Drop, and a  *)
(* turn that lands is a Reach.  Every other step stutters.                 *)
(***************************************************************************)
LEMMA InitRefines == Init => Queue!Init
  BY DEF Init, Queue!Init, MessageId, Queue!MessageId

LEMMA NextRefines ==
  ASSUME IInv, [Next]_vars
  PROVE  [Queue!Next]_(Queue!vars)
<1> USE MailboxAssumption
<1> DEFINE Stutters == UNCHANGED <<inbox, reached>>
<1>0. Stutters => [Queue!Next]_(Queue!vars)
  BY DEF Queue!vars
<1> HIDE DEF Stutters
<1>1. ASSUME NEW a \in Agent, Send(a) PROVE Queue!Next
  <2>1. lastId + 1 \in Queue!MessageId /\ lastId + 1 \in MessageId
    BY <1>1 DEF IInv, TypeOK, Send, MessageId, Queue!MessageId
  <2>2. inbox[lastId + 1] = "absent"
    BY <2>1 DEF IInv, TypeOK, IdsHandedOut, MessageId
  <2>3. \A j \in Queue!MessageId : j < lastId + 1 => inbox[j] # "absent"
    BY DEF IInv, TypeOK, IdsHandedOut, MessageId, Queue!MessageId
  <2>4. Queue!Send(lastId + 1)
    BY <1>1, <2>2, <2>3 DEF Send, Queue!Send, historyVars
  <2> QED
    BY <2>1, <2>4 DEF Queue!Next
<1>2. ASSUME NEW a \in Agent, RemoveRows(a), UNCHANGED reached PROVE Queue!Next
  <2> DEFINE S == {i \in MessageId : target[i] = a}
  <2>1. \A i \in S : inbox[i] # "absent"
    BY DEF IInv, TypeOK, IdsHandedOut, MessageId
  <2>2. S \in SUBSET Queue!MessageId
    BY DEF MessageId, Queue!MessageId
  <2>3. inbox' = [i \in Queue!MessageId |-> IF i \in S THEN "deleted" ELSE inbox[i]]
    BY <1>2 DEF RemoveRows, MessageId, Queue!MessageId
  <2> HIDE DEF S
  <2>4. Queue!Discard(S)
    BY <1>2, <2>1, <2>3 DEF Queue!Discard
  <2> QED
    BY <2>2, <2>4 DEF Queue!Next
<1>3. ASSUME NEW d \in Dashboard, Tick(d) PROVE Queue!Next
  <2>1. PICK requeued \in SUBSET parked[d], due \in BOOLEAN, refreshed \in BOOLEAN :
          \E ok \in SUBSET (WrittenIds(outcomes[d]) \cup requeued) :
            TickWith(d, requeued, ok, due, refreshed)
    BY <1>3 DEF Tick
  <2>2. PICK ok \in SUBSET (WrittenIds(outcomes[d]) \cup requeued) :
          TickWith(d, requeued, ok, due, refreshed)
    BY <2>1
  <2> DEFINE S == {i \in ok : inbox[i] = "queued"}
  <2>3. inbox' = [i \in MessageId |-> IF i \in S THEN "delivered" ELSE inbox[i]]
        /\ UNCHANGED reached
    BY <2>2 DEF TickWith, historyVars
  <2>4. ok \subseteq reached
    BY DEF IInv, WrittenReached
  <2>5. S \in SUBSET Queue!MessageId
    BY <2>4 DEF IInv, TypeOK, MessageId, Queue!MessageId
  <2>6. Queue!Deliver(S)
    BY <2>3, <2>4 DEF Queue!Deliver, MessageId, Queue!MessageId
  <2> HIDE DEF S
  <2> QED
    BY <2>5, <2>6 DEF Queue!Next
<1>4. ASSUME NEW d \in Dashboard, Dispatch(d) PROVE Queue!Next
  <2>1. PICK answer \in [Free(d) -> {"session", "drop", "retry"}], lost \in SUBSET pending[d] :
          DispatchWith(d, answer, lost)
    BY <1>4 DEF Dispatch
  <2> DEFINE retired == UNION {Batch(d, a) : a \in {b \in Free(d) : answer[b] = "drop"}}
             S == {i \in retired \ lost : inbox[i] \in {"queued", "delivered"}}
  <2>2. inbox' = [i \in MessageId |-> IF i \in S THEN "dropped" ELSE inbox[i]]
        /\ UNCHANGED reached
    BY <2>1 DEF DispatchWith, historyVars
  <2>3. retired \subseteq MessageId
    BY DEF IInv, TypeOK, Batch, Deliverable
  <2>4. S \in SUBSET Queue!MessageId
    BY <2>3 DEF MessageId, Queue!MessageId
  <2>5. Queue!Drop(S)
    BY <2>2 DEF Queue!Drop, MessageId, Queue!MessageId
  <2> HIDE DEF S
  <2> QED
    BY <2>4, <2>5 DEF Queue!Next
<1>5. ASSUME NEW d \in Dashboard, Turn(d) PROVE [Queue!Next]_(Queue!vars)
  <2>1. PICK w \in workers[d] : \E i \in w.items, result \in TurnResults(w) : TurnWith(d, w, i, result)
    BY <1>5 DEF Turn
  <2>2. PICK i \in w.items, result \in TurnResults(w) : TurnWith(d, w, i, result)
    BY <2>1
  <2>3. UNCHANGED inbox /\ (reached' = reached \cup {i} \/ reached' = reached)
    BY <2>2 DEF TurnWith, dbVars
  <2>4. i \in delivering[d]
    BY DEF IInv, OneOwnerInFlight, TaskIds
  <2>5. i \in MessageId /\ inbox[i] # "absent"
    BY <2>4 DEF IInv, TypeOK, IdsHandedOut, MessageId
  <2>6. CASE reached' = reached \cup {i}
    BY <2>3, <2>5, <2>6 DEF Queue!Reach, Queue!Next, MessageId, Queue!MessageId
  <2>7. CASE reached' = reached
    BY <1>0, <2>3, <2>7 DEF Stutters
  <2> QED
    BY <2>3, <2>6, <2>7
<1>6. ASSUME NEW d \in Dashboard, NEW a \in Agent,
             SessionExits(d, a) \/ RestartSession(d, a)
      PROVE  Stutters
  BY <1>6 DEF Stutters, SessionExits, RestartSession, dbVars, historyVars
<1>7. ASSUME NEW d \in Dashboard, ReadInbox(d) \/ ReadFails(d) \/ Crash(d) \/ Start(d)
      PROVE  Stutters
  BY <1>7 DEF Stutters, ReadInbox, ReadFails, Crash, Start, dbVars, historyVars
<1>8. CASE UNCHANGED vars
  BY <1>0, <1>8 DEF Stutters, vars, dbVars, historyVars
<1>9. CASE Next
  BY <1>0, <1>1, <1>2, <1>3, <1>4, <1>5, <1>6, <1>7, <1>9
     DEF Next, RemoveByCli, RemoveByDashboard, historyVars
<1> QED
  BY <1>8, <1>9

\* The inbox of the agents is an at-least-once queue: what senders and
\* readers of agent_messages see is a behaviour of MailQueue.
THEOREM Refinement == Spec => ImplementsQueue
<1>1. IInv /\ [Next]_vars => [Queue!Next]_(Queue!vars)
  BY NextRefines
<1> QED
  BY <1>1, InitRefines, Invariance, PTL DEF Spec, ImplementsQueue, Queue!Spec
=============================================================================
