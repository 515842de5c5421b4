--------------------------- MODULE ShareRequests ---------------------------
(***************************************************************************)
(* `wsx workspace share --restart`: a CLI process asks whichever dashboard *)
(* runs a workspace's agents to move them into tmux.  The request is a row *)
(* of share_requests that dashboards race to claim and the CLI polls,      *)
(* withdraws or collects, all of them by their own clock.                  *)
(*                                                                         *)
(* Time passes in units (Elapse).  A row has the time since its last stamp *)
(* (created_at, claimed_at or finished_at), a CLI the time it has waited.  *)
(***************************************************************************)
EXTENDS Naturals, FiniteSets

CONSTANTS
  Dashboard,    \* the dashboards that may run against the database
  Workspace,    \* the workspaces
  Agent,        \* agent instances
  Home,         \* the workspace of each instance
  MaxRequest,   \* bound: how many CLI processes ask
  MaxCrash,     \* bound: how many times dashboards stop
  Defer,        \* DEFER_MS
  ClaimWait,    \* ShareWaits.claim
  Stale,        \* STALE_AFTER_MS
  FinishWait,   \* ShareWaits.claim + ShareWaits.finish
  Purge,        \* PURGE_FINISHED_AFTER_MS
  Prompt        \* whether every running dashboard ticks in every unit

ASSUME ShareAssumption ==
  /\ Home \in [Agent -> Workspace]
  /\ {MaxRequest, MaxCrash, Defer, ClaimWait, Stale, FinishWait, Purge} \subseteq Nat
  /\ Defer < ClaimWait /\ ClaimWait < Stale /\ Stale < FinishWait /\ FinishWait < Purge
  /\ Prompt \in BOOLEAN

VARIABLES
  \* the database and the tmux server
  row,       \* request id -> state of its share_requests row
  age,       \* request id -> time since the row's last stamp
  of,        \* request id -> the workspace it is about
  lastId,    \* the AUTOINCREMENT counter
  shared,    \* the workspaces whose shared flag is set
  tmux,      \* the instances that have a live tmux session on the host
  \* the CLI process of each request
  cli,       \* where it is, or how it ended
  waited,    \* for how long it has polled the row
  \* each dashboard
  up,        \* whether it runs
  pc,        \* where its tick is
  unseen,    \* whether data_version moved since it last looked
  again,     \* share_drain_pending
  work,      \* the requests it claimed and has not finished
  result,    \* how sharing for the first of them went
  session,   \* its SessionManager's entry for each instance
  known,     \* the workspaces that it takes for shared, as of its last refresh
  ticked,    \* whether it ticked in this unit (kept under Prompt)
  \* history
  crashes,   \* how many times a dashboard stopped
  acts,      \* how often a dashboard acted on a request
  steady,    \* the dashboards that ran ever since a request was made, and
  owners     \* those that owned its workspace all along (under Prompt)

Request == 1 .. MaxRequest

dbVars == <<row, age, of, lastId>>
cliVars == <<cli, waited>>
tickVars == <<pc, unseen, again, work, result, ticked>>
agentVars == <<shared, tmux, session, known>>
historyVars == <<acts, steady, owners>>
vars == <<dbVars, cliVars, up, tickVars, agentVars, crashes, historyVars>>

RowState == {"none", "pending", "claimed", "finished", "failed", "gone"}
Polling == {"polling", "withdrawing"}
Waiting == Polling \cup {"collecting", "checking"}
Ended == {"live", "refused", "late", "failed", "vanished", "down", "killed"}

TypeOK ==
  /\ row \in [Request -> RowState]
  /\ age \in [Request -> 0 .. Purge + 1]
  /\ of \in [Request -> Workspace]
  /\ lastId \in 0 .. MaxRequest
  /\ shared \subseteq Workspace /\ tmux \subseteq Agent
  /\ cli \in [Request -> {"none"} \cup Waiting \cup Ended]
  /\ waited \in [Request -> 0 .. FinishWait]
  /\ up \in [Dashboard -> BOOLEAN]
  /\ pc \in [Dashboard -> {"idle", "claim", "act", "finish"}]
  /\ unseen \in [Dashboard -> BOOLEAN] /\ again \in [Dashboard -> BOOLEAN]
  /\ ticked \in [Dashboard -> BOOLEAN]
  /\ work \in [Dashboard -> SUBSET Request]
  /\ \A d \in Dashboard : pc[d] \in {"act", "finish"} <=> work[d] # {}
  /\ result \in [Dashboard -> {"finished", "failed"}]
  /\ session \in [Dashboard -> [Agent -> {"none", "direct", "tmux", "exited"}]]
  /\ known \in [Dashboard -> SUBSET Workspace]
  /\ crashes \in 0 .. MaxCrash
  /\ acts \in [Request -> Nat]
  /\ steady \in [Request -> SUBSET Dashboard]
  /\ owners \in [Request -> SUBSET Dashboard]

-----------------------------------------------------------------------------
\* The dashboard starts with share_drain_pending set: requests may wait for it.
Init ==
  /\ row = [r \in Request |-> "none"]
  /\ age = [r \in Request |-> 0]
  /\ of \in [Request -> Workspace]
  /\ lastId = 0
  /\ shared = {} /\ tmux = {}
  /\ cli = [r \in Request |-> "none"]
  /\ waited = [r \in Request |-> 0]
  /\ up = [d \in Dashboard |-> TRUE]
  /\ pc = [d \in Dashboard |-> "idle"]
  /\ unseen = [d \in Dashboard |-> FALSE]
  /\ again = [d \in Dashboard |-> TRUE]
  /\ work = [d \in Dashboard |-> {}]
  /\ result = [d \in Dashboard |-> "finished"]
  /\ session = [d \in Dashboard |-> [a \in Agent |-> "none"]]
  /\ known = [d \in Dashboard |-> {}]
  /\ ticked = [d \in Dashboard |-> FALSE]
  /\ crashes = 0
  /\ acts = [r \in Request |-> 0]
  /\ steady = [r \in Request |-> {}]
  /\ owners = [r \in Request |-> {}]

Instances(w) == {a \in Agent : Home[a] = w}

\* Owning a workspace is running a direct agent of it: only this dashboard
\* could kill it.
Owns(d, w) == \E a \in Instances(w) : session[d][a] = "direct"

\* Every agent has a session name and that session is alive.
all_live(w) == w \in shared /\ Instances(w) # {} /\ Instances(w) \subseteq tmux

\* A commit by `who` moves data_version for every other dashboard that runs.
Committed(who) == [d \in Dashboard |-> unseen[d] \/ (up[d] /\ d \notin who)]

\* The owners that are left once sessions and dashboards have changed.
OwnersLeft == owners' = [r \in Request |-> {d \in owners[r] : up'[d] /\ Owns(d, of[r])'}]

-----------------------------------------------------------------------------
(* The CLI: share_and_restart.                                             *)

Enqueue(w) ==
  LET r == lastId + 1
  IN /\ r \in Request
     /\ ~all_live(w)
     /\ lastId' = r
     /\ of' = [of EXCEPT ![r] = w]
     /\ row' = [row EXCEPT ![r] = "pending"]
     /\ cli' = [cli EXCEPT ![r] = "polling"]
     /\ unseen' = Committed({})
     /\ steady' = [steady EXCEPT ![r] = {d \in Dashboard : Prompt /\ up[d]}]
     /\ owners' = [owners EXCEPT ![r] = {d \in Dashboard : Prompt /\ up[d] /\ Owns(d, w)}]
     /\ UNCHANGED <<age, waited, up, pc, again, work, result, ticked, agentVars,
                    crashes, acts>>

\* A bug: a claimed request is waited for without end.
NextForCli_WaitsForever(r) ==
  CASE row[r] = "pending" /\ waited[r] >= ClaimWait -> "withdrawing"
    [] row[r] \in {"finished", "failed"} -> "collecting"
    [] row[r] = "gone" -> "vanished"
    [] OTHER -> "polling"

\* A bug: a row that is not there any more is taken for one that was answered.
NextForCli_GoneIsDone(r) ==
  CASE row[r] = "pending" /\ waited[r] >= ClaimWait -> "withdrawing"
    [] row[r] = "claimed" /\ waited[r] >= FinishWait -> "late"
    [] row[r] \in {"finished", "failed", "gone"} -> "collecting"
    [] OTHER -> "polling"

\* One turn of the polling loop: what the row's state calls for.
NextForCli(r) ==
  CASE row[r] = "pending" /\ waited[r] >= ClaimWait -> "withdrawing"
    [] row[r] = "claimed" /\ waited[r] >= FinishWait -> "late"
    [] row[r] \in {"finished", "failed"} -> "collecting"
    [] row[r] = "gone" -> "vanished"
    [] OTHER -> "polling"

Poll(r) ==
  /\ cli[r] = "polling"
  /\ NextForCli(r) # "polling"
  /\ cli' = [cli EXCEPT ![r] = NextForCli(r)]
  /\ waited' = IF NextForCli(r) = "withdrawing" THEN waited ELSE [waited EXCEPT ![r] = 0]
  /\ UNCHANGED <<dbVars, up, tickVars, agentVars, crashes, historyVars>>

\* A bug: the request is withdrawn without asking whether it was claimed.
Withdrawn_Always(r) == TRUE

\* withdraw_share_request succeeds only for a request no dashboard claimed.
Withdrawn(r) == row[r] = "pending"

withdraw_share_request(r) ==
  /\ cli[r] = "withdrawing"
  /\ row' = IF Withdrawn(r) THEN [row EXCEPT ![r] = "gone"] ELSE row
  /\ age' = IF Withdrawn(r) THEN [age EXCEPT ![r] = 0] ELSE age
  /\ cli' = [cli EXCEPT ![r] = IF Withdrawn(r) THEN "refused" ELSE "polling"]
  /\ waited' = IF Withdrawn(r) THEN [waited EXCEPT ![r] = 0] ELSE waited
  /\ unseen' = IF Withdrawn(r) THEN Committed({}) ELSE unseen
  /\ UNCHANGED <<of, lastId, up, pc, again, work, result, ticked, agentVars, crashes,
                 historyVars>>

\* A finished row is deleted and its outcome reported.
Collect(r, outcome) ==
  /\ cli[r] = "collecting"
  /\ outcome = IF row[r] = "failed" THEN "failed" ELSE "checking"
  /\ row' = [row EXCEPT ![r] = "gone"]
  /\ age' = [age EXCEPT ![r] = 0]
  /\ cli' = [cli EXCEPT ![r] = outcome]
  /\ unseen' = Committed({})
  /\ UNCHANGED <<of, lastId, waited, up, pc, again, work, result, ticked,
                 agentVars, crashes, historyVars>>

\* The wait for the tmux clients to create their sessions, and its timeout.
CheckLive(r) ==
  /\ cli[r] = "checking"
  /\ cli' = [cli EXCEPT ![r] = IF all_live(of[r]) THEN "live" ELSE "down"]
  /\ UNCHANGED <<dbVars, waited, up, tickVars, agentVars, crashes, historyVars>>

\* The CLI is killed, or stops on an error of the database: its row stays.
Kill(r) ==
  /\ cli[r] \in Waiting
  /\ cli' = [cli EXCEPT ![r] = "killed"]
  /\ waited' = [waited EXCEPT ![r] = 0]
  /\ UNCHANGED <<dbVars, up, tickVars, agentVars, crashes, historyVars>>

-----------------------------------------------------------------------------
(* A dashboard's tick, under the App lock.                                 *)

\* poll_external_changes: the drain runs if another process committed, or if
\* the last one left something to look at again.
Look(d, refreshed) ==
  LET external == unseen[d] /\ refreshed
      drain == external \/ again[d]
  IN /\ up[d] /\ pc[d] = "idle"
     /\ unseen' = [unseen EXCEPT ![d] = @ /\ ~refreshed]
     /\ known' = IF external THEN [known EXCEPT ![d] = shared] ELSE known
     /\ pc' = [pc EXCEPT ![d] = IF drain THEN "claim" ELSE "idle"]
     /\ ticked' = [ticked EXCEPT ![d] = Prompt /\ (@ \/ (refreshed /\ ~drain))]
     /\ UNCHANGED <<dbVars, cliVars, up, again, work, result, shared, tmux, session,
                    crashes, historyVars>>

\* Bugs: no grace for the owner; requests claimed twice.
Due_NoGrace(d, r) == TRUE
Open_ClaimedToo == {r \in Request : row[r] \in {"pending", "claimed"} /\ age[r] <= Stale}

\* The unclaimed requests that are not abandoned.
Open == {r \in Request : row[r] = "pending" /\ age[r] <= Stale}

\* What a dashboard claims at once, and what it leaves for its owner first.
Due(d, r) == Owns(d, of[r]) \/ age[r] >= Defer

\* A bug: what was left for the owner is not looked at again.
LookAgain_Never(d) == FALSE

LookAgain(d) == \E r \in Open : ~Due(d, r)

Purged == {r \in Request : row[r] \in {"claimed", "finished", "failed"} /\ age[r] > Purge}
Abandoned == {r \in Request : row[r] = "pending" /\ r \notin Open}

\* A bug: the loop over the claimed requests leaves out the last one.
AfterWork_LeavesOne(S) == IF Cardinality(S) <= 1 THEN "idle" ELSE "act"

\* drain_share_requests goes on until every claimed request is answered.
AfterWork(S) == IF S = {} THEN "idle" ELSE "act"

\* One IMMEDIATE transaction.
claim_share_requests(d) ==
  LET claimed == {r \in Open : Due(d, r)}
  IN /\ up[d] /\ pc[d] = "claim"
     /\ row' = [r \in Request |-> IF r \in Purged \cup Abandoned THEN "gone"
                                  ELSE IF r \in claimed THEN "claimed" ELSE row[r]]
     /\ age' = [r \in Request |-> IF r \in claimed \cup Purged \cup Abandoned THEN 0 ELSE age[r]]
     /\ work' = [work EXCEPT ![d] = claimed]
     /\ again' = [again EXCEPT ![d] = LookAgain(d)]
     /\ unseen' = IF row' # row THEN Committed({d}) ELSE unseen
     /\ pc' = [pc EXCEPT ![d] = AfterWork(claimed)]
     /\ ticked' = [ticked EXCEPT ![d] = Prompt /\ (@ \/ claimed = {})]
     /\ UNCHANGED <<of, lastId, cliVars, up, result, agentVars, crashes, historyVars>>

\* Another process holds the write lock: the drain fails fast.
ClaimBusy(d) ==
  /\ up[d] /\ pc[d] = "claim"
  /\ again' = [again EXCEPT ![d] = TRUE]
  /\ pc' = [pc EXCEPT ![d] = "idle"]
  /\ UNCHANGED <<dbVars, cliVars, up, unseen, work, result, ticked, agentVars,
                 crashes, historyVars>>

IsFirst(r, S) == r \in S /\ \A q \in S : r <= q

\* A bug: an exited entry is left alone, and makes the ensure a no-op.
Kept_ExitedToo(d, w) == {a \in Instances(w) : session[d][a] \in {"tmux", "exited"}}

\* The instances whose session a share leaves alone.
Kept(d, w) == {a \in Instances(w) : session[d][a] = "tmux"}

\* What setting the flag leaves: it is written, and App::workspaces read anew,
\* unless the dashboard takes the workspace for shared already.
Flagged(d, w) ==
  IF w \in known[d] THEN UNCHANGED <<shared, known>>
  ELSE shared' = shared \cup {w} /\ known' = [known EXCEPT ![d] = shared \cup {w}]

\* force_share_workspace goes through: every instance that does not run in
\* tmux is killed or forgotten, and started there.  `down` did not start.
Share(d, w, down) ==
  /\ down \subseteq Instances(w) \ Kept(d, w)
  /\ Flagged(d, w)
  /\ tmux' = tmux \cup (Instances(w) \ (Kept(d, w) \cup down))
  /\ session' = [session EXCEPT ![d] = [a \in Agent |->
       IF a \notin Instances(w) \/ a \in Kept(d, w) THEN session[d][a]
       ELSE IF a \in down THEN "none" ELSE "tmux"]]
  /\ result' = [result EXCEPT ![d] = IF down = {} THEN "finished" ELSE "failed"]

\* It stops before it touches an agent: the workspace is not found or being
\* archived, tmux is missing, a read or a write fails, the flag set or not.
ShareRefused(d, w) ==
  /\ shared' = shared \/ (w \notin known[d] /\ shared' = shared \cup {w})
  /\ known' = known \/ known' = [known EXCEPT ![d] = shared']
  /\ result' = [result EXCEPT ![d] = "failed"]
  /\ UNCHANGED <<tmux, session>>

force_share_workspace(d, r) ==
  /\ up[d] /\ pc[d] = "act"
  /\ IsFirst(r, work[d])
  /\ (\E down \in SUBSET Instances(of[r]) : Share(d, of[r], down)) \/ ShareRefused(d, of[r])
  /\ pc' = [pc EXCEPT ![d] = "finish"]
  /\ acts' = [acts EXCEPT ![r] = @ + 1]
  /\ unseen' = IF shared' # shared THEN Committed({d}) ELSE unseen
  /\ UNCHANGED <<dbVars, cliVars, up, again, work, ticked, crashes, steady>>
  /\ OwnersLeft

\* The outcome is recorded, unless the write fails.
finish_share_request(d, r, recorded) ==
  LET rest == work[d] \ {r}
  IN /\ up[d] /\ pc[d] = "finish"
     /\ IsFirst(r, work[d])
     /\ recorded => row[r] # "gone"
     /\ row' = IF recorded THEN [row EXCEPT ![r] = result[d]] ELSE row
     /\ age' = IF recorded THEN [age EXCEPT ![r] = 0] ELSE age
     /\ unseen' = IF recorded THEN Committed({d}) ELSE unseen
     /\ work' = [work EXCEPT ![d] = rest]
     /\ result' = [result EXCEPT ![d] = "finished"]
     /\ pc' = [pc EXCEPT ![d] = AfterWork(rest)]
     /\ ticked' = [ticked EXCEPT ![d] = Prompt /\ (@ \/ rest = {})]
     /\ UNCHANGED <<of, lastId, cliVars, up, again, agentVars, crashes, historyVars>>

-----------------------------------------------------------------------------
(* What else moves the flag and the sessions.                              *)

\* Attaching starts the agent where the flag, as of the last refresh, says; an
\* entry is left alone.
Attach(d, a) ==
  LET where == IF Home[a] \in known[d] THEN "tmux" ELSE "direct"
  IN /\ up[d] /\ pc[d] = "idle" /\ session[d][a] = "none"
     /\ session' = [session EXCEPT ![d][a] = where]
     /\ tmux' = IF where = "tmux" THEN tmux \cup {a} ELSE tmux
     /\ UNCHANGED <<dbVars, cliVars, up, tickVars, shared, known, crashes, historyVars>>

\* A handler of the dashboard that wrote something reads the tables anew.
Refresh(d) ==
  /\ up[d] /\ pc[d] = "idle"
  /\ known' = [known EXCEPT ![d] = shared]
  /\ UNCHANGED <<dbVars, cliVars, up, tickVars, shared, tmux, session, crashes,
                 historyVars>>

\* A process ends: a direct agent; the agent in tmux, with every client of
\* the session; or one client, which the tmux session outlives.
Exit(a) ==
  /\ \/ \E d \in Dashboard : /\ session[d][a] \in {"direct", "tmux"}
                             /\ session' = [session EXCEPT ![d][a] = "exited"]
                             /\ UNCHANGED tmux
     \/ /\ a \in tmux
        /\ tmux' = tmux \ {a}
        /\ session' = [d \in Dashboard |-> [session[d] EXCEPT ![a] =
             IF @ = "tmux" THEN "exited" ELSE @]]
  /\ UNCHANGED <<dbVars, cliVars, up, tickVars, shared, known, crashes, acts, steady>>
  /\ OwnersLeft

\* `wsx workspace share` and `unshare` only flip the flag.
FlipFlag(w) ==
  /\ shared' = IF w \in shared THEN shared \ {w} ELSE shared \cup {w}
  /\ unseen' = Committed({})
  /\ UNCHANGED <<dbVars, cliVars, up, pc, again, work, result, ticked, tmux, session,
                 known, crashes, historyVars>>

\* The dashboard quits or dies: what it claimed is never finished, its direct
\* agents die with it, the tmux sessions live on.
Crash(d) ==
  /\ up[d] /\ crashes < MaxCrash
  /\ crashes' = crashes + 1
  /\ up' = [up EXCEPT ![d] = FALSE]
  /\ pc' = [pc EXCEPT ![d] = "idle"]
  /\ unseen' = [unseen EXCEPT ![d] = FALSE]
  /\ again' = [again EXCEPT ![d] = TRUE]
  /\ work' = [work EXCEPT ![d] = {}]
  /\ result' = [result EXCEPT ![d] = "finished"]
  /\ ticked' = [ticked EXCEPT ![d] = FALSE]
  /\ session' = [session EXCEPT ![d] = [a \in Agent |-> "none"]]
  /\ known' = [known EXCEPT ![d] = {}]
  /\ steady' = [r \in Request |-> steady[r] \ {d}]
  /\ UNCHANGED <<dbVars, cliVars, shared, tmux, acts>>
  /\ OwnersLeft

Start(d) ==
  /\ ~up[d]
  /\ up' = [up EXCEPT ![d] = TRUE]
  /\ known' = [known EXCEPT ![d] = shared]
  /\ UNCHANGED <<dbVars, cliVars, tickVars, shared, tmux, session, crashes, historyVars>>

\* The age past which nothing changes for a row.
Limit(state) ==
  IF state = "pending" THEN Stale ELSE Purge

\* A unit of time passes; under Prompt only once every dashboard ticked.
Elapse ==
  /\ Prompt => \A d \in Dashboard : up[d] => ticked[d]
  /\ age' = [r \in Request |->
       IF row[r] \in {"none", "gone"} \/ age[r] > Limit(row[r]) THEN age[r] ELSE age[r] + 1]
  /\ waited' = [r \in Request |->
       IF cli[r] \in Polling /\ waited[r] < FinishWait THEN waited[r] + 1 ELSE waited[r]]
  /\ ticked' = [d \in Dashboard |-> FALSE]
  /\ UNCHANGED <<row, of, lastId, cli, up, pc, unseen, again, work, result, agentVars,
                 crashes, historyVars>>

Next ==
  \/ \E w \in Workspace : Enqueue(w) \/ FlipFlag(w)
  \/ \E r \in Request :
       \/ Poll(r) \/ withdraw_share_request(r) \/ CheckLive(r) \/ Kill(r)
       \/ \E outcome \in {"failed", "checking"} : Collect(r, outcome)
  \/ \E d \in Dashboard :
       \/ \E refreshed \in BOOLEAN : Look(d, refreshed)
       \/ claim_share_requests(d) \/ ClaimBusy(d)
       \/ \E r \in Request :
            \/ force_share_workspace(d, r)
            \/ \E recorded \in BOOLEAN : finish_share_request(d, r, recorded)
       \/ \E a \in Agent : Attach(d, a)
       \/ Refresh(d) \/ Crash(d) \/ Start(d)
  \/ \E a \in Agent : Exit(a)
  \/ Elapse

Spec == Init /\ [][Next]_vars

-----------------------------------------------------------------------------
(* Safety.                                                                 *)

\* A request is acted on at most once, by one dashboard, whatever dashboards
\* race for it, crash and come back (claim_share_requests' transaction).
ActedOnce == \A r \in Request : acts[r] <= 1

\* A user told that no dashboard picked the request up is told the truth: no
\* dashboard acted on it, or will (withdraw against claim).
RefusedNeverActed ==
  \A r \in Request : cli[r] = "refused" =>
    acts[r] = 0 /\ \A d \in Dashboard : r \notin work[d]

\* Success is reported for what a dashboard did: its agents all run in tmux, and
\* the flag says so, unless a command it has not looked at yet cleared it.
SharedMeansInTmux ==
  [][\A d \in Dashboard, r \in Request :
       pc[d] = "act" /\ pc'[d] = "finish" /\ IsFirst(r, work[d]) /\ result'[d] = "finished" =>
         /\ of[r] \in shared' \/ unseen[d]
         /\ \A a \in Instances(of[r]) : a \in tmux' /\ session'[d][a] = "tmux"]_vars

\* While dashboards tick, a request goes to one that can kill the running
\* agents: the others wait long enough for the owner (DEFER_MS).
OwnerClaims ==
  [][\A d \in Dashboard, r \in Request :
       r \in work'[d] \ work[d] => Owns(d, of[r]) \/ owners[r] = {}]_vars

\* While dashboards tick, nobody is told that no dashboard picked up the
\* request when one ran all the time (DEFER_MS is well inside the wait).
NoFalseRefusal == \A r \in Request : cli[r] = "refused" => steady[r] = {}

-----------------------------------------------------------------------------
(* What the one who waits is promised (RestartRequest).                    *)

\* What became of a request, by the state of its row.
Became(state) ==
  CASE state = "none" -> "none"
    [] state = "pending" -> "open"
    [] state = "claimed" -> "taken"
    [] state \in {"finished", "failed"} -> "answered"
    [] state = "gone" -> "closed"

\* What the CLI that made it told its user.
Told(at) ==
  CASE at \in {"none"} \cup Waiting -> "nothing"
    [] at \in {"failed", "live", "down"} -> "outcome"
    [] at \in {"vanished", "killed"} -> "unknown"
    [] at \in {"refused", "late"} -> at

\* Whether a dashboard has yet to act on a request that it claimed.
Holds(d, r) == r \in work[d] /\ ~(pc[d] = "finish" /\ IsFirst(r, work[d]))

Restart == INSTANCE RestartRequest WITH
  request <- [r \in Request |-> Became(row[r])],
  held <- {r \in Request : \E d \in Dashboard : Holds(d, r)},
  acted <- {r \in Request : acts[r] > 0},
  told <- [r \in Request |-> Told(cli[r])],
  MaxRequest <- MaxRequest

\* Whatever races and dies between the CLI and the dashboards, a request is taken
\* up once or not at all, and the CLI tells of an outcome only when a dashboard
\* acted, of a refusal only when none will, and of a delay only when one took it
\* (share_and_restart's answers).
ImplementsRequest == Restart!Spec

-----------------------------------------------------------------------------
(***************************************************************************)
(* Liveness.  The clock runs, the CLI polls every 150 ms, a dashboard      *)
(* ticks for as long as it runs, and a write lock is released some time.   *)
(***************************************************************************)
Fairness ==
  /\ WF_vars(Elapse)
  /\ \A r \in Request :
       /\ WF_vars(Poll(r) \/ withdraw_share_request(r) \/ CheckLive(r))
       /\ \A outcome \in {"failed", "checking"} : WF_vars(Collect(r, outcome))
  /\ \A d \in Dashboard :
       /\ SF_vars(Look(d, TRUE))
       /\ SF_vars(claim_share_requests(d))
       /\ \A r \in Request :
            /\ WF_vars(force_share_workspace(d, r))
            /\ WF_vars(\E recorded \in BOOLEAN : finish_share_request(d, r, recorded))

FairSpec == Spec /\ Fairness

\* A CLI that waits is answered: no state of the row makes it poll for ever.
CliEnds == \A r \in Request : cli[r] \in Waiting ~> cli[r] \in Ended

\* A request does not stay pending beside a dashboard that keeps running, even
\* when nobody waits for it any more and no other process commits.
PendingEnds ==
  \A r \in Request, d \in Dashboard :
    row[r] = "pending" /\ up[d] ~> row[r] # "pending" \/ ~up[d]
=============================================================================
