------------------------- MODULE WorkspaceLifecycle -------------------------
(***************************************************************************)
(* How a workspace is made and taken away.  A create and an archive are    *)
(* background tasks of a dashboard, or a CLI command: each is a sequence   *)
(* of steps on the database row, the worktree on disk and the tmux server, *)
(* interleaved with the other tasks, with the user's keys, and with other  *)
(* processes on the same database.  A dashboard's in_flight registry says  *)
(* which of its own tasks are alive; it dies with the process.             *)
(***************************************************************************)
EXTENDS Naturals, FiniteSets

CONSTANTS
  Dashboard,   \* the dashboards that may run
  Cli,         \* CLI processes that create and archive
  Workspace,   \* workspaces; each has a name, so a path, of its own
  MaxFault     \* bound: crashes, and errors of the database

ASSUME LifecycleAssumption ==
  /\ Dashboard \cap Cli = {}
  /\ MaxFault \in Nat

VARIABLES
  \* the database, the disk and the tmux server
  state,      \* WorkspaceState of each row; "none" before it, "gone" after it
  setup,      \* SetupStatus of each row (Skipped counts as Ok)
  old,        \* the unfinished rows older than STALE_PENDING_AFTER
  children,   \* the workspaces that have rows of agents, messages, ...
  disk,       \* the workspaces whose worktree exists
  tmux,       \* who started the agent that lives in tmux, for each workspace
  \* the tasks of each process
  create,     \* where its create of each workspace is
  archive,    \* where its archive of each workspace is
  cancelled,  \* the creates whose cancellation token was fired
  \* each dashboard
  up,         \* whether its process runs
  quit,       \* App::quit
  modal,      \* the workspace ConfirmArchive asks about, if it is open
  in_flight,  \* App::in_flight
  session,    \* the workspaces whose agent it has a session of
  orphan,     \* ... of sessions whose agent row was deleted
  unseen,     \* whether another process committed since it last refreshed
  \* history
  faults,     \* how many faults there were
  maker,      \* the process that makes, or made, each workspace
  crossed     \* the archives begun while another process made the worktree

Process == Dashboard \cup Cli

dbVars == <<state, setup, old, children>>
taskVars == <<create, archive, cancelled>>
keyVars == <<up, quit, modal>>
agentVars == <<tmux, session, orphan>>
historyVars == <<faults, maker, crossed>>
vars == <<dbVars, disk, taskVars, keyVars, in_flight, agentVars, unseen, historyVars>>

\* The phase of a create is its next step; "Ok", "Failed" and "Cancelled" are
\* the setup statuses it is about to record.
Ending == {"Ok", "Failed", "Cancelled"}
Registered == {"fetch", "add", "fail", "ready", "check", "run", "setup", "ended"} \cup Ending
CreatePhase == {"none", "insert", "seed", "reconcile"} \cup Registered
ArchivePhase == {"none", "kill", "script", "remove", "children", "row", "ended"}

TypeOK ==
  /\ state \in [Workspace -> {"none", "Pending", "Ready", "Failed", "Orphaned", "gone"}]
  /\ setup \in [Workspace -> {"NotRun", "Running"} \cup Ending]
  /\ old \subseteq {w \in Workspace : state[w] \in {"Pending", "Orphaned"}}
  /\ children \subseteq {w \in Workspace : state[w] \notin {"none", "gone"}}
  /\ disk \subseteq Workspace
  /\ tmux \in [Workspace -> SUBSET Dashboard]
  /\ create \in [Process -> [Workspace -> CreatePhase]]
  /\ archive \in [Process -> [Workspace -> ArchivePhase]]
  /\ cancelled \subseteq Workspace
  /\ up \in [Dashboard -> BOOLEAN] /\ quit \in [Dashboard -> BOOLEAN]
  /\ modal \in [Dashboard -> SUBSET Workspace]
  /\ in_flight \in [Dashboard -> [Workspace -> {"none", "Create", "Archive"}]]
  /\ session \in [Dashboard -> SUBSET Workspace]
  /\ orphan \in [Dashboard -> SUBSET Workspace]
  /\ unseen \in [Dashboard -> BOOLEAN]
  /\ faults \in 0 .. MaxFault
  /\ maker \in [Workspace -> SUBSET Process]
  /\ crossed \subseteq Workspace

Init ==
  /\ state = [w \in Workspace |-> "none"]
  /\ setup = [w \in Workspace |-> "NotRun"]
  /\ old = {} /\ children = {} /\ disk = {}
  /\ tmux = [w \in Workspace |-> {}]
  /\ create = [p \in Process |-> [w \in Workspace |-> "none"]]
  /\ archive = [p \in Process |-> [w \in Workspace |-> "none"]]
  /\ cancelled = {}
  /\ up = [d \in Dashboard |-> TRUE]
  /\ quit = [d \in Dashboard |-> FALSE]
  /\ modal = [d \in Dashboard |-> {}]
  /\ in_flight = [d \in Dashboard |-> [w \in Workspace |-> "none"]]
  /\ session = [d \in Dashboard |-> {}]
  /\ orphan = [d \in Dashboard |-> {}]
  /\ unseen = [d \in Dashboard |-> FALSE]
  /\ faults = 0
  /\ maker = [w \in Workspace |-> {}]
  /\ crossed = {}

Row(w) == state[w] \notin {"none", "gone"}

\* delete_workspace holds the App lock of its dashboard between its statements.
Unlocked(p) == p \in Dashboard => \A w \in Workspace : archive[p][w] # "row"

\* A commit by p moves data_version for every other dashboard that runs.
Committed(p) == [d \in Dashboard |-> unseen[d] \/ (up[d] /\ d # p)]

\* The registry of a dashboard; a CLI process has none.
Registering(p, w, kind) ==
  IF p \in Dashboard THEN [in_flight EXCEPT ![p][w] = kind] ELSE in_flight

\* App::refresh stops the sessions whose agent row is gone.
Refreshed(p) == IF p \in Dashboard THEN [orphan EXCEPT ![p] = {}] ELSE orphan

\* A dashboard that takes keys; a CLI process that has nothing to do.
TakesKeys(d) == up[d] /\ ~quit[d] /\ modal[d] = {} /\ Unlocked(d)
Idle(c) == \A w \in Workspace : create[c][w] = "none" /\ archive[c][w] = "none"

-----------------------------------------------------------------------------
(* Create: create_with_app, create and reconcile_create_result.            *)

\* The user confirms the new-workspace modal, or runs `wsx workspace create`.
NewWorkspace(p, w) ==
  /\ state[w] = "none"
  /\ \A q \in Process : create[q][w] = "none"
  /\ IF p \in Dashboard THEN TakesKeys(p) ELSE Idle(p)
  /\ create' = [create EXCEPT ![p][w] = "insert"]
  /\ maker' = [maker EXCEPT ![w] = {p}]
  /\ UNCHANGED <<dbVars, disk, archive, cancelled, keyVars, in_flight, agentVars,
                 unseen, faults, crossed>>

\* The branch or the name is refused: there is no row.
InsertRefused(p, w) ==
  /\ create[p][w] = "insert" /\ Unlocked(p)
  /\ create' = [create EXCEPT ![p][w] = IF p \in Dashboard THEN "reconcile" ELSE "none"]
  /\ UNCHANGED <<dbVars, disk, archive, cancelled, keyVars, in_flight, agentVars,
                 unseen, historyVars>>

\* A dashboard inserts the row and its primary agent in one transaction and
\* registers the task under the same lock; the CLI inserts them one by one.
Insert(p, w) ==
  /\ create[p][w] = "insert" /\ Unlocked(p)
  /\ state' = [state EXCEPT ![w] = "Pending"]
  /\ children' = IF p \in Dashboard THEN children \cup {w} ELSE children
  /\ create' = [create EXCEPT ![p][w] = IF p \in Dashboard THEN "fetch" ELSE "seed"]
  /\ in_flight' = Registering(p, w, "Create")
  /\ orphan' = Refreshed(p)
  /\ unseen' = Committed(p)
  /\ UNCHANGED <<setup, old, disk, archive, cancelled, keyVars, tmux, session, historyVars>>

\* The CLI's add_primary_agent, which fails if the row was deleted meanwhile.
Seed(c, w) ==
  /\ create[c][w] = "seed"
  /\ children' = IF Row(w) THEN children \cup {w} ELSE children
  /\ create' = [create EXCEPT ![c][w] = IF Row(w) THEN "fetch" ELSE "ended"]
  /\ unseen' = IF Row(w) THEN Committed(c) ELSE unseen
  /\ UNCHANGED <<state, setup, old, disk, archive, cancelled, keyVars, in_flight,
                 agentVars, historyVars>>

\* A step that only moves the create on.
Proceed(p, w, from, to) ==
  /\ create[p][w] = from
  /\ create' = [create EXCEPT ![p][w] = to]
  /\ UNCHANGED <<dbVars, disk, archive, cancelled, keyVars, in_flight, agentVars,
                 unseen, historyVars>>

\* git fetch, and the look at the token after it.
Fetch(p, w, fetched) ==
  Proceed(p, w, "fetch", IF fetched /\ w \notin cancelled THEN "add" ELSE "fail")

create_worktree(p, w, added) ==
  /\ create[p][w] = "add"
  /\ disk' = IF added THEN disk \cup {w} ELSE disk
  /\ create' = [create EXCEPT ![p][w] = IF added THEN "ready" ELSE "fail"]
  /\ UNCHANGED <<dbVars, archive, cancelled, keyVars, in_flight, agentVars, unseen, historyVars>>

\* A write to the row, which is no error when the row was deleted.
SetStatus(p, w, newState, newSetup, next) ==
  /\ Unlocked(p)
  /\ state' = IF Row(w) THEN [state EXCEPT ![w] = newState] ELSE state
  /\ setup' = IF Row(w) THEN [setup EXCEPT ![w] = newSetup] ELSE setup
  /\ old' = IF newState = state[w] THEN old ELSE old \ {w}
  /\ unseen' = IF Row(w) THEN Committed(p) ELSE unseen
  /\ create' = [create EXCEPT ![p][w] = next]
  /\ UNCHANGED <<children, disk, archive, cancelled, keyVars, in_flight, agentVars, historyVars>>

MarkFailed(p, w) ==
  /\ create[p][w] = "fail"
  /\ SetStatus(p, w, "Failed", setup[w], "ended")

MarkReady(p, w) ==
  /\ create[p][w] = "ready"
  /\ SetStatus(p, w, "Ready", setup[w], "check")

\* The look at the token before the setup script.
CheckCancelled(p, w) ==
  Proceed(p, w, "check", IF w \in cancelled THEN "Cancelled" ELSE "run")

MarkRunning(p, w) ==
  /\ create[p][w] = "run"
  /\ SetStatus(p, w, state[w], "Running", "setup")

\* The setup script ends, cannot be run, or is stopped by the token.
run_setup(p, w, result) ==
  /\ result = "Cancelled" => w \in cancelled
  /\ Proceed(p, w, "setup", result)

Recorded(w, result) == result

RecordSetup(p, w) ==
  /\ create[p][w] \in Ending
  /\ SetStatus(p, w, state[w], Recorded(w, create[p][w]), "ended")

\* A bug: the entry is removed only when the create went well.
Unregistered_OnSuccess(p, w) ==
  IF state[w] = "Ready" THEN Registering(p, w, "none") ELSE in_flight

\* The entry is removed whatever way the create ended.
Unregistered(p, w) == Registering(p, w, "none")

EndCreate(p, w) ==
  /\ create[p][w] = "ended" /\ Unlocked(p)
  /\ in_flight' = Unregistered(p, w)
  /\ create' = [create EXCEPT ![p][w] = IF p \in Dashboard THEN "reconcile" ELSE "none"]
  /\ UNCHANGED <<dbVars, disk, archive, cancelled, keyVars, agentVars, unseen, historyVars>>

reconcile_create_result(d, w) ==
  /\ create[d][w] = "reconcile" /\ Unlocked(d)
  /\ create' = [create EXCEPT ![d][w] = "none"]
  /\ orphan' = Refreshed(d)
  /\ UNCHANGED <<dbVars, disk, archive, cancelled, keyVars, in_flight, tmux, session,
                 unseen, historyVars>>

-----------------------------------------------------------------------------
(* Archive: confirm_archive, archive_with_app, archive and                 *)
(* reconcile_archive_result.                                               *)

\* A bug: the key does not look at the registry.
MayArchive_Always(d, w) == TRUE

\* 'd' opens ConfirmArchive unless a task of this dashboard has the workspace.
MayArchive(d, w) == in_flight[d][w] = "none"

\* An archive of p begins, maybe across a create that will make the worktree.
Crossing(p, w) ==
  IF \E q \in Process \ {p} : create[q][w] \in {"seed", "fetch", "add"}
  THEN crossed \cup {w} ELSE crossed

OpenArchive(d, w) ==
  /\ TakesKeys(d)
  /\ Row(w) \/ (state[w] = "gone" /\ unseen[d])
  /\ MayArchive(d, w)
  /\ modal' = [modal EXCEPT ![d] = {w}]
  /\ UNCHANGED <<dbVars, disk, taskVars, up, quit, in_flight, agentVars, unseen, historyVars>>

CloseModal(d) ==
  /\ up[d] /\ modal[d] # {} /\ Unlocked(d)
  /\ modal' = [modal EXCEPT ![d] = {}]
  /\ UNCHANGED <<dbVars, disk, taskVars, up, quit, in_flight, agentVars, unseen, historyVars>>

\* 'y': the workspace is still in App::workspaces, as of the last refresh.
confirm_archive(d, w) ==
  /\ up[d] /\ w \in modal[d] /\ Unlocked(d)
  /\ Row(w) \/ unseen[d]
  /\ modal' = [modal EXCEPT ![d] = {}]
  /\ in_flight' = Registering(d, w, "Archive")
  /\ archive' = [archive EXCEPT ![d][w] = "kill"]
  /\ crossed' = Crossing(d, w)
  /\ UNCHANGED <<dbVars, disk, create, cancelled, up, quit, agentVars, unseen, faults, maker>>

\* `wsx workspace archive`, without --keep-worktree.
CliArchive(c, w) ==
  /\ Row(w) /\ Idle(c)
  /\ archive' = [archive EXCEPT ![c][w] = "kill"]
  /\ crossed' = Crossing(c, w)
  /\ UNCHANGED <<dbVars, disk, create, cancelled, keyVars, in_flight, agentVars,
                 unseen, faults, maker>>

kill_tmux_sessions_for(p, w) ==
  /\ archive[p][w] = "kill" /\ Unlocked(p)
  /\ tmux' = [tmux EXCEPT ![w] = {}]
  /\ archive' = [archive EXCEPT ![p][w] = "script"]
  /\ UNCHANGED <<dbVars, disk, create, cancelled, keyVars, in_flight, session, orphan,
                 unseen, historyVars>>

\* The archive script, skipped without a worktree; its error ends the archive.
run_archive(p, w, ran) ==
  /\ archive[p][w] = "script"
  /\ ran \/ w \in disk
  /\ archive' = [archive EXCEPT ![p][w] = IF ran THEN "remove" ELSE "ended"]
  /\ UNCHANGED <<dbVars, disk, create, cancelled, keyVars, in_flight, agentVars,
                 unseen, historyVars>>

AfterRemove(removed) == IF removed THEN "children" ELSE "ended"

\* git worktree remove, and then git branch -D, whose failure is ignored.
remove_worktree(p, w, removed) ==
  /\ archive[p][w] = "remove"
  /\ removed \/ w \in disk
  /\ disk' = IF removed THEN disk \ {w} ELSE disk
  /\ archive' = [archive EXCEPT ![p][w] = AfterRemove(removed)]
  /\ UNCHANGED <<dbVars, create, cancelled, keyVars, in_flight, agentVars, unseen, historyVars>>

\* delete_workspace: the rows that refer to the workspace, then its own; each
\* statement commits by itself.
DeleteChildren(p, w) ==
  /\ archive[p][w] = "children" /\ Unlocked(p)
  /\ children' = children \ {w}
  /\ orphan' = [d \in Dashboard |-> orphan[d] \cup (session[d] \cap {w})]
  /\ session' = [d \in Dashboard |-> session[d] \ {w}]
  /\ archive' = [archive EXCEPT ![p][w] = "row"]
  /\ unseen' = IF w \in children THEN Committed(p) ELSE unseen
  /\ UNCHANGED <<state, setup, old, disk, tmux, create, cancelled, keyVars, in_flight, historyVars>>

\* A bug: nothing ties the rows that refer to a workspace to its own.
Referred_Never(w) == FALSE

\* A row that another process added in between makes the last statement fail.
Referred(w) == w \in children

DeleteRow(p, w) ==
  /\ archive[p][w] = "row"
  /\ IF Referred(w) \/ ~Row(w)
     THEN UNCHANGED <<state, setup, old, unseen>>
     ELSE /\ state' = [state EXCEPT ![w] = "gone"]
          /\ setup' = [setup EXCEPT ![w] = "NotRun"]
          /\ old' = old \ {w}
          /\ unseen' = Committed(p)
  /\ archive' = [archive EXCEPT ![p][w] = "ended"]
  /\ UNCHANGED <<children, disk, create, cancelled, keyVars, in_flight, agentVars, historyVars>>

\* A bug: the dashboard does not refresh when its archive ends.
RefreshedAfter_Never(p) == orphan

RefreshedAfter(p) == Refreshed(p)

reconcile_archive_result(p, w) ==
  /\ archive[p][w] = "ended" /\ Unlocked(p)
  /\ in_flight' = Registering(p, w, "none")
  /\ orphan' = RefreshedAfter(p)
  /\ archive' = [archive EXCEPT ![p][w] = "none"]
  /\ UNCHANGED <<dbVars, disk, create, cancelled, keyVars, tmux, session, unseen, historyVars>>

-----------------------------------------------------------------------------
(* The dashboard: sessions, keys, start and end.                           *)

\* A bug: a live archive does not refuse a session.
attach_is_blocked_Never(d, w) == FALSE

attach_is_blocked(d, w) == in_flight[d][w] = "Archive"

\* Enter, or a queued message: the agent is started where there is a worktree, as
\* a child process or in tmux, where one that lives already is attached to.  A
\* missing primary agent is seeded again.
Attach(d, w, inTmux) ==
  /\ up[d] /\ ~quit[d] /\ Unlocked(d)
  /\ ~attach_is_blocked(d, w)
  /\ w \notin session[d]
  /\ Row(w) /\ w \in disk
  /\ w \in children \/ ~unseen[d]
  /\ session' = [session EXCEPT ![d] = @ \cup {w}]
  /\ children' = children \cup {w}
  /\ tmux' = IF inTmux /\ tmux[w] = {} THEN [tmux EXCEPT ![w] = {d}] ELSE tmux
  /\ unseen' = IF w \in children THEN unseen ELSE Committed(d)
  /\ UNCHANGED <<state, setup, old, disk, taskVars, keyVars, in_flight, orphan, historyVars>>

\* The agent ends and its entry is dropped.
Detach(d, w) ==
  /\ up[d] /\ w \in session[d] /\ Unlocked(d)
  /\ session' = [session EXCEPT ![d] = @ \ {w}]
  /\ tmux' = [tmux EXCEPT ![w] = {}]
  /\ UNCHANGED <<dbVars, disk, taskVars, keyVars, in_flight, orphan, unseen, historyVars>>

\* Another process adds an agent, a message, a status to the workspace.
AddChild(w) ==
  /\ Row(w) /\ w \notin children
  /\ children' = children \cup {w}
  /\ unseen' = [d \in Dashboard |-> up[d]]
  /\ UNCHANGED <<state, setup, old, disk, taskVars, keyVars, in_flight, agentVars, historyVars>>

\* poll_external_changes.
Poll(d) ==
  /\ up[d] /\ ~quit[d] /\ unseen[d] /\ Unlocked(d)
  /\ unseen' = [unseen EXCEPT ![d] = FALSE]
  /\ orphan' = Refreshed(d)
  /\ UNCHANGED <<dbVars, disk, taskVars, keyVars, in_flight, tmux, session, historyVars>>

\* 'x' fires the token of a create.
CancelCreate(d, w) ==
  /\ TakesKeys(d)
  /\ in_flight[d][w] = "Create" /\ w \notin cancelled
  /\ cancelled' = cancelled \cup {w}
  /\ UNCHANGED <<dbVars, disk, create, archive, keyVars, in_flight, agentVars, unseen, historyVars>>

Creating(d) == {w \in Workspace : in_flight[d][w] = "Create"}

\* A bug: quitting fires the tokens and leaves the rows to the tasks.
QuitStatus_TokensOnly(d) == setup

\* The status of every create in flight is settled before the tasks die.
QuitStatus(d) == [w \in Workspace |-> IF w \in Creating(d) /\ Row(w) THEN "Cancelled" ELSE setup[w]]

\* 'q' with nothing in flight, or `y` in ConfirmQuit.
confirm_quit(d) ==
  /\ TakesKeys(d)
  /\ quit' = [quit EXCEPT ![d] = TRUE]
  /\ cancelled' = cancelled \cup Creating(d)
  /\ setup' = QuitStatus(d)
  /\ unseen' = IF setup' # setup THEN Committed(d) ELSE unseen
  /\ UNCHANGED <<state, old, children, disk, create, archive, up, modal, in_flight,
                 agentVars, historyVars>>

\* What dies with a process: its tasks, its registry, its own agents.
Dies(p) ==
  /\ create' = [create EXCEPT ![p] = [w \in Workspace |-> "none"]]
  /\ archive' = [archive EXCEPT ![p] = [w \in Workspace |-> "none"]]
  /\ IF p \in Dashboard
     THEN /\ up' = [up EXCEPT ![p] = FALSE]
          /\ quit' = [quit EXCEPT ![p] = FALSE]
          /\ modal' = [modal EXCEPT ![p] = {}]
          /\ in_flight' = [in_flight EXCEPT ![p] = [w \in Workspace |-> "none"]]
          /\ session' = [session EXCEPT ![p] = {}]
          /\ orphan' = [orphan EXCEPT ![p] = {}]
          /\ unseen' = [unseen EXCEPT ![p] = FALSE]
     ELSE UNCHANGED <<keyVars, in_flight, session, orphan, unseen>>
  /\ UNCHANGED <<dbVars, disk, tmux, cancelled>>

\* The loop saw App::quit; tasks may have taken steps since.
Exit(d) == up[d] /\ quit[d] /\ Dies(d) /\ UNCHANGED historyVars

Crash(p) ==
  /\ faults < MaxFault
  /\ IF p \in Dashboard THEN up[p] ELSE ~Idle(p)
  /\ faults' = faults + 1
  /\ Dies(p)
  /\ UNCHANGED <<maker, crossed>>

\* A write of a task fails, and ends it.
StoreFails(p, w) ==
  /\ faults < MaxFault
  /\ Unlocked(p) \/ archive[p][w] = "row"
  /\ \/ /\ create[p][w] \in {"seed", "fail", "ready", "run"} \cup Ending
        /\ create' = [create EXCEPT ![p][w] = "ended"]
        /\ UNCHANGED archive
     \/ /\ archive[p][w] \in {"children", "row"}
        /\ archive' = [archive EXCEPT ![p][w] = "ended"]
        /\ UNCHANGED create
  /\ faults' = faults + 1
  /\ UNCHANGED <<dbVars, disk, cancelled, keyVars, in_flight, agentVars, unseen, maker, crossed>>

\* A bug: every pending row is swept, however young.
sweep_stale_pending_Young(w) == state[w] = "Pending"

\* The rows a starting dashboard takes for those of a process that died.
sweep_stale_pending(w) == state[w] = "Pending" /\ w \in old

sweep_stale_running(w) == setup[w] = "Running" /\ Row(w)

\* App::new.
Start(d) ==
  /\ ~up[d]
  /\ up' = [up EXCEPT ![d] = TRUE]
  /\ state' = [w \in Workspace |-> IF sweep_stale_pending(w) THEN "Orphaned" ELSE state[w]]
  /\ setup' = [w \in Workspace |-> IF sweep_stale_running(w) THEN "Cancelled" ELSE setup[w]]
  /\ unseen' = IF <<state', setup'>> # <<state, setup>> THEN Committed(d) ELSE unseen
  /\ UNCHANGED <<old, children, disk, taskVars, quit, modal, in_flight, agentVars, historyVars>>

\* Five minutes pass for a pending row.
GrowOld(w) ==
  /\ state[w] = "Pending" /\ w \notin old
  /\ old' = old \cup {w}
  /\ UNCHANGED <<state, setup, children, disk, taskVars, keyVars, in_flight, agentVars,
                 unseen, historyVars>>

CreateStep(p, w) ==
  \/ Insert(p, w) \/ InsertRefused(p, w) \/ Seed(p, w)
  \/ \E ok \in BOOLEAN : Fetch(p, w, ok) \/ create_worktree(p, w, ok)
  \/ MarkFailed(p, w) \/ MarkReady(p, w) \/ CheckCancelled(p, w) \/ MarkRunning(p, w)
  \/ \E result \in Ending : run_setup(p, w, result)
  \/ RecordSetup(p, w) \/ EndCreate(p, w)
  \/ p \in Dashboard /\ reconcile_create_result(p, w)

ArchiveStep(p, w) ==
  \/ kill_tmux_sessions_for(p, w)
  \/ \E ok \in BOOLEAN : run_archive(p, w, ok) \/ remove_worktree(p, w, ok)
  \/ DeleteChildren(p, w) \/ DeleteRow(p, w)
  \/ reconcile_archive_result(p, w)

Next ==
  \/ \E p \in Process, w \in Workspace :
       NewWorkspace(p, w) \/ CreateStep(p, w) \/ ArchiveStep(p, w) \/ StoreFails(p, w)
  \/ \E c \in Cli, w \in Workspace : CliArchive(c, w)
  \/ \E d \in Dashboard, w \in Workspace :
       \/ OpenArchive(d, w) \/ confirm_archive(d, w) \/ CancelCreate(d, w) \/ Detach(d, w)
       \/ \E inTmux \in BOOLEAN : Attach(d, w, inTmux)
  \/ \E d \in Dashboard : Poll(d) \/ CloseModal(d) \/ confirm_quit(d) \/ Exit(d) \/ Start(d)
  \/ \E p \in Process : Crash(p)
  \/ \E w \in Workspace : AddChild(w) \/ GrowOld(w)

Spec == Init /\ [][Next]_vars

-----------------------------------------------------------------------------
(* Safety.                                                                 *)

\* A worktree never outlives its row, so there is always something to archive it
\* by, whatever fails or dies half-way: unless one process archived the workspace
\* while another had yet to make the worktree, which no registry tells it.
NoStrayWorktree == \A w \in disk \ crossed : Row(w)

\* An archive's phases between the end of the agents and the end of the row.
Teardown == {"script", "remove", "children", "row"}

\* A dashboard's archive has no agent of its own in tmux working in the worktree
\* it tears down: those there were, it killed, and it starts none meanwhile
\* (attach_is_blocked).
NoTmuxDuringTeardown ==
  \A d \in Dashboard, w \in Workspace : archive[d][w] \in Teardown => d \notin tmux[w]

\* Whether a missing worktree is not there yet, rather than gone.
create_in_progress(d, w) ==
  \/ in_flight[d][w] = "Create"
  \/ state[w] = "Pending" /\ setup[w] # "Cancelled" /\ w \notin old

\* Mail for a workspace whose create is on its way to make the worktree, in
\* this dashboard or for less than five minutes in another process, is kept
\* rather than dropped (missing_worktree_outcome answers Refused).
CreateNotGivenUp ==
  \A d \in Dashboard, w \in Workspace :
    (/\ up[d] /\ Row(w) /\ w \notin disk \cup cancelled
     /\ \E p \in Process : create[p][w] \in {"seed", "fetch", "add"} /\ (p = d \/ w \notin old))
    => create_in_progress(d, w)

\* Whether the row says how its create ended.
Settled(w) == state[w] = "Failed" \/ setup[w] \in Ending

\* With no fault so far: a create that reached its end has recorded how it went
\* and nothing that happened meanwhile undid that; one that the user cancelled,
\* or quit, leaves a row that says so, once it is over or its dashboard runs again.
CreatesSettle ==
  \A w \in Workspace :
    (/\ faults = 0 /\ Row(w)
     /\ \/ \E p \in Process : create[p][w] = "ended"
        \/ /\ w \in cancelled
           /\ \A p \in Process : create[p][w] = "none"
           /\ \E d \in maker[w] \cap Dashboard : up[d])
    => Settled(w)

-----------------------------------------------------------------------------
(***************************************************************************)
(* Liveness.  Tasks take their steps: git and the scripts end, and what    *)
(* waits for the App lock gets it.  A dashboard ticks while it runs.       *)
(***************************************************************************)
Fairness ==
  /\ \A p \in Process, w \in Workspace : WF_vars(CreateStep(p, w)) /\ WF_vars(ArchiveStep(p, w))
  /\ \A d \in Dashboard : WF_vars(Poll(d)) /\ WF_vars(Exit(d))

FairSpec == Spec /\ Fairness

\* No badge spins for ever: every entry of the registry is removed, whatever
\* fails in the task it stands for.
BadgesEnd ==
  \A d \in Dashboard, w \in Workspace : in_flight[d][w] # "none" ~> in_flight[d][w] = "none"

\* An agent whose row was deleted, by any process, is stopped: "an agent
\* nothing can address any more" (App::refresh).
OrphansStopped ==
  \A d \in Dashboard : orphan[d] # {} ~> orphan[d] = {}
=============================================================================
