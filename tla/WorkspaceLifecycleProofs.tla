---------------------- MODULE WorkspaceLifecycleProofs ----------------------
(***************************************************************************)
(* Proofs about WorkspaceLifecycle, for any number of dashboards, CLI      *)
(* processes, workspaces and faults: type correctness, that no worktree    *)
(* outlives its row, that no agent runs in one that is torn down, that a   *)
(* live create is not given up, and that every create leaves a row that    *)
(* says how it ended.                                                      *)
(***************************************************************************)
EXTENDS WorkspaceLifecycle, TLAPS

\* The phases of a create after the row and before the worktree.
Making == {"seed", "fetch", "add"}

\* A workspace has one process that makes it.
Makers ==
  /\ \A p \in Process, w \in Workspace : create[p][w] # "none" => maker[w] = {p}
  /\ \A w \in Workspace : \A p, q \in maker[w] : p = q

\* What the phases of tasks say of the row.
Rows ==
  /\ \A p \in Process, w \in Workspace :
       /\ create[p][w] = "insert" => state[w] = "none"
       /\ create[p][w] \in Registered \cup {"seed"} => state[w] # "none"
       /\ create[p][w] \in (Registered \cup {"seed"}) \ {"ended"} => state[w] # "Failed"
       /\ archive[p][w] # "none" => state[w] # "none"
  /\ \A w \in Workspace : state[w] = "none" => setup[w] = "NotRun"

\* The registry of a dashboard is about its own live tasks, all of them.
Registry ==
  \A d \in Dashboard, w \in Workspace :
    /\ in_flight[d][w] = "Create" <=> create[d][w] \in Registered
    /\ in_flight[d][w] = "Archive" <=> archive[d][w] # "none"
    /\ create[d][w] # "seed"

Clis == \A c \in Cli, w \in Workspace : create[c][w] # "reconcile"

\* A dashboard that does not run has no task, no modal and is not quitting.
Down ==
  \A d \in Dashboard : ~up[d] =>
    /\ ~quit[d] /\ modal[d] = {}
    /\ \A w \in Workspace : create[d][w] = "none" /\ archive[d][w] = "none"

\* While ConfirmArchive is open no task of its workspace begins.
Modals ==
  \A d \in Dashboard : \A w \in modal[d] : in_flight[d][w] = "none" /\ state[w] # "none"

Tasks == Makers /\ Rows /\ Registry /\ Clis /\ Down /\ Modals

\* An archive and the making of the worktree meet only if they were crossed.
Worktrees ==
  \A p, q \in Process, w \in Workspace \ crossed :
    /\ archive[p][w] # "none" => create[q][w] \notin Making
    /\ archive[p][w] \in {"children", "row"} => w \notin disk
    /\ create[q][w] \in Making => Row(w)

\* What a row says while its worktree is being made.
Starting ==
  \A p \in Process, w \in Workspace :
    create[p][w] \in Making /\ Row(w) =>
      /\ state[w] = "Pending" \/ w \in old
      /\ setup[w] = "NotRun" \/ w \in cancelled

\* Only dashboards cancel, and only their own creates.
Cancels == \A w \in cancelled : state[w] # "none" /\ maker[w] \subseteq Dashboard

\* Without faults, a row is settled when its create ended; one that was
\* cancelled when the create is over in a dashboard that runs; and one whose
\* dashboard quits is, or is shown as running for the next start to settle.
Records ==
  faults = 0 => \A w \in Workspace : Row(w) =>
    /\ \A p \in Process : create[p][w] = "ended" => Settled(w)
    /\ w \in cancelled => \A d \in maker[w] \cap Dashboard :
         /\ up[d] /\ create[d][w] \notin Registered => Settled(w)
         /\ ~up[d] \/ quit[d] => Settled(w) \/ setup[w] = "Running"

\* The inductive invariant.
IInv ==
  /\ TypeOK
  /\ Tasks /\ Worktrees /\ NoStrayWorktree /\ NoTmuxDuringTeardown
  /\ Starting /\ Cancels /\ Records

-----------------------------------------------------------------------------
(* Types.                                                                   *)

\* An update at two indices.
LEMMA ExceptTwice ==
  ASSUME NEW S, NEW T, NEW V, NEW f \in [S -> [T -> V]], NEW s \in S, NEW t \in T, NEW v \in V
  PROVE  /\ [f EXCEPT ![s][t] = v] \in [S -> [T -> V]]
         /\ \A x \in S, y \in T :
              [f EXCEPT ![s][t] = v][x][y] = IF x = s /\ y = t THEN v ELSE f[x][y]
OBVIOUS

LEMMA ProcessIs == \A d \in Dashboard : d \in Process /\ d \notin Cli
BY LifecycleAssumption DEF Process

\* The parts of the type invariant.
TypeRows ==
  /\ state \in [Workspace -> {"none", "Pending", "Ready", "Failed", "Orphaned", "gone"}]
  /\ setup \in [Workspace -> {"NotRun", "Running"} \cup Ending]
  /\ old \subseteq {w \in Workspace : state[w] \in {"Pending", "Orphaned"}}
  /\ children \subseteq {w \in Workspace : state[w] \notin {"none", "gone"}}

TypeTasks ==
  /\ create \in [Process -> [Workspace -> CreatePhase]]
  /\ archive \in [Process -> [Workspace -> ArchivePhase]]
  /\ cancelled \subseteq Workspace
  /\ in_flight \in [Dashboard -> [Workspace -> {"none", "Create", "Archive"}]]

TypeRest ==
  /\ disk \subseteq Workspace
  /\ tmux \in [Workspace -> SUBSET Dashboard]
  /\ up \in [Dashboard -> BOOLEAN] /\ quit \in [Dashboard -> BOOLEAN]
  /\ modal \in [Dashboard -> SUBSET Workspace]
  /\ session \in [Dashboard -> SUBSET Workspace]
  /\ orphan \in [Dashboard -> SUBSET Workspace]
  /\ unseen \in [Dashboard -> BOOLEAN]
  /\ faults \in 0 .. MaxFault
  /\ maker \in [Workspace -> SUBSET Process]
  /\ crossed \subseteq Workspace

LEMMA TypeParts == TypeOK <=> TypeRows /\ TypeTasks /\ TypeRest
BY DEF TypeOK, TypeRows, TypeTasks, TypeRest

\* The steps that write to the database.
RowStep(p, w) ==
  \/ Insert(p, w) \/ Seed(p, w) \/ DeleteChildren(p, w) \/ DeleteRow(p, w)
  \/ MarkFailed(p, w) \/ MarkReady(p, w) \/ MarkRunning(p, w) \/ RecordSetup(p, w)

LEMMA RowSteps ==
  ASSUME Next
  PROVE  \/ UNCHANGED dbVars
         \/ \E p \in Process, w \in Workspace : RowStep(p, w)
         \/ \E d \in Dashboard, w \in Workspace, inTmux \in BOOLEAN : Attach(d, w, inTmux)
         \/ \E w \in Workspace : AddChild(w) \/ GrowOld(w)
         \/ \E d \in Dashboard : confirm_quit(d) \/ Start(d)
<1> USE DEF dbVars
<1>1. ASSUME NEW p \in Process, NEW w \in Workspace, NEW ok \in BOOLEAN,
              \/ NewWorkspace(p, w) \/ InsertRefused(p, w) \/ Fetch(p, w, ok)
              \/ create_worktree(p, w, ok) \/ CheckCancelled(p, w)
              \/ \E result \in Ending : run_setup(p, w, result)
              \/ EndCreate(p, w) \/ reconcile_create_result(p, w)
              \/ kill_tmux_sessions_for(p, w) \/ run_archive(p, w, ok)
              \/ remove_worktree(p, w, ok) \/ reconcile_archive_result(p, w)
              \/ StoreFails(p, w)
       PROVE  UNCHANGED dbVars
  BY <1>1 DEF NewWorkspace, InsertRefused, Fetch, Proceed, create_worktree, CheckCancelled,
       run_setup, EndCreate, reconcile_create_result, kill_tmux_sessions_for, run_archive,
       remove_worktree, reconcile_archive_result, StoreFails
<1>2. ASSUME NEW d \in Dashboard, NEW w \in Workspace,
              \/ OpenArchive(d, w) \/ confirm_archive(d, w) \/ CancelCreate(d, w) \/ Detach(d, w)
              \/ Poll(d) \/ CloseModal(d) \/ Exit(d)
       PROVE  UNCHANGED dbVars
  BY <1>2 DEF OpenArchive, confirm_archive, CancelCreate, Detach, Poll, CloseModal, Exit, Dies
<1>3. ASSUME NEW p \in Process, Crash(p) \/ \E w \in Workspace : CliArchive(p, w)
       PROVE  UNCHANGED dbVars
  BY <1>3 DEF Crash, Dies, CliArchive
<1>4. ASSUME NEW d \in Dashboard, Poll(d) \/ CloseModal(d) \/ Exit(d)
       PROVE  UNCHANGED dbVars
  BY <1>4 DEF Poll, CloseModal, Exit, Dies
<1> QED
  BY <1>1, <1>2, <1>3, <1>4 DEF Next, CreateStep, ArchiveStep, Process, RowStep

LEMMA TypeRowsNext ==
  ASSUME TypeOK, Next
  PROVE  TypeRows'
<1> USE DEF TypeRows, dbVars
<1>0. TypeRows
  BY TypeParts
<1>1. ASSUME UNCHANGED dbVars
      PROVE  TypeRows'
  BY <1>0, <1>1
<1>2. ASSUME NEW p \in Process, NEW w \in Workspace, Insert(p, w)
      PROVE  TypeRows'
  <2>1. children' \subseteq children \cup {w}
    BY <1>2 DEF Insert
  <2> QED
    BY <1>0, <1>2, <2>1 DEF Insert
<1>3. ASSUME NEW p \in Process, NEW w \in Workspace, Seed(p, w)
      PROVE  TypeRows'
  BY <1>0, <1>3 DEF Seed, Row
<1>4. ASSUME NEW p \in Process, NEW w \in Workspace, NEW s, NEW x, NEW next,
             SetStatus(p, w, s, x, next),
             s \in {"Failed", "Ready"} \/ s = state[w], x \in {"NotRun", "Running"} \cup Ending
      PROVE  TypeRows'
  BY <1>0, <1>4 DEF SetStatus, Row
<1>5. ASSUME NEW p \in Process, NEW w \in Workspace, DeleteChildren(p, w)
      PROVE  TypeRows'
  BY <1>0, <1>5 DEF DeleteChildren
<1>6. ASSUME NEW p \in Process, NEW w \in Workspace, DeleteRow(p, w)
      PROVE  TypeRows'
  <2>1. CASE UNCHANGED dbVars
    BY <1>1, <2>1
  <2>2. CASE /\ w \notin children /\ children' = children
             /\ state' = [state EXCEPT ![w] = "gone"]
             /\ setup' = [setup EXCEPT ![w] = "NotRun"]
             /\ old' = old \ {w}
    BY <1>0, <2>2
  <2> QED
    BY <1>6, <2>1, <2>2 DEF DeleteRow, Referred
<1>7. ASSUME NEW d \in Dashboard, NEW w \in Workspace, NEW inTmux \in BOOLEAN,
             Attach(d, w, inTmux)
      PROVE  TypeRows'
  BY <1>0, <1>7 DEF Attach, Row
<1>8. ASSUME NEW w \in Workspace, AddChild(w) \/ GrowOld(w)
      PROVE  TypeRows'
  BY <1>0, <1>8 DEF AddChild, GrowOld, Row
<1>9. ASSUME NEW d \in Dashboard, confirm_quit(d)
      PROVE  TypeRows'
  BY <1>0, <1>9 DEF confirm_quit, QuitStatus, Ending
<1>10. ASSUME NEW d \in Dashboard, Start(d)
       PROVE  TypeRows'
  BY <1>0, <1>10 DEF Start, sweep_stale_pending, sweep_stale_running, Ending
<1>11. ASSUME NEW p \in Process, NEW w \in Workspace,
              MarkFailed(p, w) \/ MarkReady(p, w) \/ MarkRunning(p, w) \/ RecordSetup(p, w)
       PROVE  TypeRows'
  BY <1>0, <1>4, <1>11 DEF MarkFailed, MarkReady, MarkRunning, RecordSetup, Recorded
<1> QED
  BY RowSteps, <1>1, <1>2, <1>3, <1>5, <1>6, <1>7, <1>8, <1>9, <1>10, <1>11
     DEF RowStep

LEMMA TypeTasksNext ==
  ASSUME TypeOK, Next
  PROVE  TypeTasks'
<1> USE DEF TypeTasks, taskVars
<1>0. TypeTasks /\ ("none" \in CreatePhase) /\ ("none" \in ArchivePhase)
  BY TypeParts DEF CreatePhase, ArchivePhase
<1>00. ASSUME NEW p \in Process, NEW w \in Workspace, NEW kind \in {"none", "Create", "Archive"}
       PROVE  /\ in_flight \in [Dashboard -> [Workspace -> {"none", "Create", "Archive"}]]
              /\ Registering(p, w, kind) \in
                   [Dashboard -> [Workspace -> {"none", "Create", "Archive"}]]
  BY <1>0 DEF Registering
<1>1. ASSUME NEW p \in Process, NEW w \in Workspace, NEW next \in CreatePhase,
             create' = [create EXCEPT ![p][w] = next],
             UNCHANGED <<archive, cancelled>>, NEW kind \in {"none", "Create", "Archive"},
             in_flight' \in {in_flight, Registering(p, w, kind)}
      PROVE  TypeTasks'
  <2>1. create' \in [Process -> [Workspace -> CreatePhase]]
    BY <1>0, <1>1, ExceptTwice
  <2>2. in_flight' \in [Dashboard -> [Workspace -> {"none", "Create", "Archive"}]]
    BY <1>1, <1>00
  <2> QED
    BY <1>0, <1>1, <2>1, <2>2
<1>2. ASSUME NEW p \in Process, NEW w \in Workspace, NEW next \in ArchivePhase,
             archive' = [archive EXCEPT ![p][w] = next],
             UNCHANGED <<create, cancelled>>, NEW kind \in {"none", "Create", "Archive"},
             in_flight' \in {in_flight, Registering(p, w, kind)}
      PROVE  TypeTasks'
  <2>1. archive' \in [Process -> [Workspace -> ArchivePhase]]
    BY <1>0, <1>2, ExceptTwice
  <2>2. in_flight' \in [Dashboard -> [Workspace -> {"none", "Create", "Archive"}]]
    BY <1>2, <1>00
  <2> QED
    BY <1>0, <1>2, <2>1, <2>2
<1>3. ASSUME UNCHANGED <<taskVars, in_flight>>
      PROVE  TypeTasks'
  BY <1>0, <1>3
<1>4. ASSUME NEW p \in Process, NEW w \in Workspace,
             \/ NewWorkspace(p, w) \/ InsertRefused(p, w) \/ Seed(p, w)
             \/ \E ok \in BOOLEAN : Fetch(p, w, ok) \/ create_worktree(p, w, ok)
             \/ MarkFailed(p, w) \/ MarkReady(p, w) \/ CheckCancelled(p, w) \/ MarkRunning(p, w)
             \/ \E result \in Ending : run_setup(p, w, result)
             \/ RecordSetup(p, w) \/ reconcile_create_result(p, w)
      PROVE  TypeTasks'
  <2>1. PICK next \in CreatePhase : create' = [create EXCEPT ![p][w] = next]
    BY <1>4 DEF NewWorkspace, InsertRefused, Seed, Fetch, Proceed, create_worktree,
         MarkFailed, MarkReady, CheckCancelled, MarkRunning, SetStatus, run_setup, RecordSetup,
         reconcile_create_result, CreatePhase, Registered, Ending
  <2>2. UNCHANGED <<archive, cancelled, in_flight>>
    BY <1>4 DEF NewWorkspace, InsertRefused, Seed, Fetch, Proceed, create_worktree,
         MarkFailed, MarkReady, CheckCancelled, MarkRunning, SetStatus, run_setup, RecordSetup,
         reconcile_create_result
  <2> QED
    BY <1>1, <2>1, <2>2
<1>5. ASSUME NEW p \in Process, NEW w \in Workspace, Insert(p, w) \/ EndCreate(p, w)
      PROVE  TypeTasks'
  <2>1. PICK next \in CreatePhase : create' = [create EXCEPT ![p][w] = next]
    BY <1>5 DEF Insert, EndCreate, CreatePhase, Registered
  <2>2. \E kind \in {"none", "Create"} : in_flight' = Registering(p, w, kind)
    BY <1>5 DEF Insert, EndCreate, Unregistered
  <2>3. UNCHANGED <<archive, cancelled>>
    BY <1>5 DEF Insert, EndCreate
  <2> QED
    BY <1>1, <2>1, <2>2, <2>3
<1>6. ASSUME NEW p \in Process, NEW w \in Workspace,
             \/ kill_tmux_sessions_for(p, w)
             \/ \E ok \in BOOLEAN : run_archive(p, w, ok) \/ remove_worktree(p, w, ok)
             \/ DeleteChildren(p, w) \/ DeleteRow(p, w)
             \/ CliArchive(p, w)
      PROVE  TypeTasks'
  <2>1. PICK next \in ArchivePhase : archive' = [archive EXCEPT ![p][w] = next]
    BY <1>6 DEF kill_tmux_sessions_for, run_archive, remove_worktree, AfterRemove,
         DeleteChildren, DeleteRow, CliArchive, ArchivePhase
  <2>2. UNCHANGED <<create, cancelled, in_flight>>
    BY <1>6 DEF kill_tmux_sessions_for, run_archive, remove_worktree,
         DeleteChildren, DeleteRow, CliArchive
  <2> QED
    BY <1>2, <2>1, <2>2
<1>7. ASSUME NEW p \in Process, NEW w \in Workspace,
             reconcile_archive_result(p, w) \/ (p \in Dashboard /\ confirm_archive(p, w))
      PROVE  TypeTasks'
  <2>1. PICK next \in ArchivePhase : archive' = [archive EXCEPT ![p][w] = next]
    BY <1>7 DEF reconcile_archive_result, confirm_archive, ArchivePhase
  <2>2. \E kind \in {"none", "Archive"} : in_flight' = Registering(p, w, kind)
    BY <1>7 DEF reconcile_archive_result, confirm_archive
  <2>3. UNCHANGED <<create, cancelled>>
    BY <1>7 DEF reconcile_archive_result, confirm_archive
  <2> QED
    BY <1>2, <2>1, <2>2, <2>3
<1>8. ASSUME NEW p \in Process, Dies(p)
      PROVE  TypeTasks'
  <2>1. create' \in [Process -> [Workspace -> CreatePhase]]
    BY <1>0, <1>8 DEF Dies
  <2>2. archive' \in [Process -> [Workspace -> ArchivePhase]]
    BY <1>0, <1>8 DEF Dies
  <2>3. in_flight' \in [Dashboard -> [Workspace -> {"none", "Create", "Archive"}]]
    <3>1. CASE p \in Dashboard
      BY <1>0, <1>8, <3>1 DEF Dies
    <3>2. CASE p \notin Dashboard
      BY <1>0, <1>8, <3>2 DEF Dies
    <3> QED
      BY <3>1, <3>2
  <2> QED
    BY <1>0, <1>8, <2>1, <2>2, <2>3 DEF Dies
<1>9. ASSUME NEW p \in Process, NEW w \in Workspace, StoreFails(p, w)
      PROVE  TypeTasks'
  <2>1. "ended" \in CreatePhase /\ "ended" \in ArchivePhase
    BY DEF CreatePhase, ArchivePhase, Registered
  <2>2. /\ \/ create' = [create EXCEPT ![p][w] = "ended"] /\ UNCHANGED archive
           \/ archive' = [archive EXCEPT ![p][w] = "ended"] /\ UNCHANGED create
        /\ UNCHANGED <<cancelled, in_flight>>
    BY <1>9 DEF StoreFails
  <2>3. CASE create' = [create EXCEPT ![p][w] = "ended"] /\ UNCHANGED archive
    BY <1>1, <2>1, <2>2, <2>3
  <2>4. CASE archive' = [archive EXCEPT ![p][w] = "ended"] /\ UNCHANGED create
    BY <1>2, <2>1, <2>2, <2>4
  <2> QED
    BY <2>2, <2>3, <2>4
<1>10. ASSUME NEW d \in Dashboard, confirm_quit(d) \/ \E w \in Workspace : CancelCreate(d, w)
       PROVE  TypeTasks'
  BY <1>0, <1>10 DEF confirm_quit, Creating, CancelCreate
<1>11. ASSUME NEW d \in Dashboard, NEW w \in Workspace,
              \/ OpenArchive(d, w) \/ Detach(d, w) \/ \E inTmux \in BOOLEAN : Attach(d, w, inTmux)
              \/ AddChild(w) \/ GrowOld(w)
       PROVE  TypeTasks'
  BY <1>3, <1>11 DEF OpenArchive, Detach, Attach, AddChild, GrowOld
<1>12. ASSUME NEW d \in Dashboard, Poll(d) \/ CloseModal(d) \/ Start(d)
       PROVE  TypeTasks'
  BY <1>3, <1>12 DEF Poll, CloseModal, Start
<1>13. ASSUME NEW w \in Workspace, AddChild(w) \/ GrowOld(w)
       PROVE  TypeTasks'
  BY <1>3, <1>13 DEF AddChild, GrowOld
<1> QED
  BY <1>4, <1>5, <1>6, <1>7, <1>8, <1>9, <1>10, <1>11, <1>12, <1>13
     DEF Next, CreateStep, ArchiveStep, Exit, Crash, Process

LEMMA TypeRestNext ==
  ASSUME TypeOK, Next
  PROVE  TypeRest'
<1> USE DEF TypeRest, keyVars, agentVars, historyVars
<1>0. TypeRest /\ MaxFault \in Nat
  BY TypeParts, LifecycleAssumption
<1>1. /\ \A p : Committed(p) \in [Dashboard -> BOOLEAN]
      /\ \A p : Refreshed(p) \in [Dashboard -> SUBSET Workspace]
      /\ \A p \in Process, w \in Workspace : Crossing(p, w) \subseteq Workspace
  BY <1>0 DEF Committed, Refreshed, Crossing
<1>2. ASSUME NEW p \in Process, NEW w \in Workspace, NewWorkspace(p, w)
      PROVE  TypeRest'
  BY <1>0, <1>2 DEF NewWorkspace
<1>3. ASSUME NEW p \in Process, NEW w \in Workspace, NEW ok \in BOOLEAN,
             \/ InsertRefused(p, w) \/ Fetch(p, w, ok) \/ CheckCancelled(p, w)
             \/ \E result \in Ending : run_setup(p, w, result)
             \/ EndCreate(p, w) \/ run_archive(p, w, ok)
      PROVE  TypeRest'
  BY <1>0, <1>3 DEF InsertRefused, Fetch, Proceed, CheckCancelled, run_setup, EndCreate,
       run_archive
<1>4. ASSUME NEW p \in Process, NEW w \in Workspace,
             \/ Insert(p, w) \/ reconcile_create_result(p, w) \/ reconcile_archive_result(p, w)
      PROVE  TypeRest'
  BY <1>0, <1>1, <1>4 DEF Insert, reconcile_create_result, reconcile_archive_result,
       RefreshedAfter
<1>5. ASSUME NEW p \in Process, NEW w \in Workspace,
             \/ Seed(p, w) \/ MarkFailed(p, w) \/ MarkReady(p, w) \/ MarkRunning(p, w)
             \/ RecordSetup(p, w) \/ DeleteRow(p, w)
      PROVE  TypeRest'
  BY <1>0, <1>1, <1>5 DEF Seed, MarkFailed, MarkReady, MarkRunning, RecordSetup, SetStatus,
       DeleteRow
<1>6. ASSUME NEW p \in Process, NEW w \in Workspace, NEW ok \in BOOLEAN,
             create_worktree(p, w, ok) \/ remove_worktree(p, w, ok)
      PROVE  TypeRest'
  BY <1>0, <1>6 DEF create_worktree, remove_worktree
<1>7. ASSUME NEW p \in Process, NEW w \in Workspace, kill_tmux_sessions_for(p, w)
      PROVE  TypeRest'
  BY <1>0, <1>7 DEF kill_tmux_sessions_for
<1>8. ASSUME NEW p \in Process, NEW w \in Workspace, DeleteChildren(p, w)
      PROVE  TypeRest'
  BY <1>0, <1>1, <1>8 DEF DeleteChildren
<1>9. ASSUME NEW p \in Process, NEW w \in Workspace, StoreFails(p, w)
      PROVE  TypeRest'
  BY <1>0, <1>9 DEF StoreFails
<1>10. ASSUME NEW c \in Cli, NEW w \in Workspace, CliArchive(c, w)
       PROVE  TypeRest'
  BY <1>0, <1>1, <1>10 DEF CliArchive, Process
<1>11. ASSUME NEW d \in Dashboard, NEW w \in Workspace,
              \/ OpenArchive(d, w) \/ confirm_archive(d, w) \/ CancelCreate(d, w)
       PROVE  TypeRest'
  BY <1>0, <1>1, <1>11 DEF OpenArchive, confirm_archive, CancelCreate, Process
<1>12. ASSUME NEW d \in Dashboard, NEW w \in Workspace, Detach(d, w)
       PROVE  TypeRest'
  BY <1>0, <1>12 DEF Detach
<1>13. ASSUME NEW d \in Dashboard, NEW w \in Workspace, NEW inTmux \in BOOLEAN,
              Attach(d, w, inTmux)
       PROVE  TypeRest'
  BY <1>0, <1>1, <1>13 DEF Attach
<1>14. ASSUME NEW d \in Dashboard, Poll(d)
       PROVE  TypeRest'
  <2>1. unseen' \in [Dashboard -> BOOLEAN] /\ orphan' \in [Dashboard -> SUBSET Workspace]
    BY <1>0, <1>1, <1>14 DEF Poll
  <2> QED
    BY <1>0, <1>14, <2>1 DEF Poll
<1>20. ASSUME NEW d \in Dashboard, CloseModal(d)
       PROVE  TypeRest'
  <2>1. modal' \in [Dashboard -> SUBSET Workspace]
    BY <1>0, <1>20 DEF CloseModal
  <2> QED
    BY <1>0, <1>20, <2>1 DEF CloseModal
<1>15. ASSUME NEW d \in Dashboard, confirm_quit(d) \/ Start(d)
       PROVE  TypeRest'
  <2>1. up' \in [Dashboard -> BOOLEAN] /\ quit' \in [Dashboard -> BOOLEAN]
    BY <1>0, <1>15 DEF confirm_quit, Start
  <2>2. unseen' \in {unseen, Committed(d)}
    BY <1>15 DEF confirm_quit, Start
  <2>3. unseen' \in [Dashboard -> BOOLEAN]
    BY <1>0, <1>1, <2>2
  <2>4. UNCHANGED <<disk, tmux, modal, session, orphan, faults, maker, crossed>>
    BY <1>15 DEF confirm_quit, Start
  <2> QED
    BY <1>0, <2>1, <2>3, <2>4
<1>16. ASSUME NEW p \in Process, Dies(p), UNCHANGED <<maker, crossed>>, faults' \in 0 .. MaxFault
       PROVE  TypeRest'
  BY <1>0, <1>16 DEF Dies
<1>17. ASSUME NEW w \in Workspace, AddChild(w) \/ GrowOld(w)
       PROVE  TypeRest'
  BY <1>0, <1>17 DEF AddChild, GrowOld
<1>18. ASSUME NEW p \in Process, Crash(p)
       PROVE  TypeRest'
  BY <1>0, <1>16, <1>18 DEF Crash
<1>19. ASSUME NEW d \in Dashboard, Exit(d)
       PROVE  TypeRest'
  BY <1>0, <1>16, <1>19, ProcessIs DEF Exit
<1> QED
  BY <1>2, <1>3, <1>4, <1>5, <1>6, <1>7, <1>8, <1>9, <1>10, <1>11, <1>12, <1>13, <1>14, <1>15,
     <1>17, <1>18, <1>19, <1>20 DEF Next, CreateStep, ArchiveStep

-----------------------------------------------------------------------------
(* What a step may do to one variable, for one process and one workspace.   *)

\* A step of a create between its row and its end.
Working(p, w) ==
  /\ create[p][w] \in (Registered \cup {"seed"}) \ {"ended"}
  /\ \E next \in Registered :
       /\ create' = [create EXCEPT ![p][w] = next]
       /\ next \in Making => create[p][w] \in Making /\ Row(w)' = Row(w)
       /\ next = "ended" => faults' # 0 \/ (Row(w)' => Settled(w)')
  /\ UNCHANGED <<archive, in_flight, maker, up, quit, modal, crossed, cancelled>>

\* A step of an archive between its beginning and its end.
Tearing(p, w) ==
  /\ archive[p][w] # "none"
  /\ \E next \in {"script", "remove", "children", "row", "ended"} :
       /\ archive' = [archive EXCEPT ![p][w] = next]
       /\ next \in Teardown => archive[p][w] \in Teardown \/ tmux'[w] = {}
       /\ next \in {"children", "row"} =>
            w \notin disk' \/ (archive[p][w] = "children" /\ disk' = disk)
  /\ UNCHANGED <<create, in_flight, maker, up, quit, modal, crossed, cancelled>>

\* The steps of one process that end or begin a task, or take it along.
TaskStep(p, w) ==
  \/ NewWorkspace(p, w) \/ InsertRefused(p, w) \/ Insert(p, w) \/ EndCreate(p, w)
  \/ p \in Dashboard /\ reconcile_create_result(p, w)
  \/ p \in Dashboard /\ confirm_archive(p, w)
  \/ p \in Cli /\ CliArchive(p, w)
  \/ reconcile_archive_result(p, w)
  \/ Working(p, w) \/ Tearing(p, w)

\* The steps of one dashboard that its keys, its start and its end are.
KeyStep(d) ==
  \/ \E w \in Workspace : OpenArchive(d, w) \/ CancelCreate(d, w)
  \/ CloseModal(d) \/ confirm_quit(d) \/ Start(d)

\* The end of a process, by itself or by a fault.
Ends(p) ==
  /\ Dies(p) /\ UNCHANGED <<maker, crossed>>
  /\ faults' # 0 \/ (p \in Dashboard /\ quit[p])

\* The steps of the rest change no task.
Elsewhere == UNCHANGED <<create, archive, in_flight, maker, up, quit, modal, crossed, cancelled>>

LEMMA TaskSteps ==
  ASSUME TypeOK, Next
  PROVE  \/ \E p \in Process, w \in Workspace : TaskStep(p, w)
         \/ \E p \in Process : Ends(p)
         \/ \E d \in Dashboard : KeyStep(d)
         \/ Elsewhere
<1>0. /\ tmux \in [Workspace -> SUBSET Dashboard]
      /\ create \in [Process -> [Workspace -> CreatePhase]]
      /\ state \in [Workspace -> {"none", "Pending", "Ready", "Failed", "Orphaned", "gone"}]
      /\ setup \in [Workspace -> {"NotRun", "Running"} \cup Ending]
      /\ faults \in 0 .. MaxFault /\ MaxFault \in Nat
  BY LifecycleAssumption DEF TypeOK
<1> USE DEF dbVars, keyVars, agentVars, historyVars
<1>1. ASSUME NEW p \in Process, NEW w \in Workspace, CreateStep(p, w)
      PROVE  TaskStep(p, w)
  <2>1. CASE \/ InsertRefused(p, w) \/ Insert(p, w) \/ EndCreate(p, w)
             \/ p \in Dashboard /\ reconcile_create_result(p, w)
    BY <2>1 DEF TaskStep
  <2>8. ASSUME create[p][w] \in Making,
               NEW next \in {"fetch", "add", "fail", "ready", "ended"},
               create' = [create EXCEPT ![p][w] = next],
               next = "ended" => ~Row(w),
               UNCHANGED <<state, archive, in_flight, maker, up, quit, modal, crossed, cancelled>>
        PROVE  TaskStep(p, w)
    <3>1. next \in Registered /\ create[p][w] \in (Registered \cup {"seed"}) \ {"ended"}
      BY <2>8 DEF Registered, Making
    <3>2. Row(w)' = Row(w)
      BY <2>8 DEF Row
    <3> QED
      BY <2>8, <3>1, <3>2 DEF TaskStep, Working
  <2>2. CASE Seed(p, w)
    BY <2>2, <2>8 DEF Seed, Making
  <2>3. CASE \E ok \in BOOLEAN : Fetch(p, w, ok)
    BY <2>3, <2>8 DEF Fetch, Proceed, Making
  <2>4. CASE \E ok \in BOOLEAN : create_worktree(p, w, ok)
    BY <2>4, <2>8 DEF create_worktree, Making
  <2>5. CASE MarkFailed(p, w) \/ MarkReady(p, w) \/ MarkRunning(p, w)
    BY <1>0, <2>5 DEF TaskStep, Working, MarkFailed, MarkReady, MarkRunning, SetStatus, Registered,
         Making, Settled, Row
  <2>6. CASE RecordSetup(p, w)
    BY <1>0, <2>6 DEF TaskStep, Working, RecordSetup, Recorded, SetStatus, Registered, Making,
         Ending, Settled, Row
  <2>7. CASE CheckCancelled(p, w) \/ \E result \in Ending : run_setup(p, w, result)
    BY <2>7 DEF TaskStep, Working, CheckCancelled, run_setup, Proceed, Registered, Making, Ending
  <2> QED
    BY <1>1, <2>1, <2>2, <2>3, <2>4, <2>5, <2>6, <2>7 DEF CreateStep
<1>2. ASSUME NEW p \in Process, NEW w \in Workspace, ArchiveStep(p, w)
      PROVE  TaskStep(p, w)
  <2>1. CASE reconcile_archive_result(p, w)
    BY <2>1 DEF TaskStep
  <2>2. CASE kill_tmux_sessions_for(p, w)
    BY <1>0, <2>2 DEF TaskStep, Tearing, kill_tmux_sessions_for
  <2>3. CASE \E ok \in BOOLEAN : run_archive(p, w, ok)
    BY <2>3 DEF TaskStep, Tearing, run_archive, Teardown
  <2>4. CASE \E ok \in BOOLEAN : remove_worktree(p, w, ok)
    BY <2>4 DEF TaskStep, Tearing, remove_worktree, AfterRemove, Teardown
  <2>5. CASE DeleteChildren(p, w) \/ DeleteRow(p, w)
    BY <2>5 DEF TaskStep, Tearing, DeleteChildren, DeleteRow, Teardown
  <2> QED
    BY <1>2, <2>1, <2>2, <2>3, <2>4, <2>5 DEF ArchiveStep
<1>3. ASSUME NEW p \in Process, NEW w \in Workspace, StoreFails(p, w)
      PROVE  TaskStep(p, w)
  BY <1>0, <1>3 DEF TaskStep, StoreFails, Working, Tearing, Registered, Making, Ending, Teardown
<1>4. ASSUME NEW d \in Dashboard, NEW w \in Workspace,
             Detach(d, w) \/ \E inTmux \in BOOLEAN : Attach(d, w, inTmux)
      PROVE  Elsewhere
  BY <1>4 DEF Detach, Attach, Elsewhere, taskVars
<1>5. ASSUME NEW w \in Workspace, AddChild(w) \/ GrowOld(w)
      PROVE  Elsewhere
  BY <1>5 DEF AddChild, GrowOld, Elsewhere, taskVars
<1>6. ASSUME NEW d \in Dashboard, Poll(d)
      PROVE  Elsewhere
  BY <1>6 DEF Poll, Elsewhere, taskVars
<1>7. ASSUME NEW p \in Process, Crash(p) \/ (p \in Dashboard /\ Exit(p))
      PROVE  Ends(p)
  BY <1>7, <1>0 DEF Crash, Exit, Ends
<1>8. ASSUME NEW p \in Process, NEW w \in Workspace,
             \/ NewWorkspace(p, w)
             \/ p \in Cli /\ CliArchive(p, w)
             \/ p \in Dashboard /\ confirm_archive(p, w)
      PROVE  TaskStep(p, w)
  BY <1>8 DEF TaskStep
<1> HIDE DEF dbVars, keyVars, agentVars, historyVars
<1> QED
  BY <1>1, <1>2, <1>3, <1>4, <1>5, <1>6, <1>7, <1>8 DEF Next, KeyStep, Process

LEMMA CreateMoves ==
  ASSUME TypeOK, Next, NEW p \in Process, NEW w \in Workspace,
         create'[p][w] # create[p][w]
  PROVE  \/ NewWorkspace(p, w) \/ InsertRefused(p, w) \/ Insert(p, w) \/ EndCreate(p, w)
         \/ p \in Dashboard /\ reconcile_create_result(p, w)
         \/ Working(p, w)
         \/ Ends(p) /\ create'[p][w] = "none"
<1>0. create \in [Process -> [Workspace -> CreatePhase]]
  BY DEF TypeOK
<1>1. ASSUME NEW q \in Process, NEW v \in Workspace, TaskStep(q, v), ~(q = p /\ v = w)
      PROVE  create'[p][w] = create[p][w]
  BY <1>0, <1>1 DEF TaskStep, NewWorkspace, InsertRefused, Insert, EndCreate, CliArchive,
       reconcile_create_result, confirm_archive, reconcile_archive_result, Working, Tearing
<1>2. ASSUME TaskStep(p, w)
      PROVE  \/ NewWorkspace(p, w) \/ InsertRefused(p, w) \/ Insert(p, w) \/ EndCreate(p, w)
             \/ p \in Dashboard /\ reconcile_create_result(p, w)
             \/ Working(p, w)
  BY <1>2 DEF TaskStep, CliArchive, confirm_archive, reconcile_archive_result, Tearing
<1>3. ASSUME NEW q \in Process, Ends(q)
      PROVE  q = p /\ create'[p][w] = "none"
  BY <1>0, <1>3 DEF Ends, Dies
<1>4. ASSUME NEW d \in Dashboard, KeyStep(d)
      PROVE  create' = create
  BY <1>4 DEF KeyStep, OpenArchive, CancelCreate, CloseModal, confirm_quit, Start, taskVars
<1> QED
  BY TaskSteps, <1>1, <1>2, <1>3, <1>4 DEF Elsewhere

LEMMA ArchiveMoves ==
  ASSUME TypeOK, Next, NEW p \in Process, NEW w \in Workspace,
         archive'[p][w] # archive[p][w]
  PROVE  \/ p \in Dashboard /\ confirm_archive(p, w)
         \/ p \in Cli /\ CliArchive(p, w)
         \/ reconcile_archive_result(p, w)
         \/ Tearing(p, w)
         \/ Ends(p) /\ archive'[p][w] = "none"
<1>0. archive \in [Process -> [Workspace -> ArchivePhase]]
  BY DEF TypeOK
<1>1. ASSUME NEW q \in Process, NEW v \in Workspace, TaskStep(q, v), ~(q = p /\ v = w)
      PROVE  archive'[p][w] = archive[p][w]
  BY <1>0, <1>1 DEF TaskStep, NewWorkspace, InsertRefused, Insert, EndCreate, CliArchive,
       reconcile_create_result, confirm_archive, reconcile_archive_result, Working, Tearing
<1>2. ASSUME TaskStep(p, w)
      PROVE  \/ p \in Dashboard /\ confirm_archive(p, w)
             \/ p \in Cli /\ CliArchive(p, w)
             \/ reconcile_archive_result(p, w)
             \/ Tearing(p, w)
  BY <1>2 DEF TaskStep, NewWorkspace, InsertRefused, Insert, EndCreate,
       reconcile_create_result, Working
<1>3. ASSUME NEW q \in Process, Ends(q)
      PROVE  q = p /\ archive'[p][w] = "none"
  BY <1>0, <1>3 DEF Ends, Dies
<1>4. ASSUME NEW d \in Dashboard, KeyStep(d)
      PROVE  archive' = archive
  BY <1>4 DEF KeyStep, OpenArchive, CancelCreate, CloseModal, confirm_quit, Start, taskVars
<1> QED
  BY TaskSteps, <1>1, <1>2, <1>3, <1>4 DEF Elsewhere

LEMMA FlightMoves ==
  ASSUME TypeOK, Next, NEW d \in Dashboard, NEW w \in Workspace,
         in_flight'[d][w] # in_flight[d][w]
  PROVE  \/ Insert(d, w) \/ EndCreate(d, w)
         \/ confirm_archive(d, w) \/ reconcile_archive_result(d, w)
         \/ Ends(d) /\ in_flight'[d][w] = "none"
<1>0. in_flight \in [Dashboard -> [Workspace -> {"none", "Create", "Archive"}]]
  BY DEF TypeOK
<1>1. ASSUME NEW q \in Process, NEW v \in Workspace, TaskStep(q, v), ~(q = d /\ v = w)
      PROVE  in_flight'[d][w] = in_flight[d][w]
  BY <1>0, <1>1 DEF TaskStep, NewWorkspace, InsertRefused, Insert, EndCreate, CliArchive,
       reconcile_create_result, confirm_archive, reconcile_archive_result, Working, Tearing,
       Registering, Unregistered
<1>2. ASSUME TaskStep(d, w)
      PROVE  \/ Insert(d, w) \/ EndCreate(d, w)
             \/ confirm_archive(d, w) \/ reconcile_archive_result(d, w)
  BY <1>2 DEF TaskStep, NewWorkspace, InsertRefused, CliArchive, reconcile_create_result,
       Working, Tearing
<1>3. ASSUME NEW q \in Process, Ends(q)
      PROVE  q = d /\ in_flight'[d][w] = "none"
  BY <1>0, <1>3 DEF Ends, Dies
<1>4. ASSUME NEW e \in Dashboard, KeyStep(e)
      PROVE  in_flight' = in_flight
  BY <1>4 DEF KeyStep, OpenArchive, CancelCreate, CloseModal, confirm_quit, Start
<1> QED
  BY TaskSteps, ProcessIs, <1>1, <1>2, <1>3, <1>4 DEF Elsewhere

LEMMA MakerMoves ==
  ASSUME TypeOK, Next, NEW w \in Workspace, maker'[w] # maker[w]
  PROVE  \E p \in Process : NewWorkspace(p, w)
<1>0. maker \in [Workspace -> SUBSET Process]
  BY DEF TypeOK
<1>1. ASSUME NEW q \in Process, NEW v \in Workspace, TaskStep(q, v)
      PROVE  \/ maker' = maker
             \/ NewWorkspace(q, v) /\ maker' = [maker EXCEPT ![v] = {q}]
  BY <1>1 DEF TaskStep, NewWorkspace, InsertRefused, Insert, EndCreate, CliArchive,
       reconcile_create_result, confirm_archive, reconcile_archive_result, Working, Tearing,
       historyVars
<1>2. ASSUME NEW d \in Dashboard, KeyStep(d)
      PROVE  maker' = maker
  BY <1>2 DEF KeyStep, OpenArchive, CancelCreate, CloseModal, confirm_quit, Start, historyVars
<1> QED
  BY TaskSteps, <1>0, <1>1, <1>2 DEF Elsewhere, Ends

\* A dashboard starts, dies or is quit; its modal opens and closes.
LEMMA KeyMoves ==
  ASSUME TypeOK, Next, NEW d \in Dashboard
  PROVE  /\ up'[d] # up[d] => Start(d) \/ (Ends(d) /\ ~up'[d])
         /\ quit'[d] # quit[d] => confirm_quit(d) \/ (Ends(d) /\ ~quit'[d])
         /\ modal'[d] # modal[d] =>
              modal'[d] = {} \/ \E w \in Workspace : OpenArchive(d, w) /\ modal'[d] = {w}
<1>0. /\ up \in [Dashboard -> BOOLEAN] /\ quit \in [Dashboard -> BOOLEAN]
      /\ modal \in [Dashboard -> SUBSET Workspace]
  BY DEF TypeOK
<1>1. ASSUME NEW q \in Process, NEW v \in Workspace, TaskStep(q, v)
      PROVE  /\ up' = up /\ quit' = quit
             /\ modal' = modal \/ (q \in Dashboard /\ modal' = [modal EXCEPT ![q] = {}])
  BY <1>1 DEF TaskStep, NewWorkspace, InsertRefused, Insert, EndCreate, CliArchive,
       reconcile_create_result, confirm_archive, reconcile_archive_result, Working, Tearing,
       keyVars
<1>2. ASSUME NEW q \in Process, Ends(q)
      PROVE  /\ up'[d] # up[d] => Ends(d) /\ ~up'[d]
             /\ quit'[d] # quit[d] => Ends(d) /\ ~quit'[d]
             /\ modal'[d] # modal[d] => modal'[d] = {}
  <2>1. CASE q = d
    BY <1>0, <1>2, <2>1 DEF Ends, Dies
  <2>2. CASE q # d
    BY <1>0, <1>2, <2>2 DEF Ends, Dies, keyVars
  <2> QED
    BY <2>1, <2>2
<1>3. ASSUME NEW e \in Dashboard, Start(e)
      PROVE  quit' = quit /\ modal' = modal /\ (up'[d] # up[d] => Start(d))
  BY <1>0, <1>3 DEF Start
<1>4. ASSUME NEW e \in Dashboard, confirm_quit(e)
      PROVE  up' = up /\ modal' = modal /\ (quit'[d] # quit[d] => confirm_quit(d))
  BY <1>0, <1>4 DEF confirm_quit
<1>5. ASSUME NEW e \in Dashboard, CloseModal(e)
      PROVE  up' = up /\ quit' = quit /\ (modal'[d] # modal[d] => modal'[d] = {})
  BY <1>0, <1>5 DEF CloseModal
<1>6. ASSUME NEW e \in Dashboard, NEW w \in Workspace, OpenArchive(e, w)
      PROVE  /\ up' = up /\ quit' = quit
             /\ modal'[d] # modal[d] => OpenArchive(d, w) /\ modal'[d] = {w}
  BY <1>0, <1>6 DEF OpenArchive
<1>7. ASSUME NEW e \in Dashboard, NEW w \in Workspace, CancelCreate(e, w)
      PROVE  up' = up /\ quit' = quit /\ modal' = modal
  BY <1>7 DEF CancelCreate, keyVars
<1>8. ASSUME NEW q \in Process, NEW v \in Workspace, TaskStep(q, v), modal'[d] # modal[d]
      PROVE  modal'[d] = {}
  BY <1>0, <1>1, <1>8
<1> QED
  BY TaskSteps, <1>1, <1>2, <1>3, <1>4, <1>5, <1>6, <1>7, <1>8 DEF Elsewhere, KeyStep

\* What a create that has its row writes to it.
Written(p, w) ==
  \/ /\ create[p][w] = "fail" /\ create'[p][w] = "ended"
     /\ state'[w] = "Failed" /\ setup'[w] = setup[w]
  \/ /\ create[p][w] = "ready" /\ create'[p][w] = "check"
     /\ state'[w] = "Ready" /\ setup'[w] = setup[w]
  \/ /\ create[p][w] = "run" /\ create'[p][w] = "setup"
     /\ state'[w] = state[w] /\ setup'[w] = "Running"
  \/ /\ create[p][w] \in Ending /\ create'[p][w] = "ended"
     /\ state'[w] = state[w] /\ setup'[w] \in Ending

\* What a dashboard that starts finds to be left over.
Swept(w) ==
  /\ state'[w] = state[w] \/ (state[w] = "Pending" /\ w \in old /\ state'[w] = "Orphaned")
  /\ setup'[w] = IF setup[w] = "Running" THEN "Cancelled" ELSE setup[w]
  /\ old' = old

\* The ways a row changes.
RowChange(w) ==
  \/ /\ \E p \in Process : Insert(p, w)
     /\ state'[w] = "Pending" /\ setup'[w] = setup[w]
  \/ Row(w) /\ \E p \in Process : Written(p, w)
  \/ /\ Row(w) /\ state'[w] = "gone" /\ setup'[w] = "NotRun"
     /\ \E p \in Process : DeleteRow(p, w)
  \/ /\ Row(w) /\ state'[w] = state[w] /\ old' = old /\ setup'[w] = "Cancelled"
     /\ \E d \in Dashboard : confirm_quit(d) /\ w \in Creating(d)
  \/ Row(w) /\ Swept(w)

LEMMA RowMoves ==
  ASSUME TypeOK, Next, NEW w \in Workspace
  PROVE  \/ /\ state'[w] = state[w] /\ setup'[w] = setup[w]
            /\ w \in old => w \in old' \/ \E p \in Process : Written(p, w)
         \/ RowChange(w)
<1>0. /\ state \in [Workspace -> {"none", "Pending", "Ready", "Failed", "Orphaned", "gone"}]
      /\ setup \in [Workspace -> {"NotRun", "Running"} \cup Ending]
      /\ create \in [Process -> [Workspace -> CreatePhase]]
  BY DEF TypeOK
<1> DEFINE Same == state'[w] = state[w] /\ setup'[w] = setup[w] /\ (w \in old => w \in old')
<1>1. ASSUME UNCHANGED dbVars
      PROVE  Same
  BY <1>1 DEF dbVars
<1>2. ASSUME NEW p \in Process, NEW v \in Workspace, Insert(p, v)
      PROVE  Same \/ RowChange(w)
  BY <1>0, <1>2 DEF Insert, RowChange
<1>3. ASSUME NEW p \in Process, NEW v \in Workspace, Seed(p, v) \/ DeleteChildren(p, v)
      PROVE  Same
  BY <1>3 DEF Seed, DeleteChildren
<1>4. ASSUME NEW p \in Process, NEW v \in Workspace, DeleteRow(p, v)
      PROVE  Same \/ RowChange(w)
  BY <1>0, <1>4 DEF DeleteRow, RowChange
<1>5. ASSUME NEW p \in Process, NEW v \in Workspace, NEW s, NEW x, NEW next,
             SetStatus(p, v, s, x, next)
      PROVE  IF v = w
             THEN IF Row(w) THEN state'[w] = s /\ setup'[w] = x /\ create'[p][w] = next
                  ELSE state'[w] = state[w] /\ setup'[w] = setup[w] /\ create'[p][w] = next
             ELSE Same
  BY <1>0, <1>5 DEF SetStatus
<1>6. ASSUME NEW p \in Process, NEW v \in Workspace,
             MarkFailed(p, v) \/ MarkReady(p, v) \/ MarkRunning(p, v) \/ RecordSetup(p, v)
      PROVE  Same \/ RowChange(w) \/ (v = w /\ ~Row(w) /\ state'[w] = state[w] /\ setup'[w] = setup[w])
  <2>1. CASE v = w /\ Row(w)
    <3>1. Written(p, w)
      BY <1>5, <1>6, <2>1 DEF MarkFailed, MarkReady, MarkRunning, RecordSetup, Recorded, Written
    <3> QED
      BY <2>1, <3>1 DEF RowChange
  <2>2. CASE ~(v = w /\ Row(w))
    BY <1>5, <1>6, <2>2 DEF MarkFailed, MarkReady, MarkRunning, RecordSetup
  <2> QED
    BY <2>1, <2>2
<1>7. ASSUME NEW d \in Dashboard, NEW v \in Workspace, NEW inTmux \in BOOLEAN,
             Attach(d, v, inTmux)
      PROVE  Same
  BY <1>7 DEF Attach
<1>8. ASSUME NEW v \in Workspace, AddChild(v) \/ GrowOld(v)
      PROVE  Same
  BY <1>8 DEF AddChild, GrowOld
<1>9. ASSUME NEW d \in Dashboard, confirm_quit(d)
      PROVE  Same \/ RowChange(w)
  BY <1>0, <1>9 DEF confirm_quit, QuitStatus, RowChange
<1>10. ASSUME NEW d \in Dashboard, Start(d)
       PROVE  Same \/ RowChange(w)
  <2>1. /\ state'[w] = IF sweep_stale_pending(w) THEN "Orphaned" ELSE state[w]
        /\ setup'[w] = IF sweep_stale_running(w) THEN "Cancelled" ELSE setup[w]
        /\ old' = old
    BY <1>10 DEF Start
  <2>2. CASE Row(w)
    BY <2>1, <2>2 DEF RowChange, Swept, sweep_stale_pending, sweep_stale_running
  <2>3. CASE ~Row(w)
    BY <2>1, <2>3 DEF Row, sweep_stale_pending, sweep_stale_running
  <2> QED
    BY <2>2, <2>3
<1>11. w \in old => Row(w)
  BY <1>0 DEF TypeOK, Row
<1> QED
  BY RowSteps, <1>1, <1>2, <1>3, <1>4, <1>6, <1>7, <1>8, <1>9, <1>10, <1>11 DEF RowStep

LEMMA DiskMoves ==
  ASSUME TypeOK, Next, NEW w \in Workspace, w \notin disk, w \in disk'
  PROVE  \E p \in Process : create[p][w] = "add" /\ UNCHANGED <<state, archive, crossed>>
<1>1. ASSUME NEW p \in Process, NEW v \in Workspace, NEW ok \in BOOLEAN, create_worktree(p, v, ok)
      PROVE  create[p][w] = "add" /\ UNCHANGED <<state, archive, crossed>>
  BY <1>1 DEF create_worktree, dbVars, historyVars
<1>2. ASSUME NEW p \in Process, NEW v \in Workspace, NEW ok \in BOOLEAN,
             \/ NewWorkspace(p, v) \/ Insert(p, v) \/ InsertRefused(p, v) \/ Seed(p, v)
             \/ Fetch(p, v, ok) \/ MarkFailed(p, v) \/ MarkReady(p, v)
             \/ CheckCancelled(p, v) \/ MarkRunning(p, v)
             \/ \E result \in Ending : run_setup(p, v, result)
             \/ RecordSetup(p, v) \/ EndCreate(p, v) \/ reconcile_create_result(p, v)
      PROVE  disk' = disk
  BY <1>2 DEF NewWorkspace, Insert, InsertRefused, Seed, Fetch, Proceed, MarkFailed, MarkReady,
       CheckCancelled, MarkRunning, run_setup, RecordSetup, SetStatus, EndCreate,
       reconcile_create_result
<1>3. ASSUME NEW p \in Process, NEW v \in Workspace, NEW ok \in BOOLEAN,
             \/ kill_tmux_sessions_for(p, v) \/ run_archive(p, v, ok)
             \/ remove_worktree(p, v, ok) \/ DeleteChildren(p, v) \/ DeleteRow(p, v)
             \/ reconcile_archive_result(p, v) \/ StoreFails(p, v) \/ CliArchive(p, v)
      PROVE  disk' \subseteq disk
  BY <1>3 DEF kill_tmux_sessions_for, run_archive, remove_worktree, DeleteChildren, DeleteRow,
       reconcile_archive_result, StoreFails, CliArchive
<1>4. ASSUME NEW d \in Dashboard, NEW v \in Workspace,
             \/ OpenArchive(d, v) \/ confirm_archive(d, v) \/ CancelCreate(d, v) \/ Detach(d, v)
             \/ \E inTmux \in BOOLEAN : Attach(d, v, inTmux)
      PROVE  disk' = disk
  BY <1>4 DEF OpenArchive, confirm_archive, CancelCreate, Detach, Attach
<1>5. ASSUME NEW d \in Dashboard,
             Poll(d) \/ CloseModal(d) \/ confirm_quit(d) \/ Exit(d) \/ Start(d)
      PROVE  disk' = disk
  BY <1>5 DEF Poll, CloseModal, confirm_quit, Exit, Dies, Start
<1>6. ASSUME NEW p \in Process, Crash(p)
      PROVE  disk' = disk
  BY <1>6 DEF Crash, Dies
<1>7. ASSUME NEW v \in Workspace, AddChild(v) \/ GrowOld(v)
      PROVE  disk' = disk
  BY <1>7 DEF AddChild, GrowOld
<1> QED
  BY <1>1, <1>2, <1>3, <1>4, <1>5, <1>6, <1>7 DEF Next, CreateStep, ArchiveStep, Process

LEMMA TmuxMoves ==
  ASSUME TypeOK, Next, NEW w \in Workspace, NEW d \in Dashboard, d \notin tmux[w], d \in tmux'[w]
  PROVE  in_flight[d][w] # "Archive" /\ archive' = archive
<1>0. tmux \in [Workspace -> SUBSET Dashboard]
  BY DEF TypeOK
<1> USE DEF agentVars
<1>1. ASSUME NEW e \in Dashboard, NEW v \in Workspace, NEW inTmux \in BOOLEAN, Attach(e, v, inTmux)
      PROVE  in_flight[d][w] # "Archive" /\ archive' = archive
  BY <1>0, <1>1 DEF Attach, attach_is_blocked, taskVars
<1>2. ASSUME NEW p \in Process, NEW v \in Workspace, NEW ok \in BOOLEAN,
             \/ NewWorkspace(p, v) \/ Insert(p, v) \/ InsertRefused(p, v) \/ Seed(p, v)
             \/ Fetch(p, v, ok) \/ create_worktree(p, v, ok) \/ MarkFailed(p, v) \/ MarkReady(p, v)
             \/ CheckCancelled(p, v) \/ MarkRunning(p, v)
             \/ \E result \in Ending : run_setup(p, v, result)
             \/ RecordSetup(p, v) \/ EndCreate(p, v) \/ reconcile_create_result(p, v)
      PROVE  tmux' = tmux
  BY <1>2 DEF NewWorkspace, Insert, InsertRefused, Seed, Fetch, Proceed, create_worktree,
       MarkFailed, MarkReady, CheckCancelled, MarkRunning, run_setup, RecordSetup, SetStatus,
       EndCreate, reconcile_create_result
<1>3. ASSUME NEW p \in Process, NEW v \in Workspace, NEW ok \in BOOLEAN,
             \/ run_archive(p, v, ok)
             \/ remove_worktree(p, v, ok) \/ DeleteChildren(p, v) \/ DeleteRow(p, v)
             \/ reconcile_archive_result(p, v) \/ StoreFails(p, v) \/ CliArchive(p, v)
      PROVE  tmux' = tmux
  BY <1>3 DEF run_archive, remove_worktree, DeleteChildren, DeleteRow,
       reconcile_archive_result, StoreFails, CliArchive
<1>4. ASSUME NEW e \in Dashboard, NEW v \in Workspace,
             OpenArchive(e, v) \/ confirm_archive(e, v) \/ CancelCreate(e, v)
      PROVE  tmux' = tmux
  BY <1>4 DEF OpenArchive, confirm_archive, CancelCreate
<1>5. ASSUME NEW e \in Dashboard,
             Poll(e) \/ CloseModal(e) \/ confirm_quit(e) \/ Exit(e) \/ Start(e)
      PROVE  tmux' = tmux
  BY <1>5 DEF Poll, CloseModal, confirm_quit, Exit, Dies, Start
<1>6. ASSUME NEW p \in Process, Crash(p)
      PROVE  tmux' = tmux
  BY <1>6 DEF Crash, Dies
<1>7. ASSUME NEW v \in Workspace, AddChild(v) \/ GrowOld(v)
      PROVE  tmux' = tmux
  BY <1>7 DEF AddChild, GrowOld
<1>8. ASSUME NEW p \in Process, NEW v \in Workspace,
             kill_tmux_sessions_for(p, v) \/ (p \in Dashboard /\ Detach(p, v))
      PROVE  tmux'[w] \subseteq tmux[w]
  BY <1>0, <1>8 DEF kill_tmux_sessions_for, Detach
<1> QED
  BY <1>1, <1>2, <1>3, <1>4, <1>5, <1>6, <1>7, <1>8 DEF Next, CreateStep, ArchiveStep, Process

LEMMA CancelMoves ==
  ASSUME TypeOK, Next, NEW w \in Workspace
  PROVE  /\ w \in cancelled => w \in cancelled'
         /\ w \notin cancelled /\ w \in cancelled' =>
              \E d \in Dashboard :
                /\ in_flight[d][w] = "Create" /\ up[d] /\ ~quit[d]
                /\ UNCHANGED <<state, create, maker, up>>
                /\ UNCHANGED quit \/ confirm_quit(d)
<1>1. ASSUME NEW p \in Process, NEW v \in Workspace, TaskStep(p, v)
      PROVE  cancelled' = cancelled
  BY <1>1 DEF TaskStep, NewWorkspace, InsertRefused, Insert, EndCreate, CliArchive,
       reconcile_create_result, confirm_archive, reconcile_archive_result, Working, Tearing
<1>2. ASSUME NEW p \in Process, Ends(p)
      PROVE  cancelled' = cancelled
  BY <1>2 DEF Ends, Dies
<1>3. ASSUME NEW d \in Dashboard, KeyStep(d)
      PROVE  /\ w \in cancelled => w \in cancelled'
             /\ w \notin cancelled /\ w \in cancelled' =>
                  /\ in_flight[d][w] = "Create" /\ up[d] /\ ~quit[d]
                  /\ UNCHANGED <<state, create, maker, up>>
                  /\ UNCHANGED quit \/ confirm_quit(d)
  <2>1. CASE confirm_quit(d)
    BY <2>1 DEF confirm_quit, Creating, TakesKeys, historyVars
  <2>2. CASE \E v \in Workspace : CancelCreate(d, v)
    BY <2>2 DEF CancelCreate, TakesKeys, dbVars, keyVars, historyVars
  <2>3. CASE CloseModal(d) \/ Start(d) \/ \E v \in Workspace : OpenArchive(d, v)
    BY <2>3 DEF CloseModal, Start, OpenArchive, taskVars
  <2> QED
    BY <1>3, <2>1, <2>2, <2>3 DEF KeyStep
<1> QED
  BY TaskSteps, <1>1, <1>2, <1>3 DEF Elsewhere

LEMMA CrossedMoves ==
  ASSUME TypeOK, Next, NEW w \in Workspace, w \in crossed
  PROVE  w \in crossed'
<1>1. ASSUME NEW p \in Process, NEW v \in Workspace, TaskStep(p, v)
      PROVE  w \in crossed'
  BY <1>1 DEF TaskStep, NewWorkspace, InsertRefused, Insert, EndCreate, CliArchive, Crossing,
       reconcile_create_result, confirm_archive, reconcile_archive_result, Working, Tearing,
       historyVars
<1>2. ASSUME NEW d \in Dashboard, KeyStep(d)
      PROVE  crossed' = crossed
  BY <1>2 DEF KeyStep, OpenArchive, CancelCreate, CloseModal, confirm_quit, Start, historyVars
<1> QED
  BY TaskSteps, <1>1, <1>2 DEF Elsewhere, Ends

\* Faults are counted for good.
LEMMA FaultMoves ==
  ASSUME TypeOK, Next, faults' = 0
  PROVE  faults = 0
<1>0. faults \in 0 .. MaxFault /\ MaxFault \in Nat
  BY LifecycleAssumption DEF TypeOK
<1> USE DEF historyVars
<1>1. ASSUME NEW p \in Process, NEW v \in Workspace, NEW ok \in BOOLEAN,
             \/ NewWorkspace(p, v) \/ Insert(p, v) \/ InsertRefused(p, v) \/ Seed(p, v)
             \/ Fetch(p, v, ok) \/ create_worktree(p, v, ok) \/ MarkFailed(p, v) \/ MarkReady(p, v)
             \/ CheckCancelled(p, v) \/ MarkRunning(p, v)
             \/ \E result \in Ending : run_setup(p, v, result)
             \/ RecordSetup(p, v) \/ EndCreate(p, v) \/ reconcile_create_result(p, v)
      PROVE  faults' = faults
  BY <1>1 DEF NewWorkspace, Insert, InsertRefused, Seed, Fetch, Proceed, create_worktree,
       MarkFailed, MarkReady, CheckCancelled, MarkRunning, run_setup, RecordSetup, SetStatus,
       EndCreate, reconcile_create_result
<1>2. ASSUME NEW p \in Process, NEW v \in Workspace, NEW ok \in BOOLEAN,
             \/ kill_tmux_sessions_for(p, v) \/ run_archive(p, v, ok)
             \/ remove_worktree(p, v, ok) \/ DeleteChildren(p, v) \/ DeleteRow(p, v)
             \/ reconcile_archive_result(p, v) \/ CliArchive(p, v)
      PROVE  faults' = faults
  BY <1>2 DEF kill_tmux_sessions_for, run_archive, remove_worktree, DeleteChildren, DeleteRow,
       reconcile_archive_result, CliArchive
<1>3. ASSUME NEW d \in Dashboard, NEW v \in Workspace,
             \/ OpenArchive(d, v) \/ confirm_archive(d, v) \/ CancelCreate(d, v) \/ Detach(d, v)
             \/ \E inTmux \in BOOLEAN : Attach(d, v, inTmux)
      PROVE  faults' = faults
  BY <1>3 DEF OpenArchive, confirm_archive, CancelCreate, Detach, Attach
<1>4. ASSUME NEW d \in Dashboard,
             Poll(d) \/ CloseModal(d) \/ confirm_quit(d) \/ Exit(d) \/ Start(d)
      PROVE  faults' = faults
  BY <1>4 DEF Poll, CloseModal, confirm_quit, Exit, Start
<1>5. ASSUME NEW v \in Workspace, AddChild(v) \/ GrowOld(v)
      PROVE  faults' = faults
  BY <1>5 DEF AddChild, GrowOld
<1>6. ASSUME NEW p \in Process, Crash(p) \/ \E v \in Workspace : StoreFails(p, v)
      PROVE  FALSE
  BY <1>0, <1>6 DEF Crash, StoreFails
<1> QED
  BY <1>1, <1>2, <1>3, <1>4, <1>5, <1>6 DEF Next, CreateStep, ArchiveStep, Process

-----------------------------------------------------------------------------
(* The tasks, their registry, their rows and their modals.                  *)

LEMMA MakersNext ==
  ASSUME TypeOK, Tasks, Next
  PROVE  Makers'
<1>0. /\ create \in [Process -> [Workspace -> CreatePhase]]
      /\ maker \in [Workspace -> SUBSET Process]
  BY DEF TypeOK
<1>1. ASSUME NEW p \in Process, NEW w \in Workspace, create'[p][w] # "none"
      PROVE  maker'[w] = {p}
  <2>1. CASE \E q \in Process : NewWorkspace(q, w)
    BY <1>0, <1>1, <2>1 DEF NewWorkspace
  <2>2. CASE ~\E q \in Process : NewWorkspace(q, w)
    <3>1. create[p][w] # "none"
      BY <1>1, <2>2, CreateMoves DEF InsertRefused, Insert, EndCreate, reconcile_create_result,
           Working, Registered, Ending
    <3>2. maker'[w] = maker[w]
      BY <2>2, MakerMoves
    <3> QED
      BY <3>1, <3>2 DEF Tasks, Makers
  <2> QED
    BY <2>1, <2>2
<1>2. ASSUME NEW w \in Workspace, NEW p \in maker'[w], NEW q \in maker'[w]
      PROVE  p = q
  <2>1. CASE maker'[w] = maker[w]
    BY <1>2, <2>1 DEF Tasks, Makers
  <2>2. CASE \E r \in Process : NewWorkspace(r, w)
    BY <1>0, <1>2, <2>2 DEF NewWorkspace
  <2> QED
    BY <2>1, <2>2, MakerMoves
<1> QED
  BY <1>1, <1>2 DEF Makers

\* A workspace has one create, so the row is written by that one.
LEMMA OneCreate ==
  ASSUME Makers, NEW p \in Process, NEW q \in Process, NEW w \in Workspace,
         create[p][w] # "none", create[q][w] # "none"
  PROVE  p = q
BY DEF Makers

LEMMA RowsNext ==
  ASSUME TypeOK, Tasks, Next
  PROVE  Rows'
<1>0. /\ create \in [Process -> [Workspace -> CreatePhase]]
      /\ state \in [Workspace -> {"none", "Pending", "Ready", "Failed", "Orphaned", "gone"}]
      /\ Makers /\ Rows /\ Modals
  BY DEF TypeOK, Tasks
\* A row, once there, stays or is gone.
<1>1. ASSUME NEW w \in Workspace, state[w] # "none"
      PROVE  state'[w] # "none"
  BY <1>0, <1>1, RowMoves DEF RowChange, Written, Swept
\* The row appears with the create that inserts it.
<1>2. ASSUME NEW w \in Workspace, state[w] = "none"
      PROVE  \/ state'[w] = "none" /\ setup'[w] = setup[w]
             \/ \E p \in Process : Insert(p, w) /\ state'[w] = "Pending"
  BY <1>0, <1>2, RowMoves DEF RowChange, Row
<1>3. ASSUME NEW p \in Process, NEW w \in Workspace, create'[p][w] = "insert"
      PROVE  state'[w] = "none"
  <2>1. CASE NewWorkspace(p, w)
    BY <2>1 DEF NewWorkspace, dbVars
  <2>2. CASE create[p][w] = "insert"
    <3>1. ASSUME NEW q \in Process, Insert(q, w)
          PROVE  FALSE
      <4>1. q = p
        BY <1>0, <2>2, <3>1, OneCreate DEF Insert
      <4> QED
        BY <1>0, <1>3, <3>1, <4>1 DEF Insert
    <3> QED
      BY <1>0, <1>2, <2>2, <3>1 DEF Rows
  <2> QED
    BY <1>0, <1>3, <2>1, <2>2, CreateMoves DEF InsertRefused, Insert, EndCreate,
       reconcile_create_result, Working, Registered, Ending
<1>4. ASSUME NEW p \in Process, NEW w \in Workspace, create'[p][w] \in Registered \cup {"seed"}
      PROVE  state'[w] # "none"
  <2>1. CASE Insert(p, w)
    BY <1>0, <2>1 DEF Insert
  <2>2. CASE create[p][w] \in Registered \cup {"seed"}
    BY <1>0, <1>1, <2>2 DEF Rows
  <2> QED
    BY <1>0, <1>4, <2>1, <2>2, CreateMoves DEF NewWorkspace, InsertRefused, EndCreate,
       reconcile_create_result, Working, Registered, Ending
<1>5. ASSUME NEW p \in Process, NEW w \in Workspace, create'[p][w] \in (Registered \cup {"seed"}) \ {"ended"}
      PROVE  state'[w] # "Failed"
  <2>1. CASE Insert(p, w)
    BY <1>0, <2>1 DEF Insert
  <2>2. CASE create[p][w] \in (Registered \cup {"seed"}) \ {"ended"} /\ ~Insert(p, w)
    <3>1. ASSUME NEW q \in Process, Written(q, w), state'[w] = "Failed"
          PROVE  FALSE
      <4>1. create[q][w] # "none"
        BY <3>1 DEF Written, Ending
      <4>2. q = p
        BY <1>0, <2>2, <4>1, OneCreate DEF Registered, Ending
      <4> QED
        BY <1>5, <3>1, <4>2, <2>2, <1>0 DEF Written, Rows, Registered, Ending
    <3>2. state[w] # "Failed"
      BY <1>0, <2>2 DEF Rows
    <3> QED
      BY <3>1, <3>2, RowMoves DEF RowChange, Swept
  <2> QED
    BY <1>0, <1>5, <2>1, <2>2, CreateMoves DEF NewWorkspace, InsertRefused, EndCreate,
       reconcile_create_result, Working, Registered, Ending
<1>6. ASSUME NEW p \in Process, NEW w \in Workspace, archive'[p][w] # "none"
      PROVE  state'[w] # "none"
  <2>1. state[w] # "none"
    BY <1>0, <1>6, ArchiveMoves DEF confirm_archive, CliArchive, Modals, Row, Tearing, Rows,
       reconcile_archive_result
  <2> QED
    BY <1>1, <2>1
<1>7. ASSUME NEW w \in Workspace, state'[w] = "none"
      PROVE  setup'[w] = "NotRun"
  BY <1>0, <1>1, <1>2, <1>7 DEF Rows
<1> QED
  BY <1>3, <1>4, <1>5, <1>6, <1>7 DEF Rows

LEMMA RegistryNext ==
  ASSUME TypeOK, Tasks, Next
  PROVE  Registry'
<1>1. SUFFICES ASSUME NEW d \in Dashboard, NEW w \in Workspace
               PROVE  /\ in_flight'[d][w] = "Create" <=> create'[d][w] \in Registered
                      /\ in_flight'[d][w] = "Archive" <=> archive'[d][w] # "none"
                      /\ create'[d][w] # "seed"
  BY DEF Registry
<1>0. /\ create \in [Process -> [Workspace -> CreatePhase]]
      /\ archive \in [Process -> [Workspace -> ArchivePhase]]
      /\ in_flight \in [Dashboard -> [Workspace -> {"none", "Create", "Archive"}]]
      /\ d \in Process
      /\ in_flight[d][w] = "Create" <=> create[d][w] \in Registered
      /\ in_flight[d][w] = "Archive" <=> archive[d][w] # "none"
      /\ create[d][w] # "seed"
      /\ create[d][w] = "insert" => archive[d][w] = "none"
      /\ \A p \in {"none", "insert", "seed", "reconcile"} : p \notin Registered
  BY ProcessIs DEF TypeOK, Tasks, Registry, Rows, Registered, Ending
<1>2. CASE Insert(d, w)
  BY <1>0, <1>2 DEF Insert, Registering, Registered
<1>3. CASE EndCreate(d, w)
  BY <1>0, <1>3 DEF EndCreate, Registering, Unregistered, Registered
<1>4. CASE confirm_archive(d, w)
  <2>1. in_flight[d][w] = "none"
    BY <1>4 DEF confirm_archive, Tasks, Modals
  <2> QED
    BY <1>0, <1>4, <2>1 DEF confirm_archive, Registering
<1>5. CASE reconcile_archive_result(d, w)
  BY <1>0, <1>5 DEF reconcile_archive_result, Registering
<1>6. CASE Ends(d)
  BY <1>0, <1>6 DEF Ends, Dies
<1>7. CASE Tearing(d, w)
  BY <1>0, <1>7 DEF Tearing
<1>8. CASE Working(d, w)
  <2>1. PICK next \in Registered : create' = [create EXCEPT ![d][w] = next]
    BY <1>8 DEF Working
  <2>2. create[d][w] \in Registered
    BY <1>0, <1>8 DEF Working
  <2>3. create'[d][w] \in Registered
    BY <1>0, <2>1
  <2>4. archive' = archive /\ in_flight' = in_flight
    BY <1>8 DEF Working
  <2> QED
    BY <1>0, <2>2, <2>3, <2>4
<1>9. CASE NewWorkspace(d, w) \/ InsertRefused(d, w) \/ reconcile_create_result(d, w)
  BY <1>0, <1>9 DEF NewWorkspace, InsertRefused, reconcile_create_result
<1>10. ASSUME ~Insert(d, w), ~EndCreate(d, w), ~confirm_archive(d, w), ~Ends(d),
              ~reconcile_archive_result(d, w), ~Tearing(d, w), ~Working(d, w),
              ~(NewWorkspace(d, w) \/ InsertRefused(d, w) \/ reconcile_create_result(d, w))
       PROVE  /\ create'[d][w] = create[d][w] /\ archive'[d][w] = archive[d][w]
              /\ in_flight'[d][w] = in_flight[d][w]
  BY <1>0, <1>10, CreateMoves, ArchiveMoves, FlightMoves, ProcessIs
<1> QED
  BY <1>0, <1>2, <1>3, <1>4, <1>5, <1>6, <1>7, <1>8, <1>9, <1>10

LEMMA ClisNext ==
  ASSUME TypeOK, Tasks, Next
  PROVE  Clis'
<1>1. SUFFICES ASSUME NEW c \in Cli, NEW w \in Workspace
               PROVE  create'[c][w] # "reconcile"
  BY DEF Clis
<1>0. /\ create \in [Process -> [Workspace -> CreatePhase]]
      /\ c \in Process /\ c \notin Dashboard /\ create[c][w] # "reconcile"
  BY ProcessIs DEF TypeOK, Process, Tasks, Clis
<1> QED
  BY <1>0, CreateMoves DEF NewWorkspace, InsertRefused, Insert, EndCreate,
     reconcile_create_result, Working, Registered, Ending

LEMMA DownNext ==
  ASSUME TypeOK, Tasks, Next
  PROVE  Down'
<1>1. SUFFICES ASSUME NEW d \in Dashboard, ~up'[d]
               PROVE  /\ ~quit'[d] /\ modal'[d] = {}
                      /\ \A w \in Workspace : create'[d][w] = "none" /\ archive'[d][w] = "none"
  BY DEF Down
<1>0. /\ create \in [Process -> [Workspace -> CreatePhase]]
      /\ archive \in [Process -> [Workspace -> ArchivePhase]]
      /\ up \in [Dashboard -> BOOLEAN] /\ quit \in [Dashboard -> BOOLEAN]
      /\ modal \in [Dashboard -> SUBSET Workspace]
      /\ d \in Process
  BY ProcessIs DEF TypeOK
<1>2. CASE Ends(d)
  BY <1>0, <1>2 DEF Ends, Dies
<1>3. CASE ~Ends(d)
  <2>1. ~up[d]
    BY <1>0, <1>1, <1>3, KeyMoves DEF Start
  <2>2. /\ ~quit[d] /\ modal[d] = {}
        /\ \A w \in Workspace : create[d][w] = "none" /\ archive[d][w] = "none"
    BY <2>1 DEF Tasks, Down
  <2>3. ~quit'[d] /\ modal'[d] = {}
    BY <1>3, <2>1, <2>2, KeyMoves DEF confirm_quit, OpenArchive, TakesKeys
  <2>4. ASSUME NEW w \in Workspace
        PROVE  create'[d][w] = "none" /\ archive'[d][w] = "none"
    <3>1. create'[d][w] = create[d][w]
      BY <1>0, <1>3, <2>1, <2>2, CreateMoves DEF NewWorkspace, TakesKeys, InsertRefused, Insert,
         EndCreate, reconcile_create_result, Working, Registered, Ending
    <3>2. archive'[d][w] = archive[d][w]
      BY <1>0, <1>3, <2>1, <2>2, ArchiveMoves, ProcessIs DEF confirm_archive, Tearing,
         reconcile_archive_result
    <3> QED
      BY <2>2, <3>1, <3>2
  <2> QED
    BY <2>3, <2>4
<1> QED
  BY <1>2, <1>3

LEMMA ModalsNext ==
  ASSUME TypeOK, Tasks, Next
  PROVE  Modals'
<1>1. SUFFICES ASSUME NEW d \in Dashboard, NEW w \in modal'[d]
               PROVE  in_flight'[d][w] = "none" /\ state'[w] # "none"
  BY DEF Modals
<1>0. /\ modal \in [Dashboard -> SUBSET Workspace] /\ d \in Process
      /\ in_flight \in [Dashboard -> [Workspace -> {"none", "Create", "Archive"}]]
  BY ProcessIs DEF TypeOK
<1>2. /\ w \in Workspace /\ in_flight[d][w] = "none" /\ state[w] # "none"
      /\ modal' # [modal EXCEPT ![d] = {}]
  <2>1. modal' # [modal EXCEPT ![d] = {}]
    BY <1>0, <1>1
  <2>2. CASE modal'[d] = modal[d]
    BY <1>0, <1>1, <2>1, <2>2 DEF Tasks, Modals
  <2>3. CASE \E v \in Workspace : OpenArchive(d, v) /\ modal'[d] = {v}
    BY <1>1, <2>1, <2>3 DEF OpenArchive, MayArchive, Row
  <2> QED
    BY <1>1, <2>2, <2>3, KeyMoves
<1>3. state'[w] # "none"
  BY <1>2, RowMoves DEF RowChange, Written, Swept, Row
<1>4. in_flight'[d][w] = "none"
  <2>1. ~Insert(d, w)
    BY <1>0, <1>2 DEF Insert, Tasks, Rows
  <2>2. ~confirm_archive(d, w)
    BY <1>2 DEF confirm_archive
  <2> QED
    BY <1>0, <1>2, <2>1, <2>2, FlightMoves DEF EndCreate, Unregistered, reconcile_archive_result,
       Registering
<1> QED
  BY <1>3, <1>4

LEMMA TasksNext ==
  ASSUME TypeOK, Tasks, Next
  PROVE  Tasks'
BY MakersNext, RowsNext, RegistryNext, ClisNext, DownNext, ModalsNext DEF Tasks

-----------------------------------------------------------------------------
(* The worktrees.                                                           *)

LEMMA WorktreesNext ==
  ASSUME TypeOK, Tasks, Worktrees, Next
  PROVE  Worktrees'
<1>1. SUFFICES ASSUME NEW p \in Process, NEW q \in Process, NEW w \in Workspace, w \notin crossed'
               PROVE  /\ archive'[p][w] # "none" => create'[q][w] \notin Making
                      /\ archive'[p][w] \in {"children", "row"} => w \notin disk'
                      /\ create'[q][w] \in Making => Row(w)'
  BY DEF Worktrees
<1>0. /\ create \in [Process -> [Workspace -> CreatePhase]]
      /\ archive \in [Process -> [Workspace -> ArchivePhase]]
      /\ state \in [Workspace -> {"none", "Pending", "Ready", "Failed", "Orphaned", "gone"}]
      /\ w \notin crossed
      /\ \A r, s \in Process :
           /\ archive[r][w] # "none" => create[s][w] \notin Making
           /\ archive[r][w] \in {"children", "row"} => w \notin disk
           /\ create[s][w] \in Making => Row(w)
      /\ \A r \in Process : archive[r][w] # "none" => state[w] # "none"
      /\ \A r \in Process : create[r][w] = "insert" => state[w] = "none"
  BY <1>1, CrossedMoves DEF TypeOK, Worktrees, Tasks, Rows
\* Where a create that makes the worktree comes from.
<1>2. ASSUME create'[q][w] \in Making
      PROVE  Insert(q, w) \/ create[q][w] \in Making
  BY <1>0, <1>2, CreateMoves DEF NewWorkspace, InsertRefused, EndCreate, Working,
     reconcile_create_result, Making
<1>3. ASSUME archive'[p][w] # "none", create'[q][w] \in Making
      PROVE  FALSE
  <2>1. CASE Insert(q, w)
    <3>1. archive' = archive /\ state[w] = "none"
      BY <1>0, <2>1 DEF Insert
    <3> QED
      BY <1>0, <1>3, <3>1
  <2>2. CASE create[q][w] \in Making /\ archive[p][w] # "none"
    BY <1>0, <2>2
  <2>3. CASE create[q][w] \in Making /\ p \in Cli /\ CliArchive(p, w)
    BY <1>1, <2>3 DEF CliArchive, Crossing, Idle, Making
  <2>4. CASE create[q][w] \in Making /\ p \in Dashboard /\ confirm_archive(p, w)
    <3>1. create[p][w] \notin Making
      BY <2>4, ProcessIs DEF confirm_archive, Tasks, Modals, Registry, Making, Registered
    <3> QED
      BY <1>1, <2>4, <3>1 DEF confirm_archive, Crossing, Making
  <2>5. CASE archive[p][w] = "none" /\ archive'[p][w] # archive[p][w]
    BY <1>2, <1>3, <2>1, <2>3, <2>4, <2>5, ArchiveMoves DEF reconcile_archive_result, Tearing
  <2> QED
    BY <1>2, <1>3, <2>1, <2>2, <2>5
<1>4. ASSUME archive'[p][w] \in {"children", "row"}
      PROVE  w \notin disk'
  <2>1. archive[p][w] # "none"
    BY <1>0, <1>4, ArchiveMoves DEF confirm_archive, CliArchive, reconcile_archive_result, Tearing
  <2>2. w \notin disk \/ w \notin disk'
    <3>1. CASE archive'[p][w] = archive[p][w]
      BY <1>0, <1>4, <3>1
    <3>2. CASE Tearing(p, w)
      <4>1. PICK next : /\ archive' = [archive EXCEPT ![p][w] = next]
                        /\ next \in {"children", "row"} =>
                             w \notin disk' \/ (archive[p][w] = "children" /\ disk' = disk)
        BY <3>2 DEF Tearing
      <4> QED
        BY <1>0, <1>4, <4>1
    <3> QED
      BY <1>0, <1>4, <3>1, <3>2, ArchiveMoves DEF confirm_archive, CliArchive,
         reconcile_archive_result
  <2> QED
    BY <1>0, <2>1, <2>2, DiskMoves DEF Making
<1>5. ASSUME create'[q][w] \in Making
      PROVE  Row(w)'
  <2>1. CASE Insert(q, w)
    BY <1>0, <2>1 DEF Insert, Row
  <2>2. CASE create[q][w] \in Making
    <3>1. ~\E r \in Process : DeleteRow(r, w)
      BY <1>0, <2>2 DEF DeleteRow
    <3> QED
      BY <1>0, <2>2, <3>1, RowMoves DEF RowChange, Written, Swept, Row
  <2> QED
    BY <1>2, <1>5, <2>1, <2>2
<1> QED
  BY <1>3, <1>4, <1>5

LEMMA NoStrayNext ==
  ASSUME TypeOK, Worktrees, NoStrayWorktree, Next
  PROVE  NoStrayWorktree'
<1>1. SUFFICES ASSUME NEW w \in disk', w \notin crossed'
               PROVE  Row(w)'
  BY DEF NoStrayWorktree
<1>2. w \in Workspace /\ w \notin crossed
  <2>1. disk' \subseteq Workspace
    BY TypeRestNext DEF TypeRest
  <2> QED
    BY <1>1, <2>1, CrossedMoves
<1>3. CASE w \notin disk
  <2>1. PICK p \in Process : create[p][w] = "add" /\ state' = state
    BY <1>1, <1>2, <1>3, DiskMoves
  <2> QED
    BY <1>2, <2>1 DEF Worktrees, Making, Row
<1>4. CASE w \in disk
  <2>1. Row(w)
    BY <1>2, <1>4 DEF NoStrayWorktree
  <2>2. ~\E p \in Process : DeleteRow(p, w)
    BY <1>2, <1>4 DEF DeleteRow, Worktrees
  <2> QED
    BY <1>2, <2>1, <2>2, RowMoves DEF RowChange, Written, Swept, Row
<1> QED
  BY <1>3, <1>4

LEMMA NoTmuxNext ==
  ASSUME TypeOK, Tasks, NoTmuxDuringTeardown, Next
  PROVE  NoTmuxDuringTeardown'
<1>1. SUFFICES ASSUME NEW d \in Dashboard, NEW w \in Workspace, archive'[d][w] \in Teardown
               PROVE  d \notin tmux'[w]
  BY DEF NoTmuxDuringTeardown
<1>0. archive \in [Process -> [Workspace -> ArchivePhase]] /\ d \in Process /\ d \notin Cli
  BY ProcessIs DEF TypeOK
<1>2. CASE archive[d][w] \in Teardown
  <2>1. d \notin tmux[w] /\ in_flight[d][w] = "Archive"
    BY <1>2 DEF NoTmuxDuringTeardown, Tasks, Registry, Teardown
  <2> QED
    BY <2>1, TmuxMoves
<1>3. CASE archive[d][w] \notin Teardown
  <2>1. Tearing(d, w)
    BY <1>0, <1>1, <1>3, ArchiveMoves DEF confirm_archive, reconcile_archive_result, Teardown
  <2>2. PICK next : /\ archive' = [archive EXCEPT ![d][w] = next]
                    /\ next \in Teardown => tmux'[w] = {}
    BY <1>3, <2>1 DEF Tearing
  <2> QED
    BY <1>0, <1>1, <2>2
<1> QED
  BY <1>2, <1>3

-----------------------------------------------------------------------------
(* The record of a create.                                                  *)

LEMMA StartingNext ==
  ASSUME TypeOK, Tasks, Starting, Next
  PROVE  Starting'
<1>1. SUFFICES ASSUME NEW p \in Process, NEW w \in Workspace, create'[p][w] \in Making, Row(w)'
               PROVE  /\ state'[w] = "Pending" \/ w \in old'
                      /\ setup'[w] = "NotRun" \/ w \in cancelled'
  BY DEF Starting
<1>0. /\ create \in [Process -> [Workspace -> CreatePhase]]
      /\ state \in [Workspace -> {"none", "Pending", "Ready", "Failed", "Orphaned", "gone"}]
      /\ Makers /\ Rows
  BY DEF TypeOK, Tasks
<1>2. Insert(p, w) \/ create[p][w] \in Making
  BY <1>0, <1>1, CreateMoves DEF NewWorkspace, InsertRefused, EndCreate, Working,
     reconcile_create_result, Making
<1>3. CASE Insert(p, w)
  BY <1>0, <1>3 DEF Insert, Rows
<1>4. CASE create[p][w] \in Making
  <2>1. ~\E q \in Process : Insert(q, w) \/ Written(q, w)
    <3>1. ASSUME NEW q \in Process, Insert(q, w) \/ Written(q, w)
          PROVE  FALSE
      <4>1. create[q][w] # "none"
        BY <3>1 DEF Insert, Written, Ending
      <4>2. q = p
        BY <1>0, <1>4, <4>1, OneCreate DEF Making
      <4> QED
        BY <1>4, <3>1, <4>2 DEF Insert, Written, Making, Ending
    <3> QED
      BY <3>1
  <2>2. Row(w)
    BY <1>1, <2>1, RowMoves DEF RowChange, Row
  <2>3. /\ state[w] = "Pending" \/ w \in old
        /\ setup[w] = "NotRun" \/ w \in cancelled
    BY <1>4, <2>2 DEF Starting
  <2>4. w \in cancelled => w \in cancelled'
    BY CancelMoves
  <2>5. CASE state'[w] = state[w] /\ setup'[w] = setup[w] /\ (w \in old => w \in old')
    BY <2>3, <2>4, <2>5
  <2>6. CASE /\ state'[w] = state[w] /\ old' = old
             /\ \E d \in Dashboard : confirm_quit(d) /\ w \in Creating(d)
    BY <2>3, <2>6 DEF confirm_quit
  <2>7. CASE Swept(w)
    BY <2>3, <2>4, <2>7 DEF Swept
  <2> QED
    BY <1>1, <2>1, <2>5, <2>6, <2>7, RowMoves DEF RowChange, Row
<1> QED
  BY <1>2, <1>3, <1>4

LEMMA CancelsNext ==
  ASSUME TypeOK, Tasks, Cancels, Next
  PROVE  Cancels'
<1>1. SUFFICES ASSUME NEW w \in cancelled'
               PROVE  state'[w] # "none" /\ maker'[w] \subseteq Dashboard
  BY DEF Cancels
<1>0. w \in Workspace
  <2>1. cancelled' \subseteq Workspace
    BY TypeTasksNext DEF TypeTasks
  <2> QED
    BY <1>1, <2>1
<1>2. CASE w \in cancelled
  <2>1. state[w] # "none" /\ maker[w] \subseteq Dashboard
    BY <1>2 DEF Cancels
  <2>2. state'[w] # "none"
    BY <1>0, <2>1, RowMoves DEF RowChange, Written, Swept
  <2>3. maker'[w] = maker[w]
    BY <1>0, <2>1, MakerMoves DEF NewWorkspace
  <2> QED
    BY <2>1, <2>2, <2>3
<1>3. CASE w \notin cancelled
  <2>1. PICK d \in Dashboard : in_flight[d][w] = "Create" /\ UNCHANGED <<state, create, maker>>
    BY <1>0, <1>1, <1>3, CancelMoves
  <2>2. d \in Process /\ create[d][w] \in Registered
    BY <1>0, <2>1, ProcessIs DEF Tasks, Registry
  <2> QED
    BY <1>0, <2>1, <2>2 DEF Tasks, Rows, Makers, Registered, Ending
<1> QED
  BY <1>2, <1>3

\* A row that is there after a step was there before, unless its create inserts it.
LEMMA RowBefore ==
  ASSUME TypeOK, Next, NEW w \in Workspace, Row(w)', ~\E p \in Process : Insert(p, w)
  PROVE  Row(w)
BY RowMoves DEF RowChange, Row

\* What is recorded is undone only by a create that goes on to its script, and
\* then the row says that it runs.
LEMMA SettledMoves ==
  ASSUME TypeOK, Tasks, Next, NEW w \in Workspace, Row(w), Row(w)'
  PROVE  /\ Settled(w) =>
              \/ Settled(w)'
              \/ setup'[w] = "Running" /\ \E p \in Process : create[p][w] = "run"
         /\ Settled(w) \/ setup[w] = "Running" => Settled(w)' \/ setup'[w] = "Running"
<1>0. /\ \A p \in Process : create[p][w] = "ready" => state[w] # "Failed"
      /\ ~\E p \in Process : Insert(p, w)
  BY DEF Tasks, Rows, Registered, Insert, Row
<1>1. ASSUME NEW p \in Process, Written(p, w)
      PROVE  /\ Settled(w) => Settled(w)' \/ (setup'[w] = "Running" /\ create[p][w] = "run")
             /\ setup[w] = "Running" => Settled(w)' \/ setup'[w] = "Running"
  BY <1>0, <1>1 DEF Written, Settled
<1>2. CASE Swept(w)
  BY <1>2 DEF Swept, Settled, Ending
<1>3. CASE state'[w] = state[w] /\ setup'[w] \in {setup[w], "Cancelled"}
  BY <1>3 DEF Settled, Ending
<1> QED
  BY <1>0, <1>1, <1>2, <1>3, RowMoves DEF RowChange, Row

LEMMA RecordsNext ==
  ASSUME TypeOK, Tasks, Cancels, Records, Next
  PROVE  Records'
<1>1. SUFFICES ASSUME faults' = 0, NEW w \in Workspace, Row(w)'
               PROVE  /\ \A p \in Process : create'[p][w] = "ended" => Settled(w)'
                      /\ w \in cancelled' => \A d \in maker'[w] \cap Dashboard :
                           /\ up'[d] /\ create'[d][w] \notin Registered => Settled(w)'
                           /\ ~up'[d] \/ quit'[d] => Settled(w)' \/ setup'[w] = "Running"
  BY DEF Records
<1>0. /\ create \in [Process -> [Workspace -> CreatePhase]]
      /\ up \in [Dashboard -> BOOLEAN] /\ quit \in [Dashboard -> BOOLEAN]
      /\ Makers /\ Rows /\ Registry
  BY DEF TypeOK, Tasks
<1>2. faults = 0
  BY <1>1, FaultMoves
<1>3. ASSUME NEW p \in Process, create'[p][w] = "ended"
      PROVE  Settled(w)'
  <2>1. CASE create[p][w] = "ended"
    <3>1. ~\E q \in Process : Insert(q, w) \/ create[q][w] = "run"
      BY <1>0, <2>1, OneCreate DEF Insert
    <3>2. Row(w)
      BY <1>1, <3>1, RowBefore
    <3>3. Settled(w)
      BY <1>2, <2>1, <3>2 DEF Records
    <3> QED
      BY <1>1, <3>1, <3>2, <3>3, SettledMoves
  <2>2. CASE Working(p, w)
    <3>1. PICK next : /\ create' = [create EXCEPT ![p][w] = next]
                      /\ next = "ended" => faults' # 0 \/ (Row(w)' => Settled(w)')
      BY <2>2 DEF Working
    <3> QED
      BY <1>0, <1>1, <1>3, <3>1
  <2> QED
    BY <1>0, <1>3, <2>1, <2>2, CreateMoves DEF NewWorkspace, InsertRefused, Insert, EndCreate,
       reconcile_create_result
<1>4. ASSUME w \in cancelled, NEW d \in maker'[w] \cap Dashboard
      PROVE  /\ up'[d] /\ create'[d][w] \notin Registered => Settled(w)'
             /\ ~up'[d] \/ quit'[d] => Settled(w)' \/ setup'[w] = "Running"
  <2>1. Row(w) /\ d \in maker[w] /\ d \in Dashboard /\ d \in Process
    <3>1. state[w] # "none"
      BY <1>4 DEF Cancels
    <3>2. maker'[w] = maker[w]
      BY <3>1, MakerMoves DEF NewWorkspace
    <3>3. ~\E p \in Process : Insert(p, w)
      BY <1>0, <3>1 DEF Insert, Rows
    <3> QED
      BY <1>1, <1>4, <3>2, <3>3, RowBefore, ProcessIs
  <2>2. /\ up[d] /\ create[d][w] \notin Registered => Settled(w)
        /\ ~up[d] \/ quit[d] => Settled(w) \/ setup[w] = "Running"
        /\ create[d][w] = "ended" => Settled(w)
    BY <1>2, <1>4, <2>1 DEF Records
  <2>3. \A p \in Process : create[p][w] # "none" => p = d
    BY <1>0, <2>1 DEF Makers
  <2>4. ASSUME up'[d], create'[d][w] \notin Registered
        PROVE  Settled(w)'
    <3>1. CASE ~up[d]
      <4>1. Start(d)
        BY <2>1, <2>4, <3>1, KeyMoves
      <4>2. /\ state'[w] = IF sweep_stale_pending(w) THEN "Orphaned" ELSE state[w]
            /\ setup'[w] = IF sweep_stale_running(w) THEN "Cancelled" ELSE setup[w]
        BY <4>1 DEF Start
      <4> QED
        BY <2>1, <2>2, <3>1, <4>2 DEF sweep_stale_pending, sweep_stale_running, Settled, Ending
    <3>2. CASE up[d] /\ (create[d][w] \notin Registered \/ create[d][w] = "ended")
      <4>1. Settled(w) /\ ~\E p \in Process : create[p][w] = "run"
        BY <2>2, <2>3, <3>2 DEF Registered
      <4> QED
        BY <1>1, <2>1, <4>1, SettledMoves
    <3>3. CASE up[d] /\ create[d][w] \in Registered \ {"ended"}
      <4>1. ~Working(d, w)
        <5>1. ASSUME NEW next \in Registered, create' = [create EXCEPT ![d][w] = next]
              PROVE  FALSE
          BY <1>0, <2>1, <2>4, <5>1
        <5> QED
          BY <5>1 DEF Working
      <4>2. ~Ends(d)
        BY <1>0, <2>1, <2>4 DEF Ends, Dies
      <4> QED
        BY <2>1, <2>4, <3>3, <4>1, <4>2, CreateMoves DEF NewWorkspace, InsertRefused, Insert,
           EndCreate, reconcile_create_result, Registered, Ending
    <3> QED
      BY <1>0, <2>1, <3>1, <3>2, <3>3
  <2>5. ASSUME ~up'[d] \/ quit'[d]
        PROVE  Settled(w)' \/ setup'[w] = "Running"
    <3>1. CASE Settled(w) \/ setup[w] = "Running"
      BY <1>1, <2>1, <3>1, SettledMoves
    <3>2. CASE up[d] /\ ~quit[d] /\ create[d][w] \in Registered
      <4>1. ~Ends(d)
        BY <1>1, <3>2 DEF Ends
      <4>2. confirm_quit(d)
        BY <1>0, <2>1, <2>5, <3>2, <4>1, KeyMoves DEF Start
      <4>3. w \in Creating(d)
        BY <1>0, <2>1, <3>2 DEF Creating, Registry
      <4> QED
        BY <2>1, <4>2, <4>3 DEF confirm_quit, QuitStatus, Settled, Ending
    <3> QED
      BY <1>0, <2>1, <2>2, <3>1, <3>2
  <2> QED
    BY <2>4, <2>5
<1>5. ASSUME w \notin cancelled, w \in cancelled', NEW d \in maker'[w] \cap Dashboard
      PROVE  /\ up'[d] /\ create'[d][w] \notin Registered => Settled(w)'
             /\ ~up'[d] \/ quit'[d] => Settled(w)' \/ setup'[w] = "Running"
  <2>1. PICK e \in Dashboard :
          /\ in_flight[e][w] = "Create" /\ up[e] /\ ~quit[e]
          /\ UNCHANGED <<state, create, maker, up>>
          /\ UNCHANGED quit \/ confirm_quit(e)
    BY <1>5, CancelMoves
  <2>2. e \in Process /\ create[e][w] \in Registered
    BY <1>0, <2>1, ProcessIs DEF Registry
  <2>3. d = e
    BY <1>0, <1>5, <2>1, <2>2 DEF Makers, Registered, Ending
  <2>4. CASE confirm_quit(e)
    BY <1>1, <2>1, <2>2, <2>3, <2>4 DEF confirm_quit, QuitStatus, Creating, Row, Settled, Ending
  <2> QED
    BY <2>1, <2>2, <2>3, <2>4
<1> QED
  BY <1>3, <1>4, <1>5

-----------------------------------------------------------------------------
(* The invariant, and the theorems.                                         *)

LEMMA Initially ==
  ASSUME Init
  PROVE  IInv
<1>1. TypeRows
  BY DEF Init, TypeRows
<1>2. TypeTasks
  BY DEF Init, TypeTasks, CreatePhase, ArchivePhase
<1>3. TypeRest
  BY LifecycleAssumption DEF Init, TypeRest
<1>4. Tasks
  <2>1. \A d \in Dashboard : d \in Process
    BY ProcessIs
  <2>2. \A c \in Cli : c \in Process
    BY DEF Process
  <2> QED
    BY <2>1, <2>2 DEF Init, Tasks, Makers, Rows, Registry, Clis, Down, Modals, Registered, Ending
<1>5. Worktrees /\ NoStrayWorktree
  BY DEF Init, Worktrees, NoStrayWorktree, Making
<1>6. NoTmuxDuringTeardown
  BY DEF Init, NoTmuxDuringTeardown
<1>7. Starting /\ Cancels
  BY DEF Init, Starting, Cancels, Making
<1>8. Records
  BY DEF Init, Records, Row
<1> QED
  BY <1>1, <1>2, <1>3, <1>4, <1>5, <1>6, <1>7, <1>8, TypeParts DEF IInv

LEMMA NextIInv ==
  ASSUME IInv, [Next]_vars
  PROVE  IInv'
<1>1. CASE Next
  <2>1. TypeOK'
    BY <1>1, TypeRowsNext, TypeTasksNext, TypeRestNext DEF IInv, TypeOK, TypeRows, TypeTasks, TypeRest
  <2>2. Tasks' /\ Worktrees'
    BY <1>1, TasksNext, WorktreesNext DEF IInv
  <2>3. NoStrayWorktree' /\ NoTmuxDuringTeardown'
    BY <1>1, NoStrayNext, NoTmuxNext DEF IInv
  <2>4. Starting' /\ Cancels' /\ Records'
    BY <1>1, StartingNext, CancelsNext, RecordsNext DEF IInv
  <2> QED
    BY <2>1, <2>2, <2>3, <2>4 DEF IInv
<1>2. CASE UNCHANGED vars
  <2> USE <1>2 DEF vars, dbVars, taskVars, keyVars, agentVars, historyVars
  <2>1. TypeOK'
    BY DEF IInv, TypeOK
  <2>2. Tasks'
    BY DEF IInv, Tasks, Makers, Rows, Registry, Clis, Down, Modals
  <2>3. Worktrees' /\ NoStrayWorktree' /\ NoTmuxDuringTeardown'
    BY DEF IInv, Worktrees, NoStrayWorktree, NoTmuxDuringTeardown, Row
  <2>4. Starting' /\ Cancels' /\ Records'
    BY DEF IInv, Starting, Cancels, Records, Row, Settled
  <2> QED
    BY <2>1, <2>2, <2>3, <2>4 DEF IInv
<1> QED
  BY <1>1, <1>2

THEOREM Invariance == Spec => []IInv
<1>1. Init => IInv
  BY Initially
<1>2. IInv /\ [Next]_vars => IInv'
  BY NextIInv
<1> QED
  BY <1>1, <1>2, PTL DEF Spec

\* The rows, the tasks, the registries and the sessions have their types.
THEOREM LifecycleTypeCorrect == Spec => []TypeOK
<1>1. IInv => TypeOK
  BY DEF IInv
<1> QED
  BY <1>1, Invariance, PTL

\* However many dashboards and CLI processes make and archive workspaces, and
\* whatever fails or dies half-way, there is a row for every worktree on disk, so
\* something to archive it by; a crossed archive is the one exception.
THEOREM WorktreesHaveRows == Spec => []NoStrayWorktree
<1>1. IInv => NoStrayWorktree
  BY DEF IInv
<1> QED
  BY <1>1, Invariance, PTL

\* The registry alone (attach_is_blocked, the modal) keeps a dashboard from
\* running an agent in tmux in the worktree that it tears down.
THEOREM TeardownIsAlone == Spec => []NoTmuxDuringTeardown
<1>1. IInv => NoTmuxDuringTeardown
  BY DEF IInv
<1> QED
  BY <1>1, Invariance, PTL

\* A create that is on its way to its worktree is seen to be: in its dashboard by
\* the registry, in every other by the row, which stays Pending and is not
\* cancelled as long as the five minutes last.
THEOREM LiveCreatesAreKept == Spec => []CreateNotGivenUp
<1>1. ASSUME IInv
      PROVE  CreateNotGivenUp
  <2>1. SUFFICES ASSUME NEW d \in Dashboard, NEW w \in Workspace, NEW p \in Process,
                        Row(w), w \notin cancelled, create[p][w] \in Making,
                        p = d \/ w \notin old
                 PROVE  create_in_progress(d, w)
    BY DEF CreateNotGivenUp, Making
  <2>2. CASE p = d
    <3>1. create[d][w] \in Registered
      BY <1>1, <2>1, <2>2 DEF IInv, Tasks, Registry, Making, Registered
    <3> QED
      BY <1>1, <3>1 DEF IInv, Tasks, Registry, create_in_progress
  <2>3. CASE w \notin old
    BY <1>1, <2>1, <2>3 DEF IInv, Starting, create_in_progress
  <2> QED
    BY <2>1, <2>2, <2>3
<1> QED
  BY <1>1, Invariance, PTL

\* As long as no process dies and no write fails, every create leaves a row that
\* says how it ended, cancelled and abandoned ones included: what confirm_quit
\* settles for the tasks that die with the dashboard and what the next start
\* sweeps leave no row that stays unfinished.
THEOREM CreatesAreSettled == Spec => []CreatesSettle
<1>1. ASSUME IInv
      PROVE  CreatesSettle
  <2>1. SUFFICES ASSUME NEW w \in Workspace, faults = 0, Row(w),
                        \/ \E p \in Process : create[p][w] = "ended"
                        \/ /\ w \in cancelled
                           /\ \A p \in Process : create[p][w] = "none"
                           /\ \E d \in maker[w] \cap Dashboard : up[d]
                 PROVE  Settled(w)
    BY DEF CreatesSettle
  <2>2. CASE \E p \in Process : create[p][w] = "ended"
    BY <1>1, <2>1, <2>2 DEF IInv, Records
  <2>3. CASE /\ w \in cancelled
             /\ \A p \in Process : create[p][w] = "none"
             /\ \E d \in maker[w] \cap Dashboard : up[d]
    BY <1>1, <2>1, <2>3, ProcessIs DEF IInv, Records, Registered, Ending
  <2> QED
    BY <2>1, <2>2, <2>3
<1> QED
  BY <1>1, Invariance, PTL
=============================================================================
