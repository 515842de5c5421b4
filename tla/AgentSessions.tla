---------------------------- MODULE AgentSessions ----------------------------
(***************************************************************************)
(* Which agent a session belongs to.  An agent instance of a shared        *)
(* workspace runs in a tmux session of the server, and outlives the        *)
(* dashboard; one of a direct workspace is a child process and dies with   *)
(* it.  The row of an instance stores the name of its tmux session         *)
(* (session_ref).  A name is derived only when none is stored, and         *)
(* `tmux new-session -A` attaches to whatever session already has it.      *)
(*                                                                         *)
(* One dashboard, which may stop and start at any point, beside CLI        *)
(* processes that add and remove rows, rename, and flip the shared flag.   *)
(* A share, an unshare and a forced share visit the instances one by one   *)
(* under the App lock, while the other processes go on.                    *)
(***************************************************************************)
EXTENDS Naturals, FiniteSets

CONSTANTS
  Workspace,   \* workspaces; also the identities of their primary agents
  Peer,        \* the identities of added agents, of one kind
  Slug,        \* what "<repo>-<workspace>" sanitizes to; two may coincide
  None,        \* no session, no name, no agent
  MaxOrdinal,  \* bound: the highest ordinal handed out
  MaxEvent     \* bound: renames, and instances and workspaces lost or unsettled

Instance == Workspace \cup Peer

\* A session name: of the primary (ordinal 0) or of a peer, with the
\* workspace's id appended (for) when it had to be told from another's.
Name == [slug : Slug, ordinal : 0 .. MaxOrdinal, for : Workspace \cup {None}]

\* What the SessionManager has of an instance: the tmux session its client is
\* attached to (None for a direct child), and whether the child runs.
Entry == [tmux : Name \cup {None}, running : BOOLEAN]

\* A session of the tmux server, and the instance whose agent it runs.
Session == [name : Name, agent : Instance]

ASSUME SessionsAssumption ==
  /\ Workspace \cap Peer = {}
  /\ None \notin Instance \cup Name \cup Entry
  /\ MaxOrdinal \in Nat \ {0}
  /\ MaxEvent \in Nat

VARIABLES
  \* the database
  row,          \* whether an instance's row is there
  ws,           \* the workspace of each instance
  ordinal,      \* its ordinal
  session_ref,  \* the tmux session name stored in its row
  shared,       \* the workspaces flagged shared
  slug,         \* the slug of each workspace's current name
  \* the tmux server
  tmux,         \* its sessions
  \* the dashboard
  entry,        \* SessionManager::sessions
  seen,         \* App::workspaces: slugs and flags as of the last refresh
  job,          \* the share or unshare it is carrying out
  \* history
  lost,         \* the instances whose session_ref could not be stored or cleared
  unsettled,    \* the workspaces whose flag changed without their sessions
  renames       \* how many renames there were

dbVars == <<row, ws, ordinal, shared, slug>>
historyVars == <<lost, unsettled, renames>>
vars == <<dbVars, session_ref, tmux, entry, seen, job, historyVars>>

\* all: the instances read when the job began; todo: those still to visit;
\* running: those that ran.
Job == [kind : {"idle", "share", "unshare", "force"}, ws : Workspace \cup {None},
        all : SUBSET Instance, todo : SUBSET Instance, running : SUBSET Instance]
Idle == [kind |-> "idle", ws |-> None, all |-> {}, todo |-> {}, running |-> {}]

\* The bounded events so far; whether one more may happen.
Events == Cardinality(unsettled) + Cardinality(lost) + renames
MayUnsettle(w) == w \in unsettled \/ Events < MaxEvent

Live == {i \in Instance : row[i] = "live"}
Of(w) == {i \in Live : ws[i] = w}
Runs(i) == entry[i] # None /\ entry[i].running
InTmux(i) == entry[i] # None /\ entry[i].tmux # None

Alive(n, sessions) == \E t \in sessions : t.name = n

TypeOK ==
  /\ row \in [Instance -> {"absent", "live", "gone"}]
  /\ ws \in [Instance -> Workspace \cup {None}]
  /\ ordinal \in [Instance -> 0 .. MaxOrdinal]
  /\ session_ref \in [Instance -> Name \cup {None}]
  /\ shared \subseteq Workspace
  /\ slug \in [Workspace -> Slug]
  /\ tmux \subseteq Session
  /\ entry \in [Instance -> Entry \cup {None}]
  /\ \A i \in Instance : Runs(i) /\ InTmux(i) => Alive(entry[i].tmux, tmux)
  /\ seen \in [slug : [Workspace -> Slug], shared : SUBSET Workspace]
  /\ job \in Job
  /\ lost \subseteq Instance
  /\ unsettled \subseteq Workspace
  /\ renames \in Nat

\* Workspaces with their primary agents, whose rows come with them; nothing
\* was started yet.
Init ==
  /\ row = [i \in Instance |-> IF i \in Workspace THEN "live" ELSE "absent"]
  /\ ws = [i \in Instance |-> IF i \in Workspace THEN i ELSE None]
  /\ ordinal = [i \in Instance |-> IF i \in Workspace THEN 1 ELSE 0]
  /\ session_ref = [i \in Instance |-> None]
  /\ shared = {}
  /\ slug \in [Workspace -> Slug]
  /\ tmux = {}
  /\ entry = [i \in Instance |-> None]
  /\ seen = [slug |-> slug, shared |-> {}]
  /\ job = Idle
  /\ lost = {} /\ unsettled = {} /\ renames = 0

-----------------------------------------------------------------------------
(* The SessionManager and the tmux server.                                 *)

\* A bug: a client's exit goes unnoticed.
Clients_Unseen(entries, sessions) == entries

\* A client whose tmux session ended exits; its entry stays.
Clients(entries, sessions) ==
  [i \in Instance |->
     IF entries[i] # None /\ entries[i].tmux # None /\ ~Alive(entries[i].tmux, sessions)
     THEN [entries[i] EXCEPT !.running = FALSE] ELSE entries[i]]

\* SessionManager::remove of the instances in K (kill_backend): their direct
\* children die, and so do the tmux sessions their entries name.
Killed(K, sessions) ==
  {t \in sessions : \A i \in K : entry[i] = None \/ entry[i].tmux # t.name}
Without(K) == [i \in Instance |-> IF i \in K THEN None ELSE entry[i]]

\* Bugs: no check at all, or one among the agents of the workspace only.
session_ref_in_use_Never(n, i) == FALSE
session_ref_in_use_Siblings(n, i) ==
  \E j \in Live \ {i} : session_ref[j] = n /\ ws[j] = ws[i]

\* Whether another instance's row already stores the name.
session_ref_in_use(n, i) == \E j \in Live \ {i} : session_ref[j] = n

\* session_name, from what the dashboard knows of the workspace w.
Derived(i, w, o) ==
  [slug |-> seen.slug[w], ordinal |-> IF i \in Workspace THEN 0 ELSE o, for |-> None]

\* A bug: a stored name is not looked at, so that the name follows the workspace's.
tmux_name_for_Derived(i, w, o) == Derived(i, w, o)

\* The session of instance i of a shared workspace: the name stored for it,
\* else a derived one, with the workspace's id when that one is taken.
tmux_name_for(i, w, o) ==
  IF session_ref[i] # None THEN session_ref[i]
  ELSE IF session_ref_in_use(Derived(i, w, o), i)
       THEN [Derived(i, w, o) EXCEPT !.for = w] ELSE Derived(i, w, o)

\* The spawn of instance i of workspace w, with the given entries and tmux
\* sessions left to it: a direct child, or a client of the tmux session of
\* that name, which starts the agent only if there is no such session.  Then
\* the name is stored, or the write fails (and is only logged).  A refresh that
\* follows ends the sessions of the instances in dead.
Spawn(i, w, o, entries, sessions, dead, stored) ==
  LET n == tmux_name_for(i, w, o)
      in == w \in seen.shared
      started == IF in /\ ~Alive(n, sessions)
                 THEN sessions \cup {[name |-> n, agent |-> i]} ELSE sessions
  IN /\ stored \/ i \in lost \/ Events < MaxEvent
     /\ tmux' = Killed(dead, started)
     /\ session_ref' = IF in /\ stored THEN [session_ref EXCEPT ![i] = n] ELSE session_ref
     /\ lost' = IF in /\ ~stored /\ session_ref[i] # n THEN lost \cup {i} ELSE lost
     /\ entry' = Clients([entries EXCEPT ![i] =
          [tmux |-> IF in THEN n ELSE None, running |-> TRUE]], tmux')

\* Nothing is started: the agent's binary or its worktree is missing, an
\* archive is in flight, or the row is gone.
NotStarted(entries, sessions) ==
  /\ tmux' = sessions
  /\ entry' = Clients(entries, sessions)
  /\ UNCHANGED <<session_ref, lost>>

\* App::refresh: the cached rows, and the sessions whose row is gone.
Stale == {i \in Instance \ Live : entry[i] # None}
Rows(slugs, flags) == [slug |-> slugs, shared |-> flags]

-----------------------------------------------------------------------------
(* Other processes.                                                        *)

\* MAX(ordinal) + 1 among the agents of the workspace, of the primary's kind.
NextOrdinal(w, o) ==
  /\ \A i \in Of(w) : ordinal[i] < o
  /\ \E i \in Of(w) : ordinal[i] + 1 = o

\* add_workspace_agent: ids are never handed out twice, ordinals are.
AddRow(i, w, o) ==
  /\ i \in Peer /\ row[i] = "absent"
  /\ NextOrdinal(w, o)
  /\ row' = [row EXCEPT ![i] = "live"]
  /\ ws' = [ws EXCEPT ![i] = w]
  /\ ordinal' = [ordinal EXCEPT ![i] = o]

\* `wsx agent add`: the row only; a dashboard starts the agent on demand.
AddByCli(i, w, o) ==
  /\ AddRow(i, w, o)
  /\ UNCHANGED <<session_ref, shared, slug, tmux, entry, seen, job, historyVars>>

\* `wsx agent remove`: the row only.
RemoveByCli(i) ==
  /\ i \in Live \ Workspace
  /\ row' = [row EXCEPT ![i] = "gone"]
  /\ UNCHANGED <<ws, ordinal, session_ref, shared, slug, tmux, entry, seen, job, historyVars>>

\* `wsx workspace share` and `unshare`, without --restart: the flag only.
SetSharedByCli(w) ==
  /\ MayUnsettle(w)
  /\ shared' = IF w \in shared THEN shared \ {w} ELSE shared \cup {w}
  /\ unsettled' = unsettled \cup {w}
  /\ UNCHANGED <<row, ws, ordinal, slug, session_ref, tmux, entry, seen, job, lost, renames>>

\* rename_workspace, by the agent's branch, the user or the CLI.
Rename(w, s) ==
  /\ s # slug[w] /\ Events < MaxEvent
  /\ slug' = [slug EXCEPT ![w] = s]
  /\ renames' = renames + 1
  /\ UNCHANGED <<row, ws, ordinal, shared, session_ref, tmux, entry, seen, job, lost, unsettled>>

\* An agent ends by itself: a direct child, ...
ChildExits(i) ==
  /\ Runs(i) /\ ~InTmux(i)
  /\ entry' = [entry EXCEPT ![i].running = FALSE]
  /\ UNCHANGED <<dbVars, session_ref, tmux, seen, job, historyVars>>

\* ... one in tmux, and its session with it, ...
SessionEnds(t) ==
  /\ t \in tmux
  /\ tmux' = tmux \ {t}
  /\ entry' = Clients(entry, tmux')
  /\ UNCHANGED <<dbVars, session_ref, seen, job, historyVars>>

\* ... or only the client, detached from a session that lives on.
ClientExits(i) ==
  /\ Runs(i) /\ InTmux(i)
  /\ entry' = [entry EXCEPT ![i].running = FALSE]
  /\ UNCHANGED <<dbVars, session_ref, tmux, seen, job, historyVars>>

-----------------------------------------------------------------------------
(* The dashboard.                                                          *)

\* It quits or dies, and is started again: children die, tmux lives on.
Restart ==
  /\ job.kind = "unshare" => MayUnsettle(job.ws)
  /\ entry' = [i \in Instance |-> None]
  /\ seen' = Rows(slug, shared)
  /\ job' = Idle
  /\ unsettled' = IF job.kind = "unshare" THEN unsettled \cup {job.ws} ELSE unsettled
  /\ UNCHANGED <<dbVars, session_ref, tmux, lost, renames>>

Free == job.kind = "idle"

\* poll_external_changes, and every other refresh.
Poll ==
  /\ Free
  /\ seen' = Rows(slug, shared)
  /\ tmux' = Killed(Stale, tmux)
  /\ entry' = Clients(Without(Stale), tmux')
  /\ UNCHANGED <<dbVars, session_ref, job, historyVars>>

\* ensure_instance_session, ensure_primary_session: an entry, even of a child
\* that exited, makes it a no-op.
Ensure(i, stored) ==
  /\ Free /\ i \in Live /\ entry[i] = None
  /\ Spawn(i, ws[i], ordinal[i], entry, tmux, {}, stored)
  /\ UNCHANGED <<dbVars, seen, job, unsettled, renames>>

\* The agents panel adds the row, starts the agent and refreshes (an agent that
\* does not start loses its row again).
AddByPanel(i, w, o, stored) ==
  /\ Free
  /\ AddRow(i, w, o)
  /\ Spawn(i, w, o, Without(Stale), tmux, Stale, stored)
  /\ seen' = Rows(slug, shared)
  /\ UNCHANGED <<shared, slug, job, unsettled, renames>>

\* 'x' in the agents panel, on the agent added last: its session, its row, and
\* a refresh.
RemoveByPanel(i) ==
  LET dead == Stale \cup {i}
  IN /\ Free
     /\ i \in Live \ Workspace
     /\ \A j \in Of(ws[i]) : ordinal[j] <= ordinal[i]
     /\ row' = [row EXCEPT ![i] = "gone"]
     /\ seen' = Rows(slug, shared)
     /\ tmux' = Killed(dead, tmux)
     /\ entry' = Clients(Without(dead), tmux')
     /\ UNCHANGED <<ws, ordinal, session_ref, shared, slug, job, historyVars>>

\* The flag is stored and the rows are read again.
Flag(w, flags) ==
  /\ shared' = flags
  /\ seen' = Rows(slug, flags)
  /\ tmux' = Killed(Stale, tmux)
  /\ entry' = Clients(Without(Stale), tmux')
  /\ UNCHANGED <<row, ws, ordinal, slug, session_ref, historyVars>>

\* toggle_workspace_shared, 'T', from what the dashboard knows of the flag.
BeginShare(w) ==
  /\ Free /\ w \notin seen.shared
  /\ Flag(w, shared \cup {w})
  /\ job' = [kind |-> "share", ws |-> w, all |-> Of(w), todo |-> Of(w), running |-> {}]

BeginUnshare(w) ==
  LET running == {i \in Of(w) : Runs(i)}
  IN /\ Free /\ w \in seen.shared
     /\ Flag(w, shared \ {w})
     /\ job' = [kind |-> "unshare", ws |-> w, all |-> Of(w), todo |-> running,
                running |-> running]

\* force_share_workspace, for `wsx workspace share --restart`.
BeginForce(w) ==
  /\ Free
  /\ IF w \in seen.shared
     THEN UNCHANGED <<dbVars, session_ref, tmux, entry, seen, historyVars>>
     ELSE Flag(w, shared \cup {w})
  /\ job' = [kind |-> "force", ws |-> w, all |-> Of(w), todo |-> Of(w), running |-> {}]

\* The primary agent first, then the peers in the order they were added.
First(i) == i \in job.todo /\ \A j \in job.todo : ordinal[i] <= ordinal[j]
Visited(i) == IF job.todo = {i} /\ job.kind # "unshare" THEN Idle
              ELSE [job EXCEPT !.todo = @ \ {i}]

\* An instance is started in place, or is not.
Respawn(i, entries, sessions) ==
  \/ /\ i \in Live
     /\ \E stored \in BOOLEAN : Spawn(i, job.ws, ordinal[i], entries, sessions, {}, stored)
  \/ NotStarted(entries, sessions)

\* One instance of a share or an unshare: what runs of it is killed, and it is
\* started anew.
Restarted(i) ==
  /\ job.kind \in {"share", "unshare"} /\ First(i)
  /\ Respawn(i, Without({i}), Killed({i}, tmux))
  /\ job' = Visited(i)
  /\ UNCHANGED <<dbVars, seen, unsettled, renames>>

\* An unshare gives up at the first instance whose restart is an error.
UnshareFails(i) ==
  /\ job.kind = "unshare" /\ First(i)
  /\ MayUnsettle(job.ws)
  /\ NotStarted(Without({i}), Killed({i}, tmux))
  /\ job' = Idle
  /\ unsettled' = unsettled \cup {job.ws}
  /\ UNCHANGED <<dbVars, seen, renames>>

\* A bug: an unshare does not look for agents left running in tmux.
Detached_None == {}

\* The instances whose tmux session an unshare has not ended yet.
Detached == job.all \ job.running

\* The end of an unshare: the sessions of the agents that did not run here are
\* killed, and no name is kept, save one that could not be cleared (which is
\* only logged).
EndUnshare(kept) ==
  /\ job.kind = "unshare" /\ job.todo = {}
  /\ kept \subseteq job.all
  /\ kept \subseteq lost \/ Events < MaxEvent
  /\ tmux' = {t \in tmux : \A i \in Detached : session_ref[i] # t.name}
  /\ session_ref' = [i \in Instance |->
                       IF i \in job.all \ kept THEN None ELSE session_ref[i]]
  /\ entry' = Clients(entry, tmux')
  /\ job' = Idle
  /\ lost' = lost \cup kept
  /\ UNCHANGED <<dbVars, seen, unsettled, renames>>

\* One instance of a forced share: one that runs in tmux is left alone, one
\* that runs directly is killed, and an entry that exited is forgotten.
Forced(i) ==
  /\ job.kind = "force" /\ First(i)
  /\ IF Runs(i) /\ InTmux(i)
     THEN UNCHANGED <<session_ref, tmux, entry, lost>>
     ELSE Respawn(i, Without({i}), IF Runs(i) THEN Killed({i}, tmux) ELSE tmux)
  /\ job' = Visited(i)
  /\ UNCHANGED <<dbVars, seen, unsettled, renames>>

Next ==
  \/ \E i \in Peer, w \in Workspace, o \in 2 .. MaxOrdinal :
       AddByCli(i, w, o) \/ \E stored \in BOOLEAN : AddByPanel(i, w, o, stored)
  \/ \E i \in Instance :
       \/ RemoveByCli(i) \/ RemoveByPanel(i) \/ ChildExits(i) \/ ClientExits(i)
       \/ \E stored \in BOOLEAN : Ensure(i, stored)
       \/ Restarted(i) \/ UnshareFails(i) \/ Forced(i) \/ EndUnshare({i})
  \/ \E w \in Workspace :
       \/ SetSharedByCli(w) \/ BeginShare(w) \/ BeginUnshare(w) \/ BeginForce(w)
       \/ \E s \in Slug : Rename(w, s)
  \/ \E t \in tmux : SessionEnds(t)
  \/ Restart \/ Poll \/ EndUnshare({})

Spec == Init /\ [][Next]_vars

-----------------------------------------------------------------------------
(* Safety.                                                                 *)

\* Whether every step that should have settled where i runs went well: its
\* session_ref was stored, and its workspace's flag changed with its sessions.
Settled(i) == i \notin lost /\ ws[i] \notin unsettled

\* No two agents share a stored name, however often workspaces whose names
\* sanitize alike are renamed into each other and ordinals are handed out
\* again: a kill by name never hits another workspace's agent.
RefsDistinct ==
  \A i, j \in Live : i # j /\ session_ref[i] # None => session_ref[i] # session_ref[j]

\* An agent alive in tmux is the one its row's stored name leads to, across
\* renames, restarts of the dashboard, shares and unshares: none is orphaned
\* beside a second copy of itself (tmux_name_for's "NEVER re-derived").
RefFindsAgent ==
  \A t \in tmux : t.agent \in Live /\ Settled(t.agent) => session_ref[t.agent] = t.name

\* No agent runs twice, as a child of the dashboard and in tmux.
RunsOnce ==
  \A i \in Live :
    (Settled(i) /\ Runs(i) /\ ~InTmux(i)) => \A t \in tmux : t.agent # i

\* The agent that a client of instance i attaches to in this step.
Attached(i) ==
  {t.agent : t \in {u \in tmux \cap tmux' :
                     /\ entry'[i] # entry[i] /\ entry'[i] # None
                     /\ entry'[i].tmux = u.name /\ entry'[i].running}}

\* `-A` never lands in the session of another agent that has a row: names that
\* sanitize alike are told apart (session_ref_in_use).
AttachesToLiveOwn ==
  [][\A i \in Instance : \A j \in Attached(i) :
       j = i \/ j \notin Live \/ ~Settled(j)]_vars

-----------------------------------------------------------------------------
(* Claims of the repository that the code does not meet.                   *)

\* A name is derived so that "`-A` can't attach to the wrong agent": not even
\* to one whose row was removed, if every write so far went well.
AttachesToOwn ==
  [][\A i \in Instance : \A j \in Attached(i) : j = i \/ ~Settled(j)]_vars
=============================================================================
