---------------------------- MODULE AgentStatus ----------------------------
(***************************************************************************)
(* What the agents of a workspace report.  Every agent pushes its state    *)
(* itself (`wsx status set`, source "model"), and its harness pushes what  *)
(* its lifecycle events suggest (`wsx status from-hook`); each push is a   *)
(* process of its own that first works out which agent it speaks for and   *)
(* then writes in one transaction.  agent_status has a row per agent,      *)
(* workspace_status the one row that the dashboard, the bars and the       *)
(* widgets show: it is derived anew by every write.  A wsx binary from     *)
(* before agent_status may share the database, and knows only the second.  *)
(* `wsx agent wait --done` polls the first.                                *)
(*                                                                         *)
(* The tables are sets of rows.  A message is a BOOLEAN: the row still has *)
(* the message of the last explicit push, or none.                         *)
(***************************************************************************)
EXTENDS Naturals, FiniteSets

CONSTANTS
  Agent,     \* the ids of the workspace's agents
  Primary,   \* the primary one, which cannot be removed
  Shell,     \* who pushes from a shell of no agent
  MaxTime,   \* bound: how often the clock (ms) moves
  MaxPush    \* bound: how many pushes are on their way at once

ASSUME StatusAssumption ==
  /\ Agent \subseteq Nat
  /\ Primary \in Agent /\ Shell \notin Agent
  /\ MaxTime \in Nat /\ MaxPush \in Nat

VARIABLES
  live,              \* the agents that have a workspace_agents row
  agent_status,
  workspace_status,  \* at most one row
  now,
  pushes,            \* the processes between their lookup and their write
  \* history
  legacy,            \* an old binary wrote since the last derivation
  spoke,             \* when each agent last said that it is done or blocked
  owed               \* which message of each agent is to be shown, and why

statusVars == <<live, agent_status, workspace_status>>
historyVars == <<legacy, spoke, owed>>
vars == <<statusVars, now, pushes, historyVars>>

Time == 0 .. MaxTime
Reported == {"working", "waiting", "blocked", "done"}   \* ReportedState::parse
State == Reported \cup {"busy"}
TurnEnd == {"done", "blocked", "waiting"}
Finished == {"done", "blocked"}
AgentRow == [agent : Agent, state : State, note : BOOLEAN, source : {"model", "hook"},
             turn_ended : BOOLEAN, at : Time]
WorkspaceRow == [state : State, note : BOOLEAN, source : {"model", "hook"}, at : Time]
Push == [by : Agent \cup {Shell}, to : Agent, named : BOOLEAN,
         act : {"set", "hook", "clear"}, state : State]
Owing == {"none", "turn", "ended", "work", "parked"}

TypeOK ==
  /\ live \subseteq Agent /\ Primary \in live
  /\ agent_status \subseteq AgentRow
  /\ \A r, q \in agent_status : r.agent = q.agent => r = q
  /\ workspace_status \subseteq WorkspaceRow
  /\ \A v, w \in workspace_status : v = w
  /\ now \in Time
  /\ pushes \subseteq Push
  /\ legacy \in BOOLEAN
  /\ spoke \in [Agent -> Time]
  /\ owed \in [Agent -> Owing]

Init ==
  /\ live = Agent
  /\ agent_status = {} /\ workspace_status = {}
  /\ now = 0
  /\ pushes = {}
  /\ legacy = FALSE
  /\ spoke = [a \in Agent |-> 0]
  /\ owed = [a \in Agent |-> "none"]

-----------------------------------------------------------------------------
(* The derived row.                                                        *)

Rank == [blocked |-> 0, working |-> 1, busy |-> 2, waiting |-> 3, done |-> 4]

\* The order of rederive_workspace_status: the state that most needs a human,
\* the most recent push breaking ties.
Before(r, q) ==
  \/ Rank[r.state] < Rank[q.state]
  \/ Rank[r.state] = Rank[q.state] /\ r.at > q.at
  \/ Rank[r.state] = Rank[q.state] /\ r.at = q.at /\ r.agent <= q.agent

Shown(r) == [state |-> r.state, note |-> r.note, source |-> r.source, at |-> r.at]
Derived(R) == {Shown(r) : r \in {x \in R : \A q \in R : Before(x, q)}}

\* A bug: the rows of agents that are gone count.
Attached_All(R) == R

\* Rows of agents no longer attached never count.
Attached(R) == {r \in R : r.agent \in live}

\* rederive_workspace_status, over the rows R that the transaction leaves.
rederive(R) ==
  /\ agent_status' = Attached(R)
  /\ workspace_status' = Derived(Attached(R))
  /\ legacy' = FALSE

\* A bug: a row is inserted beside the one that is there.
Others_KeepsOld(R, a) == R

Of(R, a) == {r \in R : r.agent = a}
Others(R, a) == {r \in R : r.agent # a}
Row(a, s, source) ==
  [agent |-> a, state |-> s, note |-> source = "model", source |-> source,
   turn_ended |-> FALSE, at |-> now]

\* A bug: the rows of agents that are gone do not tell a derived row.
Direct_LiveOnly(w) == \A r \in Attached(agent_status) : w.at > r.at

\* A workspace row newer than every agent row was written directly.
Direct(w) == \A r \in agent_status : w.at > r.at

\* A bug: a direct delete is not told from a workspace without a status.
Adopted_NotCleared ==
  IF \E w \in workspace_status : Direct(w)
  THEN Others(agent_status, Primary) \cup
       {[agent |-> Primary, state |-> w.state, note |-> w.note, source |-> w.source,
         turn_ended |-> FALSE, at |-> w.at] : w \in workspace_status}
  ELSE agent_status

\* The rows after adopt_legacy_writes: a direct write becomes the primary's
\* status, a direct delete takes every agent's row along.
Adopted ==
  IF workspace_status = {} THEN {}
  ELSE IF \E w \in workspace_status : Direct(w)
  THEN Others(agent_status, Primary) \cup
       {[agent |-> Primary, state |-> w.state, note |-> w.note, source |-> w.source,
         turn_ended |-> FALSE, at |-> w.at] : w \in workspace_status}
  ELSE agent_status

-----------------------------------------------------------------------------
(* What a hook does to the row it lands on.                                *)

\* An idle prompt is not news, neither beside background work nor after the
\* model's own account of why its turn ended.
IsDropped(r, hook) ==
  hook = "waiting" /\ (r.state = "busy" \/ (r.source = "model" /\ r.state \in TurnEnd))

\* A bug: every end of a turn confirms, also that of a later turn.
Confirms_Again(r, hook) == r.state \in TurnEnd /\ hook \in Finished

\* The end of the turn in which the model pushed its account of it.
Confirms(r, hook) == r.state \in TurnEnd /\ hook \in Finished /\ ~r.turn_ended

merge_hook(r, hook) ==
  LET explicit == r.source = "model"
  IN IF IsDropped(r, hook) THEN "Drop"
     ELSE IF explicit /\ Confirms(r, hook) THEN "ConfirmTurnEnd"
     ELSE IF r.state = hook /\ ~(explicit /\ r.state \in TurnEnd) THEN "Refresh"
     ELSE IF explicit /\ r.state = "working" /\ hook = "busy" THEN "KeepMessage"
     ELSE "Replace"

\* The row after the merge.
Merged(r, hook) ==
  LET merge == merge_hook(r, hook)
  IN CASE merge = "Drop" -> r
       [] merge = "Refresh" -> [r EXCEPT !.at = now]
       [] merge = "ConfirmTurnEnd" -> [r EXCEPT !.at = now, !.turn_ended = TRUE]
       [] merge = "KeepMessage" ->
            [r EXCEPT !.state = hook, !.source = "hook", !.at = now]
       [] merge = "Replace" -> Row(r.agent, hook, "hook")

\* What the rules of docs/book/src/agents/status-and-recap.md make of the
\* message that is owed: `turn` and `ended` stand for an explicit turn-end
\* state before and after the hook of that turn's end, `work` and `parked` for
\* an explicit `working` before and after it parks on background work.
OwedBySet(s) == IF s \in TurnEnd THEN "turn" ELSE "work"
OwedByHook(o, hook) ==
  CASE hook = "waiting" -> IF o = "work" THEN "none" ELSE o
    [] hook \in Finished -> IF o = "turn" THEN "ended" ELSE "none"
    [] hook = "working" -> IF o = "work" THEN "work" ELSE "none"
    [] hook = "busy" -> IF o \in {"work", "parked"} THEN "parked" ELSE "none"

\* ... and what is owed once adopt_legacy_writes ran.
OwedAdopted ==
  [a \in Agent |->
     IF workspace_status = {} THEN "none"
     ELSE IF a # Primary \/ ~\E w \in workspace_status : Direct(w) THEN owed[a]
     ELSE IF \E w \in workspace_status : w.source = "hook" THEN "none"
     ELSE IF \E w \in workspace_status : w.state = "working" THEN "work" ELSE "turn"]

-----------------------------------------------------------------------------
(* The pushes.                                                             *)

\* status_target: the named agent was removed since it was looked up.
Gone(p) == p.named /\ p.to \notin live

\* resolve_env_instance: the agent in the environment of the process, if it
\* has a row; from a shell, or with a stale id, there is none, and the push is
\* the primary's.
Begin(by, act, s) ==
  /\ Cardinality(pushes) < MaxPush
  /\ act = "set" => s \in Reported
  /\ act = "clear" => s = "done"
  /\ pushes' = pushes \cup
       {[by |-> by, named |-> by \in live, to |-> IF by \in live THEN by ELSE Primary,
         act |-> act, state |-> s]}
  /\ UNCHANGED <<statusVars, now, historyVars>>

Spoken(p) == IF p.state \in Finished THEN [spoke EXCEPT ![p.to] = now] ELSE spoke

set_agent_status(p) ==
  /\ p \in pushes /\ p.act = "set" /\ ~Gone(p)
  /\ rederive(Others(Adopted, p.to) \cup {Row(p.to, p.state, "model")})
  /\ spoke' = Spoken(p)
  /\ owed' = [OwedAdopted EXCEPT ![p.to] = OwedBySet(p.state)]
  /\ pushes' = pushes \ {p}
  /\ UNCHANGED <<live, now>>

apply_hook_status(p) ==
  LET prev == Of(Adopted, p.to)
  IN /\ p \in pushes /\ p.act = "hook" /\ ~Gone(p)
     /\ rederive(Others(Adopted, p.to) \cup
          (IF prev = {} THEN {Row(p.to, p.state, "hook")}
           ELSE {Merged(r, p.state) : r \in prev}))
     /\ spoke' = Spoken(p)
     /\ owed' = [OwedAdopted EXCEPT ![p.to] = OwedByHook(OwedAdopted[p.to], p.state)]
     /\ pushes' = pushes \ {p}
     /\ UNCHANGED <<live, now>>

\* A push for an agent that is gone writes nothing.
PushDropped(p) ==
  /\ p \in pushes /\ p.act # "clear" /\ Gone(p)
  /\ pushes' = pushes \ {p}
  /\ UNCHANGED <<statusVars, now, historyVars>>

\* An agent clears its own status, a shell that of every agent.
clear_agent_status(p) ==
  /\ p \in pushes /\ p.act = "clear" /\ p.named
  /\ rederive(Others(Adopted, p.to))
  /\ owed' = [OwedAdopted EXCEPT ![p.to] = "none"]
  /\ pushes' = pushes \ {p}
  /\ UNCHANGED <<live, now, spoke>>

clear_workspace_status(p) ==
  /\ p \in pushes /\ p.act = "clear" /\ ~p.named
  /\ rederive({})
  /\ owed' = [a \in Agent |-> "none"]
  /\ pushes' = pushes \ {p}
  /\ UNCHANGED <<live, now, spoke>>

\* remove_workspace_agent, which derives anew without the adoption.
remove_workspace_agent(a) ==
  LET rows == {r \in agent_status : r.agent \in live \ {a}}
  IN /\ a \in live \ {Primary}
     /\ live' = live \ {a}
     /\ agent_status' = rows
     /\ workspace_status' = Derived(rows)
     /\ legacy' = FALSE
     /\ UNCHANGED <<now, pushes, spoke, owed>>

-----------------------------------------------------------------------------
(* An older binary, which knows only workspace_status.                     *)

LegacyPush(s, source) ==
  /\ source = "model" => s \in Reported
  /\ workspace_status' = {[state |-> s, note |-> source = "model", source |-> source, at |-> now]}
  /\ spoke' = IF s \in Finished THEN [spoke EXCEPT ![Primary] = now] ELSE spoke
  /\ legacy' = TRUE
  /\ UNCHANGED <<live, agent_status, now, pushes, owed>>

LegacyClear ==
  /\ workspace_status' = {}
  /\ legacy' = TRUE
  /\ UNCHANGED <<live, agent_status, now, pushes, spoke, owed>>

LegacyRemove(a) ==
  /\ a \in live \ {Primary}
  /\ live' = live \ {a}
  /\ legacy' = TRUE
  /\ UNCHANGED <<agent_status, workspace_status, now, pushes, spoke, owed>>

-----------------------------------------------------------------------------
(* Time, and what `wsx agent wait --done` reads at each of its polls.      *)

ends_wait(r, since) == r.state \in Finished /\ r.at >= since

\* A wait on a that counts from `since`: the time it began, or that of the
\* message it names.  agent_status joins the row with its agent; a peer that
\* is removed will never report.
wait_for(a, since) ==
  IF \E r \in Of(Attached(agent_status), a) : ends_wait(r, since) THEN "done"
  ELSE IF a \notin live THEN "removed" ELSE "waiting"

Elapse ==
  /\ now < MaxTime
  /\ now' = now + 1
  /\ UNCHANGED <<statusVars, pushes, historyVars>>

Next ==
  \/ \E by \in Agent \cup {Shell}, act \in {"set", "hook", "clear"}, s \in State :
       Begin(by, act, s)
  \/ \E p \in pushes :
       \/ set_agent_status(p) \/ apply_hook_status(p) \/ PushDropped(p)
       \/ clear_agent_status(p) \/ clear_workspace_status(p)
  \/ \E a \in Agent : remove_workspace_agent(a) \/ LegacyRemove(a)
  \/ \E s \in State, source \in {"model", "hook"} : LegacyPush(s, source)
  \/ LegacyClear \/ Elapse

Spec == Init /\ [][Next]_vars

-----------------------------------------------------------------------------
(* Safety.                                                                 *)

\* The dashboard never shows a state that no attached agent is in, nor hides a
\* more urgent one behind a peer's: but for what an old binary wrote since, the
\* workspace row is the most urgent of the rows of the attached agents.
DerivedShown ==
  ~legacy => workspace_status = Derived({r \in agent_status : r.agent \in live})

\* The message of an explicit push is shown exactly as long as the rules say:
\* through the end of its turn and the idle prompts after it, until new work,
\* a second turn's end, or a clear; whatever peers push meanwhile (merge_hook).
MessageHolds ==
  \A a \in live :
    owed[a] # "none" <=> \E r \in agent_status : r.agent = a /\ r.note

\* A `wait --done` does not end on old news: the peer said that it is done or
\* blocked since the wait began.  Idle prompts, a peer's pushes and rows of
\* agents that are gone do not make an old completion new.
WaitEndsOnNews ==
  \A a \in Agent, since \in Time :
    wait_for(a, since) = "done" => spoke[a] >= since

\* What an old binary pushed or cleared survives the next push of a peer: the
\* newest status stays the primary's, and what was cleared does not come back.
LegacyAdopted ==
  [][\A p \in pushes \ pushes' :
       p.to # Primary /\ p.to \in live =>
         /\ \A w \in workspace_status :
              (\A r \in agent_status : w.at > r.at) =>
                w \in {Shown(r) : r \in Of(agent_status', Primary)}
         /\ workspace_status = {} => Others(agent_status', p.to) = {}]_vars

\* resolve_current_instance: without an instance the caller "must not guess (the
\* primary would be the wrong answer for a peer's hook)".
PeerHookNotPinned ==
  [][\A p \in pushes \ pushes' :
       p.act = "hook" /\ p.by \in Agent \ {Primary} =>
         Of(agent_status', Primary) \subseteq Adopted]_vars
=============================================================================
