------------------------------ MODULE EventTail ------------------------------
(***************************************************************************)
(* The dashboard's reading of agents' transcripts.  Each agent instance of *)
(* a workspace has a cache entry: the transcript it was read from, how far *)
(* (byte_offset), and what was counted on the way.  A tail visits the      *)
(* instances of the roster it read when it began.  For each it takes the   *)
(* entry's file and offset under the App lock, locates and reads the       *)
(* transcript without the lock, and commits under the lock again, unless   *)
(* the roster or the entry moved meanwhile.  The periodic poll, the tail   *)
(* that priming leaves behind and those that detaching starts all run the  *)
(* same code, on the same entries, at the same time.                       *)
(*                                                                         *)
(* Agents are those of one kind in one workspace.  A transcript is a       *)
(* sequence of events; an offset is a number of them.                      *)
(***************************************************************************)
EXTENDS Naturals, FiniteSets, Sequences

CONSTANTS
  Agent,      \* the identities of agent instances of one kind
  File,       \* transcripts in the worktree's session directory
  Owner,      \* whose session a transcript is (None: no agent's of wsx)
  None,       \* no transcript, no entry
  Poll,       \* the periodic poll
  Detached,   \* the other tails
  MaxChange   \* bound: what the agents, their users and the disk do in all

ASSUME TailAssumption ==
  /\ Poll \notin Detached
  /\ None \notin Agent \cup File
  /\ IsFiniteSet(File)
  /\ Owner \in [File -> Agent \cup {None}]
  /\ MaxChange \in Nat

Task == {Poll} \cup Detached

\* An event: the transcript it stands in, and its place there.
Event == File \X (Nat \ {0})

VARIABLES
  roster,   \* the agents that have a row
  gone,     \* those whose row was removed
  pin,      \* the session each row records (agent_session_id)
  log,      \* the transcripts
  mtime,    \* their order of last writes, the newest highest; 0 for none
  cache,    \* workspace_events, agent_events
  task,     \* what each tail is doing
  changes,  \* how many bounded events there were
  rewound,  \* history: the transcripts that were cut short
  regrown   \* history: those written to since

disk == <<log, mtime, rewound, regrown>>
rows == <<roster, gone, pin>>
vars == <<rows, disk, cache, task, changes>>

\* An entry; what a tail saw of one (no entry looks like an empty one); what it
\* read; and the tail.
Entry == [file : File, offset : Nat, events : Seq(Event)]
Seen == [file : File \cup {None}, offset : Nat]
Update == [file : File \cup {None}, ok : BOOLEAN, reset : BOOLEAN,
           offset : Nat, events : Seq(Event)]
Idle == [at |-> "idle"]
Activity ==
  {Idle}
  \cup [at : {"next"}, roster : SUBSET Agent, pin : [Agent -> File \cup {None}],
        todo : SUBSET Agent]
  \cup [at : {"read"}, roster : SUBSET Agent, pin : [Agent -> File \cup {None}],
        todo : SUBSET Agent, agent : Agent, seen : Seen]
  \cup [at : {"commit"}, roster : SUBSET Agent, pin : [Agent -> File \cup {None}],
        todo : SUBSET Agent, agent : Agent, seen : Seen, update : Update]

TypeOK ==
  /\ roster \subseteq Agent /\ gone \subseteq Agent \ roster
  /\ pin \in [Agent -> File \cup {None}]
  /\ log \in [File -> Seq(Event)]
  /\ mtime \in [File -> Nat]
  /\ cache \in [Agent -> Entry \cup {None}]
  /\ task \in [Task -> Activity]
  /\ changes \in 0 .. MaxChange
  /\ regrown \subseteq rewound /\ rewound \subseteq File

Init ==
  /\ roster \in SUBSET Agent /\ gone = {}
  /\ pin = [a \in Agent |-> None]
  /\ log = [f \in File |-> <<>>] /\ mtime = [f \in File |-> 0]
  /\ cache = [a \in Agent |-> None]
  /\ task = [t \in Task |-> Idle]
  /\ changes = 0
  /\ rewound = {} /\ regrown = {}

-----------------------------------------------------------------------------
(* The agents, their users and the disk.                                   *)

Happens == changes < MaxChange /\ changes' = changes + 1

\* f becomes the newest, those written to since its last write one older.
Touched(f) ==
  [g \in File |-> IF g = f THEN Cardinality(File)
                 ELSE IF mtime[g] > mtime[f] THEN mtime[g] - 1 ELSE mtime[g]]
Vanished(f) ==
  [g \in File |-> IF g = f THEN 0
                 ELSE IF 0 < mtime[g] /\ mtime[g] < mtime[f] THEN mtime[g] + 1 ELSE mtime[g]]
Newest == {f \in File : log[f] # <<>> /\ \A g \in File : mtime[g] <= mtime[f]}

\* A session writes to its transcript.  An agent that has just lost its row may
\* still do so.
Write(f) ==
  /\ Happens
  /\ Owner[f] \in roster \cup gone \cup {None}
  /\ log' = [log EXCEPT ![f] = Append(@, <<f, Len(@) + 1>>)]
  /\ mtime' = Touched(f)
  /\ regrown' = regrown \cup ({f} \cap rewound)
  /\ UNCHANGED <<rows, rewound, cache, task>>

\* A transcript is cut short, or disappears.
Rewind(f, n) ==
  /\ Happens
  /\ n < Len(log[f])
  /\ log' = [log EXCEPT ![f] = SubSeq(@, 1, n)]
  /\ mtime' = IF n = 0 THEN Vanished(f) ELSE Touched(f)
  /\ rewound' = rewound \cup {f}
  /\ regrown' = regrown \ {f}
  /\ UNCHANGED <<rows, cache, task>>

\* An agent's hooks record the session it is in, the newest report winning.
set_instance_agent_session(a, f) ==
  /\ Happens
  /\ a \in roster /\ Owner[f] = a /\ pin[a] # f
  /\ pin' = [pin EXCEPT ![a] = f]
  /\ UNCHANGED <<roster, gone, disk, cache, task>>

add_workspace_agent(a) ==
  /\ Happens
  /\ a \notin roster \cup gone
  /\ roster' = roster \cup {a}
  /\ UNCHANGED <<gone, pin, disk, cache, task>>

remove_workspace_agent(a) ==
  /\ Happens
  /\ a \in roster
  /\ roster' = roster \ {a}
  /\ gone' = gone \cup {a}
  /\ UNCHANGED <<pin, disk, cache, task>>

-----------------------------------------------------------------------------
(* A tail.                                                                 *)

\* The transcript of agent a: the one recorded, which may be missing; without a
\* record the newest, if no other agent of the kind could be its owner.
locate_instance_session_file(a, who, pins) ==
  CASE pins[a] # None /\ log[pins[a]] # <<>> -> pins[a]
    [] pins[a] = None /\ who = {a} /\ Newest # {} -> CHOOSE f \in Newest : TRUE
    [] OTHER -> None

\* What is new in a transcript since the offset, which holds for this file
\* only; one that has become shorter is read again from its start.
tail_session(f, seen) ==
  LET from == IF seen.file = f THEN seen.offset ELSE 0
      reset == from > Len(log[f])
  IN [file |-> f, ok |-> TRUE, reset |-> reset, offset |-> Len(log[f]),
      events |-> SubSeq(log[f], (IF reset THEN 0 ELSE from) + 1, Len(log[f]))]

Missing == [file |-> None, ok |-> FALSE, reset |-> FALSE, offset |-> 0, events |-> <<>>]
Unread(f) == [Missing EXCEPT !.file = f]

\* What the entry of an agent looks like to a tail.
Snapshot(a) ==
  IF cache[a] = None THEN [file |-> None, offset |-> 0]
  ELSE [file |-> cache[a].file, offset |-> cache[a].offset]

\* tail_workspace_events: the rows are read once.
Begin(t) ==
  /\ task[t] = Idle /\ roster # {}
  /\ task' = [task EXCEPT ![t] =
       [at |-> "next", roster |-> roster, pin |-> pin, todo |-> roster]]
  /\ UNCHANGED <<rows, disk, cache, changes>>

\* The next agent's entry is looked at, under the lock.
Take(t, a) ==
  /\ task[t].at = "next" /\ a \in task[t].todo
  /\ task' = [task EXCEPT ![t] =
       [at |-> "read", roster |-> @.roster, pin |-> @.pin, todo |-> @.todo \ {a},
        agent |-> a, seen |-> Snapshot(a)]]
  /\ UNCHANGED <<rows, disk, cache, changes>>

WithUpdate(t, u) ==
  [at |-> "commit", roster |-> task[t].roster, pin |-> task[t].pin,
   todo |-> task[t].todo, agent |-> task[t].agent, seen |-> task[t].seen, update |-> u]
Onward(t) ==
  IF task[t].todo = {} THEN Idle
  ELSE [at |-> "next", roster |-> task[t].roster, pin |-> task[t].pin,
        todo |-> task[t].todo]

\* Its transcript is located and read, without the lock.
Read(t) ==
  /\ task[t].at = "read"
  /\ LET f == locate_instance_session_file(task[t].agent, task[t].roster, task[t].pin)
     IN task' = [task EXCEPT ![t] = WithUpdate(t,
          IF f = None THEN Missing ELSE tail_session(f, task[t].seen))]
  /\ UNCHANGED <<rows, disk, cache, changes>>

\* The worktree or the transcript cannot be read, ...
ReadFails(t) ==
  /\ Happens
  /\ task[t].at = "read"
  /\ LET f == locate_instance_session_file(task[t].agent, task[t].roster, task[t].pin)
     IN \E g \in {f, None} :
          task' = [task EXCEPT ![t] = WithUpdate(t, IF g = None THEN Missing ELSE Unread(g))]
  /\ UNCHANGED <<rows, disk, cache>>

\* ... or the parser panics, and this agent is left for the next tail.
ReadPanics(t) ==
  /\ Happens
  /\ task[t].at = "read"
  /\ task' = [task EXCEPT ![t] = Onward(t)]
  /\ UNCHANGED <<rows, disk, cache>>

\* Bugs: the entry, or the rows, are not looked at again.
Moved_RowsOnly(t) == roster # task[t].roster \/ \E a \in roster : pin[a] # task[t].pin[a]
Moved_EntryOnly(t) == Snapshot(task[t].agent) # task[t].seen

\* Whether the rows or the agent's entry changed while the tail was reading.
Moved(t) ==
  \/ roster # task[t].roster
  \/ \E a \in roster : pin[a] # task[t].pin[a]
  \/ Snapshot(task[t].agent) # task[t].seen

\* A bug: an entry is made also when there is no transcript.
Committed_NoFile(a, seen, u) ==
  [file |-> u.file, offset |-> u.offset, events |-> u.events]

\* A bug: the entry of a transcript that is missing stays.
Committed_Kept(a, seen, u) ==
  IF ~u.ok THEN cache[a]
  ELSE [file |-> u.file, offset |-> u.offset,
        events |-> IF Snapshot(a).file # u.file \/ u.reset THEN u.events
                   ELSE cache[a].events \o u.events]

\* The entry after a commit.  A transcript that is missing takes it away; one
\* that cannot be read does if it is not the entry's; another one, or one that
\* was cut short, replaces it; else what is new is added.
Committed(a, seen, u) ==
  CASE u.file = None -> None
    [] u.file # None /\ ~u.ok -> IF seen.file = u.file THEN cache[a] ELSE None
    [] OTHER ->
         [file |-> u.file, offset |-> u.offset,
          events |-> IF Snapshot(a).file # u.file \/ u.reset THEN u.events
                     ELSE cache[a].events \o u.events]

Commit(t) ==
  /\ task[t].at = "commit"
  /\ cache' = IF Moved(t) THEN cache
              ELSE [cache EXCEPT ![task[t].agent] =
                      Committed(task[t].agent, task[t].seen, task[t].update)]
  /\ task' = [task EXCEPT ![t] = Onward(t)]
  /\ UNCHANGED <<rows, disk, changes>>

\* App::refresh: entries without a row go.
Refresh ==
  /\ \E a \in gone : cache[a] # None
  /\ cache' = [a \in Agent |-> IF a \in roster THEN cache[a] ELSE None]
  /\ UNCHANGED <<rows, disk, task, changes>>

Step(t) == (\E a \in Agent : Take(t, a)) \/ Read(t) \/ Commit(t)

Next ==
  \/ \E f \in File :
       \/ Write(f)
       \/ \E n \in 0 .. MaxChange : Rewind(f, n)
       \/ \E a \in Agent : set_instance_agent_session(a, f)
  \/ \E a \in Agent : add_workspace_agent(a) \/ remove_workspace_agent(a)
  \/ \E t \in Task : Begin(t) \/ Step(t) \/ ReadFails(t) \/ ReadPanics(t)
  \/ Refresh

Spec == Init /\ [][Next]_vars

\* The poll and the refreshes go on for ever; nothing else has to.
FairSpec == Spec /\ WF_vars(Begin(Poll)) /\ WF_vars(Step(Poll)) /\ WF_vars(Refresh)

-----------------------------------------------------------------------------
(* Properties.                                                             *)

\* However tails overlap, an entry counts exactly the events up to its offset in
\* its transcript: none twice, none skipped, none of another transcript.  (A
\* transcript that was cut short is only held to it in the end, see CatchesUp.)
CountedOnce ==
  \A a \in Agent :
    cache[a] # None /\ cache[a].file \notin rewound =>
      cache[a].events = SubSeq(log[cache[a].file], 1, cache[a].offset)

\* No agent is shown with the model, tokens and tools of another that has a row,
\* also while sessions are recorded and agents come and go during the reads.
NoBorrowing ==
  \A a \in roster : cache[a] # None => Owner[cache[a].file] \notin roster \ {a}

\* What an entry should hold in the end.
Whole(a) ==
  LET f == locate_instance_session_file(a, roster, pin)
  IN IF a \notin roster \/ f = None THEN None
     ELSE [file |-> f, offset |-> Len(log[f]), events |-> log[f]]

\* The poll brings every entry up to its agent's whole transcript, whatever the
\* other tails do, and takes those of removed agents away; unless the transcript
\* was cut short and grew again, when the offset alone cannot tell.
CatchesUp ==
  \A a \in Agent :
    <>[](cache[a] = Whole(a) \/ (Whole(a) # None /\ Whole(a).file \in regrown))
=============================================================================
