---------------------------- MODULE EventTailProofs ----------------------------
(***************************************************************************)
(* Proofs about EventTail: type correctness, that no event is counted      *)
(* twice, and that no agent borrows another's transcript, for any number   *)
(* of agents, transcripts and tails.                                       *)
(***************************************************************************)
EXTENDS EventTail, SequenceTheorems, FiniteSetTheorems, TLAPS

\* A transcript that was ever written is one of an agent that had a row, or of
\* nobody's.
Known(f) == Owner[f] \in roster \cup gone \cup {None}

\* Rows record sessions of their own agents.
PinsOwn(p) == \A a \in Agent : p[a] # None => Owner[p[a]] = a

\* An entry counts what its transcript has up to its offset.
EntryOK(e) ==
  e # None =>
    /\ Known(e.file)
    /\ e.file \notin rewound =>
         /\ e.offset <= Len(log[e.file])
         /\ e.events = SubSeq(log[e.file], 1, e.offset)

\* What a tail saw of an entry was within its transcript.
SeenOK(s) ==
  s.file # None /\ s.file \notin rewound => s.offset <= Len(log[s.file])

\* The offset a tail reads from.
From(u, s) == IF s.file = u.file THEN s.offset ELSE 0

\* What a tail read is the part of a transcript between two offsets.
UpdateOK(u, s) ==
  u.ok /\ u.file \notin rewound =>
    /\ ~u.reset /\ From(u, s) <= u.offset /\ u.offset <= Len(log[u.file])
    /\ u.events = SubSeq(log[u.file], From(u, s) + 1, u.offset)

\* ... and one that may be its agent's, by the rows the tail goes by.
FoundOK(f, a, who) ==
  f # None => Known(f) /\ (Owner[f] = a \/ who = {a})

TaskOK(x) ==
  /\ x.at # "idle" => PinsOwn(x.pin) /\ x.todo \subseteq x.roster
  /\ x.at \in {"read", "commit"} => SeenOK(x.seen)
  /\ x.at = "commit" =>
       /\ UpdateOK(x.update, x.seen)
       /\ x.update.ok => x.update.file # None
       /\ FoundOK(x.update.file, x.agent, x.roster)
  /\ x.at \in {"read", "commit"} => x.agent \in x.roster

\* The inductive invariant.
IInv ==
  /\ TypeOK
  /\ PinsOwn(pin)
  /\ \A f \in File : log[f] # <<>> => Known(f)
  /\ \A a \in Agent : EntryOK(cache[a])
  /\ \A a \in Agent : cache[a] # None => a \in roster \cup gone
  /\ \A t \in Task : TaskOK(task[t])
  /\ NoBorrowing

-----------------------------------------------------------------------------
(* What the agents, their users and the disk do leaves entries and tails    *)
(* right.                                                                   *)

\* A step that keeps what every transcript that was not cut short held, and
\* forgets no agent.
Extends ==
  /\ \A f \in File : f \notin rewound' =>
       /\ f \notin rewound
       /\ Len(log'[f]) \in Nat /\ Len(log[f]) <= Len(log'[f])
       /\ \A m \in Nat \ {0}, n \in 0 .. Len(log[f]) :
            SubSeq(log'[f], m, n) = SubSeq(log[f], m, n)
  /\ roster \cup gone \subseteq roster' \cup gone'

\* An appended event changes nothing of what was there.
LEMMA AppendKeeps ==
  ASSUME NEW S, NEW s \in Seq(S), NEW e \in S,
         NEW m \in Nat \ {0}, NEW n \in 0 .. Len(s)
  PROVE  SubSeq(Append(s, e), m, n) = SubSeq(s, m, n)
<1>1. CASE n < m
  BY <1>1, SubSeqEmpty
<1>2. CASE m <= n
  <2>1. Append(s, e) = s \o <<e>> /\ <<e>> \in Seq(S)
    BY AppendIsConcat
  <2>2. m \in 1 .. Len(s) /\ n \in 1 .. Len(s)
    BY <1>2, LenProperties
  <2> QED
    BY <2>1, <2>2, SubSeqOfConcat1
<1> QED
  BY <1>1, <1>2, LenProperties

LEMMA WriteExtends ==
  ASSUME TypeOK, NEW g \in File, Write(g)
  PROVE  Extends /\ log' \in [File -> Seq(Event)]
<1> DEFINE e == <<g, Len(log[g]) + 1>>
<1>1. e \in Event /\ log[g] \in Seq(Event)
  BY LenProperties DEF TypeOK, Event
<1>2. log' = [log EXCEPT ![g] = Append(@, e)]
  BY DEF Write
<1>3. ASSUME NEW f \in File, f \notin rewound
      PROVE  /\ Len(log'[f]) \in Nat /\ Len(log[f]) <= Len(log'[f])
             /\ \A m \in Nat \ {0}, n \in 0 .. Len(log[f]) :
                  SubSeq(log'[f], m, n) = SubSeq(log[f], m, n)
  <2>1. log[f] \in Seq(Event)
    BY DEF TypeOK
  <2>2. CASE f = g
    <3>1. log'[f] = Append(log[f], e)
      BY <1>2, <2>2 DEF TypeOK
    <3>2. Len(Append(log[f], e)) = Len(log[f]) + 1 /\ Len(log[f]) \in Nat
      BY <1>1, <2>1, AppendProperties, LenProperties
    <3>3. \A m \in Nat \ {0}, n \in 0 .. Len(log[f]) :
            SubSeq(Append(log[f], e), m, n) = SubSeq(log[f], m, n)
      BY <1>1, <2>1, AppendKeeps
    <3> QED
      BY <3>1, <3>2, <3>3
  <2>3. CASE f # g
    BY <2>1, <2>3, <1>2, LenProperties DEF TypeOK
  <2> QED
    BY <2>2, <2>3
<1>4. log' \in [File -> Seq(Event)]
  BY <1>1, <1>2, AppendProperties DEF TypeOK
<1> QED
  BY <1>3, <1>4 DEF Extends, Write, rows

LEMMA RewindExtends ==
  ASSUME TypeOK, NEW g \in File, NEW k \in 0 .. MaxChange, Rewind(g, k)
  PROVE  Extends /\ log' \in [File -> Seq(Event)]
<1>1. log' = [log EXCEPT ![g] = SubSeq(@, 1, k)] /\ k < Len(log[g])
  BY DEF Rewind
<1>2. log[g] \in Seq(Event) /\ Len(log[g]) \in Nat
  BY LenProperties DEF TypeOK
<1>3. SubSeq(log[g], 1, k) \in Seq(Event)
  <2>1. \A i \in 1 .. k : log[g][i] \in Event
    BY <1>1, <1>2, ElementOfSeq
  <2> QED
    BY <2>1, SubSeqProperties
<1>4. ASSUME NEW f \in File, f \notin rewound'
      PROVE  f \notin rewound /\ log'[f] = log[f] /\ Len(log[f]) \in Nat
  BY <1>4, <1>1, LenProperties DEF Rewind, TypeOK
<1> QED
  BY <1>1, <1>3, <1>4 DEF Extends, Rewind, rows, TypeOK

LEMMA StaysOK ==
  ASSUME TypeOK, Extends, UNCHANGED <<cache, task>>,
         \A a \in Agent : EntryOK(cache[a]), \A t \in Task : TaskOK(task[t])
  PROVE  /\ \A a \in Agent : EntryOK(cache[a])'
         /\ \A t \in Task : TaskOK(task[t])'
<1>1. ASSUME NEW f, Known(f)
      PROVE  Known(f)'
  BY <1>1 DEF Known, Extends
<1>2. ASSUME NEW a \in Agent
      PROVE  EntryOK(cache[a])'
  <2>1. CASE cache[a] = None
    BY <2>1 DEF EntryOK
  <2>2. CASE cache[a] # None
    <3>1. cache[a] \in Entry /\ cache[a].file \in File /\ cache[a].offset \in Nat
      BY <2>2 DEF TypeOK, Entry
    <3>2. EntryOK(cache[a]) /\ Len(log[cache[a].file]) \in Nat
      BY <3>1, LenProperties DEF TypeOK
    <3>3. Known(cache[a].file)'
      BY <2>2, <3>2, <1>1 DEF EntryOK
    <3>4. ASSUME cache[a].file \notin rewound'
          PROVE  /\ cache[a].offset <= Len(log'[cache[a].file])
                 /\ cache[a].events = SubSeq(log'[cache[a].file], 1, cache[a].offset)
      <4>1. /\ cache[a].file \notin rewound
            /\ Len(log[cache[a].file]) <= Len(log'[cache[a].file])
            /\ \A n \in 0 .. Len(log[cache[a].file]) :
                 SubSeq(log'[cache[a].file], 1, n) = SubSeq(log[cache[a].file], 1, n)
        <5>1. 1 \in Nat \ {0}
          OBVIOUS
        <5> QED
          BY <3>1, <3>4, <5>1 DEF Extends
      <4>2. /\ cache[a].offset <= Len(log[cache[a].file])
            /\ cache[a].events = SubSeq(log[cache[a].file], 1, cache[a].offset)
        BY <2>2, <3>2, <4>1 DEF EntryOK
      <4>3. cache[a].offset \in 0 .. Len(log[cache[a].file])
        BY <3>1, <3>2, <4>2
      <4>4. cache[a].offset <= Len(log'[cache[a].file])
        <5>1. Len(log'[cache[a].file]) \in Nat
          BY <3>1, <3>4 DEF Extends
        <5> QED
          BY <3>1, <3>2, <4>1, <4>2, <5>1
      <4> QED
        BY <4>1, <4>2, <4>3, <4>4
    <3> QED
      BY <3>3, <3>4 DEF EntryOK
  <2> QED
    BY <2>1, <2>2
<1>3. ASSUME NEW s \in Seen, SeenOK(s)
      PROVE  SeenOK(s)'
  <2>1. SUFFICES ASSUME s.file # None, s.file \notin rewound'
                 PROVE  s.offset <= Len(log'[s.file])
    BY DEF SeenOK
  <2>2. s.file \in File /\ s.offset \in Nat
    BY <2>1 DEF Seen
  <2>3. /\ s.file \notin rewound
        /\ Len(log'[s.file]) \in Nat /\ Len(log[s.file]) <= Len(log'[s.file])
    BY <2>1, <2>2 DEF Extends
  <2>4. s.offset <= Len(log[s.file]) /\ Len(log[s.file]) \in Nat
    BY <1>3, <2>1, <2>2, <2>3, LenProperties DEF SeenOK, TypeOK
  <2> QED
    BY <2>2, <2>3, <2>4
<1>4. ASSUME NEW u \in Update, NEW s \in Seen, UpdateOK(u, s), u.ok => u.file # None
      PROVE  UpdateOK(u, s)'
  <2>1. SUFFICES ASSUME u.ok, u.file \notin rewound'
                 PROVE  /\ ~u.reset /\ From(u, s) <= u.offset
                        /\ u.offset <= Len(log'[u.file])
                        /\ u.events = SubSeq(log'[u.file], From(u, s) + 1, u.offset)
    BY DEF UpdateOK, From
  <2>2. u.file \in File /\ u.offset \in Nat /\ From(u, s) \in Nat
    BY <1>4, <2>1 DEF Update, Seen, From
  <2>3. /\ u.file \notin rewound
        /\ Len(log'[u.file]) \in Nat /\ Len(log[u.file]) <= Len(log'[u.file])
        /\ \A m \in Nat \ {0}, n \in 0 .. Len(log[u.file]) :
             SubSeq(log'[u.file], m, n) = SubSeq(log[u.file], m, n)
    BY <2>1, <2>2 DEF Extends
  <2>4. /\ ~u.reset /\ From(u, s) <= u.offset /\ u.offset <= Len(log[u.file])
        /\ u.events = SubSeq(log[u.file], From(u, s) + 1, u.offset)
    BY <1>4, <2>1, <2>3 DEF UpdateOK
  <2>5. Len(log[u.file]) \in Nat
    BY <2>2, LenProperties DEF TypeOK
  <2>6. u.offset \in 0 .. Len(log[u.file]) /\ From(u, s) + 1 \in Nat \ {0}
    BY <2>2, <2>4, <2>5
  <2>7. SubSeq(log'[u.file], From(u, s) + 1, u.offset)
          = SubSeq(log[u.file], From(u, s) + 1, u.offset)
    BY <2>3, <2>6
  <2>8. u.offset <= Len(log'[u.file])
    BY <2>2, <2>3, <2>4, <2>5
  <2> QED
    BY <2>4, <2>7, <2>8
<1>5. ASSUME NEW t \in Task
      PROVE  TaskOK(task[t])'
  <2>1. TaskOK(task[t]) /\ task' = task /\ task[t] \in Activity
    BY DEF TypeOK
  <2>2. /\ task[t].at # "idle" =>
             PinsOwn(task[t].pin) /\ task[t].todo \subseteq task[t].roster
        /\ task[t].at \in {"read", "commit"} => task[t].agent \in task[t].roster
    BY <2>1 DEF TaskOK
  <2>3. task[t].at \in {"read", "commit"} => task[t].seen \in Seen
    BY <2>1 DEF Activity, Idle
  <2>4. task[t].at = "commit" => task[t].update \in Update
    BY <2>1 DEF Activity, Idle
  <2>5. task[t].at \in {"read", "commit"} => SeenOK(task[t].seen)'
    BY <2>1, <2>3, <1>3 DEF TaskOK
  <2>6. task[t].at = "commit" => UpdateOK(task[t].update, task[t].seen)'
    BY <2>1, <2>3, <2>4, <1>4 DEF TaskOK
  <2>7. task[t].at = "commit" =>
          FoundOK(task[t].update.file, task[t].agent, task[t].roster)'
    BY <2>1, <1>1 DEF TaskOK, FoundOK
  <2> QED
    BY <2>1, <2>2, <2>5, <2>6, <2>7 DEF TaskOK, PinsOwn
<1> QED
  BY <1>2, <1>5

-----------------------------------------------------------------------------
(* The invariant is inductive.                                              *)

LEMMA Initially == Init => IInv
<1> SUFFICES ASSUME Init PROVE IInv
  OBVIOUS
<1>1. \A t \in Task : task[t] = Idle /\ Idle \in Activity
  BY DEF Init, Activity
<1>2. TypeOK
  <2>1. <<>> \in Seq(Event)
    BY EmptySeq
  <2>2. task \in [Task -> Activity]
    BY <1>1 DEF Init
  <2> QED
    BY <2>1, <2>2, TailAssumption DEF Init, TypeOK
<1>3. \A t \in Task : TaskOK(task[t])
  BY <1>1 DEF TaskOK, Idle
<1> QED
  BY <1>2, <1>3 DEF Init, IInv, PinsOwn, EntryOK, NoBorrowing

\* The environment's steps.
LEMMA EnvironmentStep ==
  ASSUME IInv,
         \/ \E f \in File : Write(f) \/ \E n \in 0 .. MaxChange : Rewind(f, n)
         \/ \E f \in File, a \in Agent : set_instance_agent_session(a, f)
         \/ \E a \in Agent : add_workspace_agent(a) \/ remove_workspace_agent(a)
  PROVE  IInv'
<1> USE DEF Happens
<1>0. changes \in Nat /\ MaxChange \in Nat
  BY TailAssumption DEF IInv, TypeOK
<1>1. ASSUME NEW f \in File, Write(f)
      PROVE  IInv'
  <2>1. Extends /\ log' \in [File -> Seq(Event)]
    BY <1>1, WriteExtends DEF IInv
  <2>2. mtime' \in [File -> Nat]
    <3>1. Cardinality(File) \in Nat
      BY TailAssumption, FS_CardinalityType
    <3> QED
      BY <1>1, <3>1 DEF Write, Touched, IInv, TypeOK
  <2>3. TypeOK'
    BY <1>0, <1>1, <2>1, <2>2 DEF Write, rows, IInv, TypeOK
  <2>4. \A g \in File : log'[g] # <<>> => Known(g)'
    BY <1>1 DEF Write, rows, Known, IInv, TypeOK
  <2>5. /\ \A a \in Agent : EntryOK(cache[a])'
        /\ \A t \in Task : TaskOK(task[t])'
    BY <1>1, <2>1, StaysOK DEF IInv, Write
  <2> QED
    BY <1>1, <2>3, <2>4, <2>5 DEF IInv, Write, rows, PinsOwn, NoBorrowing
<1>2. ASSUME NEW f \in File, NEW n \in 0 .. MaxChange, Rewind(f, n)
      PROVE  IInv'
  <2>1. Extends /\ log' \in [File -> Seq(Event)]
    BY <1>2, RewindExtends DEF IInv
  <2>2. mtime' \in [File -> Nat]
    <3>1. Cardinality(File) \in Nat
      BY TailAssumption, FS_CardinalityType
    <3> QED
      BY <1>2, <3>1 DEF Rewind, Touched, Vanished, IInv, TypeOK
  <2>3. TypeOK'
    BY <1>0, <1>2, <2>1, <2>2 DEF Rewind, rows, IInv, TypeOK
  <2>4. \A g \in File : log'[g] # <<>> => Known(g)'
    <3>1. log[f] # <<>>
      BY <1>2, LenProperties, EmptySeq DEF Rewind, IInv, TypeOK
    <3> QED
      BY <1>2, <3>1 DEF Rewind, rows, Known, IInv, TypeOK
  <2>5. /\ \A a \in Agent : EntryOK(cache[a])'
        /\ \A t \in Task : TaskOK(task[t])'
    BY <1>2, <2>1, StaysOK DEF IInv, Rewind
  <2> QED
    BY <1>2, <2>3, <2>4, <2>5 DEF IInv, Rewind, rows, PinsOwn, NoBorrowing
<1>3. ASSUME UNCHANGED <<disk, cache, task>>, roster \cup gone \subseteq roster' \cup gone'
      PROVE  /\ \A a \in Agent : EntryOK(cache[a])'
             /\ \A t \in Task : TaskOK(task[t])'
  <2>1. \A g \in File : Len(log[g]) \in Nat
    BY LenProperties DEF IInv, TypeOK
  <2>2. Extends
    BY <1>3, <2>1 DEF Extends, disk
  <2> QED
    BY <1>3, <2>2, StaysOK DEF IInv
<1>4. ASSUME NEW f \in File, NEW a \in Agent, set_instance_agent_session(a, f)
      PROVE  IInv'
  <2>1. TypeOK'
    BY <1>0, <1>4 DEF set_instance_agent_session, disk, IInv, TypeOK
  <2>2. PinsOwn(pin')
    BY <1>4 DEF set_instance_agent_session, PinsOwn, IInv, TypeOK
  <2>3. /\ \A b \in Agent : EntryOK(cache[b])'
        /\ \A t \in Task : TaskOK(task[t])'
    BY <1>4, <1>3 DEF set_instance_agent_session
  <2> QED
    BY <1>4, <2>1, <2>2, <2>3
    DEF set_instance_agent_session, disk, IInv, PinsOwn, NoBorrowing, Known
<1>5. ASSUME NEW a \in Agent, add_workspace_agent(a)
      PROVE  IInv'
  <2>1. TypeOK'
    BY <1>0, <1>5 DEF add_workspace_agent, disk, IInv, TypeOK
  <2>2. /\ \A b \in Agent : EntryOK(cache[b])'
        /\ \A t \in Task : TaskOK(task[t])'
    BY <1>5, <1>3 DEF add_workspace_agent
  <2>3. NoBorrowing'
    <3>1. \A b \in Agent : cache[b] # None => Known(cache[b].file)
      BY DEF IInv, EntryOK
    <3>2. a \notin roster \cup gone \cup {None}
      BY <1>5, TailAssumption DEF add_workspace_agent
    <3>3. cache[a] = None
      BY <3>2 DEF IInv
    <3>4. ASSUME NEW b \in roster, cache[b] # None
          PROVE  Owner[cache[b].file] \notin (roster \cup {a}) \ {b}
      BY <3>1, <3>2, <3>4 DEF NoBorrowing, Known, IInv, TypeOK
    <3> QED
      BY <1>5, <3>3, <3>4 DEF add_workspace_agent, NoBorrowing
  <2> QED
    BY <1>5, <2>1, <2>2, <2>3 DEF add_workspace_agent, disk, IInv, PinsOwn, Known
<1>6. ASSUME NEW a \in Agent, remove_workspace_agent(a)
      PROVE  IInv'
  <2>1. TypeOK'
    BY <1>0, <1>6 DEF remove_workspace_agent, disk, IInv, TypeOK
  <2>2. /\ \A b \in Agent : EntryOK(cache[b])'
        /\ \A t \in Task : TaskOK(task[t])'
    BY <1>6, <1>3 DEF remove_workspace_agent
  <2>3. NoBorrowing'
    BY <1>6 DEF remove_workspace_agent, NoBorrowing, IInv
  <2> QED
    BY <1>6, <2>1, <2>2, <2>3 DEF remove_workspace_agent, disk, IInv, PinsOwn, Known
<1> QED
  BY <1>1, <1>2, <1>4, <1>5, <1>6

\* A tail's steps before its commit change its own state only.
LEMMA ReadingStep ==
  ASSUME IInv, NEW t \in Task, NEW x \in Activity, TaskOK(x),
         task' = [task EXCEPT ![t] = x], UNCHANGED <<rows, disk, cache>>,
         changes' \in 0 .. MaxChange
  PROVE  IInv'
<1>1. TypeOK'
  BY DEF IInv, TypeOK, rows, disk
<1>2. \A u \in Task : TaskOK(task[u])'
  <2>1. \A u \in Task : TaskOK(task'[u])
    BY DEF IInv, TypeOK
  <2> QED
    BY <2>1 DEF TaskOK, PinsOwn, SeenOK, UpdateOK, From, FoundOK, Known, rows, disk
<1>3. /\ PinsOwn(pin')
      /\ \A f \in File : log'[f] # <<>> => Known(f)'
      /\ \A a \in Agent : EntryOK(cache[a])'
      /\ \A a \in Agent : cache'[a] # None => a \in roster' \cup gone'
      /\ NoBorrowing'
  BY DEF IInv, PinsOwn, Known, EntryOK, NoBorrowing, rows, disk
<1> QED
  BY <1>1, <1>2, <1>3 DEF IInv, PinsOwn

LEMMA IdleOK == Idle \in Activity /\ TaskOK(Idle)
BY DEF Idle, Activity, TaskOK

\* What a tail goes on with.
LEMMA OnwardOK ==
  ASSUME IInv, NEW t \in Task, task[t].at \in {"read", "commit"}
  PROVE  Onward(t) \in Activity /\ TaskOK(Onward(t))
<1>1. task[t] \in Activity /\ TaskOK(task[t])
  BY DEF IInv, TypeOK
<1>2. /\ task[t].roster \in SUBSET Agent /\ task[t].todo \in SUBSET Agent
      /\ task[t].pin \in [Agent -> File \cup {None}]
      /\ PinsOwn(task[t].pin) /\ task[t].todo \subseteq task[t].roster
  BY <1>1 DEF Activity, TaskOK, Idle
<1> DEFINE x == [at |-> "next", roster |-> task[t].roster, pin |-> task[t].pin,
                 todo |-> task[t].todo]
<1>3. x \in Activity /\ TaskOK(x)
  BY <1>2 DEF Activity, TaskOK
<1> QED
  BY <1>3, IdleOK DEF Onward

\* What a tail takes to its commit.
LEMMA WithUpdateOK ==
  ASSUME IInv, NEW t \in Task, task[t].at = "read", NEW u \in Update,
         UpdateOK(u, task[t].seen), u.ok => u.file # None,
         FoundOK(u.file, task[t].agent, task[t].roster)
  PROVE  WithUpdate(t, u) \in Activity /\ TaskOK(WithUpdate(t, u))
<1>1. task[t] \in Activity /\ TaskOK(task[t])
  BY DEF IInv, TypeOK
<1>2. /\ task[t].roster \in SUBSET Agent /\ task[t].todo \in SUBSET Agent
      /\ task[t].pin \in [Agent -> File \cup {None}]
      /\ task[t].agent \in Agent /\ task[t].seen \in Seen
  BY <1>1 DEF Activity, Idle
<1>3. /\ PinsOwn(task[t].pin) /\ task[t].todo \subseteq task[t].roster
      /\ SeenOK(task[t].seen) /\ task[t].agent \in task[t].roster
  BY <1>1 DEF TaskOK
<1>4. WithUpdate(t, u) \in Activity
  BY <1>2 DEF Activity, WithUpdate
<1>5. TaskOK(WithUpdate(t, u))
  BY <1>3 DEF TaskOK, WithUpdate
<1> QED
  BY <1>4, <1>5

\* What a tail locates for an agent is its own, or it is the only agent.
LEMMA LocatedOK ==
  ASSUME IInv, NEW t \in Task, task[t].at = "read",
         NEW f, f = locate_instance_session_file(task[t].agent, task[t].roster, task[t].pin)
  PROVE  f \in File \cup {None} /\ FoundOK(f, task[t].agent, task[t].roster)
<1>1. task[t] \in Activity /\ TaskOK(task[t])
  BY DEF IInv, TypeOK
<1>2. /\ task[t].pin \in [Agent -> File \cup {None}] /\ task[t].agent \in Agent
      /\ PinsOwn(task[t].pin)
  BY <1>1 DEF Activity, TaskOK, Idle
<1> DEFINE a == task[t].agent
           p == task[t].pin
<1>3. CASE p[a] # None /\ log[p[a]] # <<>>
  <2>1. f = p[a] /\ p[a] \in File
    BY <1>2, <1>3 DEF locate_instance_session_file
  <2>2. Owner[f] = a /\ Known(f)
    BY <1>2, <1>3, <2>1 DEF PinsOwn, IInv
  <2> QED
    BY <2>1, <2>2 DEF FoundOK
<1>4. CASE p[a] = None /\ task[t].roster = {a} /\ Newest # {}
  <2>1. f = CHOOSE g \in Newest : TRUE
    BY <1>4 DEF locate_instance_session_file
  <2>2. f \in Newest
    BY <1>4, <2>1
  <2>3. f \in File /\ log[f] # <<>>
    BY <2>2 DEF Newest
  <2>4. Known(f)
    BY <2>3 DEF IInv
  <2> QED
    BY <1>4, <2>3, <2>4 DEF FoundOK
<1>5. CASE /\ ~(p[a] # None /\ log[p[a]] # <<>>)
           /\ ~(p[a] = None /\ task[t].roster = {a} /\ Newest # {})
  <2>1. f = None
    BY <1>5 DEF locate_instance_session_file
  <2> QED
    BY <2>1 DEF FoundOK
<1> QED
  BY <1>3, <1>4, <1>5

\* A transcript is read between the offset and its end.
LEMMA ReadOK ==
  ASSUME IInv, NEW f \in File, NEW s \in Seen, SeenOK(s)
  PROVE  /\ tail_session(f, s) \in Update
         /\ tail_session(f, s).file = f
         /\ UpdateOK(tail_session(f, s), s)
<1> DEFINE from == IF s.file = f THEN s.offset ELSE 0
           reset == from > Len(log[f])
           b == (IF reset THEN 0 ELSE from) + 1
<1>1. /\ log[f] \in Seq(Event) /\ Len(log[f]) \in Nat
      /\ from \in Nat /\ b \in Nat \ {0} /\ reset \in BOOLEAN
  BY LenProperties DEF IInv, TypeOK, Seen
<1>2. SubSeq(log[f], b, Len(log[f])) \in Seq(Event)
  <2>1. \A i \in b .. Len(log[f]) : log[f][i] \in Event
    BY <1>1, ElementOfSeq
  <2> QED
    BY <1>1, <2>1, SubSeqProperties
<1>3. tail_session(f, s) = [file |-> f, ok |-> TRUE, reset |-> reset,
                            offset |-> Len(log[f]), events |-> SubSeq(log[f], b, Len(log[f]))]
  BY DEF tail_session
<1> HIDE DEF from, reset, b
<1>4. tail_session(f, s) \in Update
  BY <1>1, <1>2, <1>3 DEF Update
<1>5. ASSUME f \notin rewound
      PROVE  ~reset /\ from <= Len(log[f]) /\ b = from + 1
  <2>1. from <= Len(log[f])
    BY <1>1, <1>5, TailAssumption DEF from, SeenOK
  <2> QED
    BY <1>1, <2>1 DEF reset, b
<1>6. From(tail_session(f, s), s) = from
  BY <1>3 DEF From, from
<1> QED
  <2> DEFINE u == tail_session(f, s)
  <2>1. /\ u.file = f
        /\ u.offset = Len(log[f])
        /\ u.events = SubSeq(log[f], b, Len(log[f]))
    <3>1. u.file = f
      BY <1>3
    <3>2. u.offset = Len(log[f])
      BY <1>3
    <3>3. u.events = SubSeq(log[f], b, Len(log[f]))
      <4> DEFINE ev == SubSeq(log[f], b, Len(log[f]))
      <4>1. tail_session(f, s) = [file |-> f, ok |-> TRUE, reset |-> reset,
                                  offset |-> Len(log[f]), events |-> ev]
        BY <1>3
      <4> HIDE DEF ev
      <4>2. u.events = ev
        BY <4>1
      <4> QED
        BY <4>2 DEF ev
    <3> QED
      BY <3>1, <3>2, <3>3
  <2>4. ~reset => ~u.reset
    BY <1>1, <1>3
  <2>2. u \in Update /\ From(u, s) = from
    BY <1>4, <1>6
  <2> HIDE DEF u
  <2>3. UpdateOK(u, s)
    BY <1>1, <1>5, <2>1, <2>2, <2>4 DEF UpdateOK
  <2> QED
    BY <2>1, <2>2, <2>3 DEF u

\* The steps of a tail up to its commit.
LEMMA TailStep ==
  ASSUME IInv, NEW t \in Task,
         \/ Begin(t) \/ Read(t) \/ ReadFails(t) \/ ReadPanics(t)
         \/ \E a \in Agent : Take(t, a)
  PROVE  IInv'
<1>0. changes \in 0 .. MaxChange /\ MaxChange \in Nat
  BY TailAssumption DEF IInv, TypeOK
<1>1. CASE Begin(t)
  <2> DEFINE x == [at |-> "next", roster |-> roster, pin |-> pin, todo |-> roster]
  <2>1. x \in Activity /\ TaskOK(x)
    BY DEF Activity, TaskOK, IInv, TypeOK
  <2>2. task' = [task EXCEPT ![t] = x]
    BY <1>1 DEF Begin
  <2> HIDE DEF x
  <2> QED
    BY <1>0, <1>1, <2>1, <2>2, ReadingStep DEF Begin
<1>2. ASSUME NEW a \in Agent, Take(t, a)
      PROVE  IInv'
  <2>1. task[t] \in Activity /\ TaskOK(task[t]) /\ task[t].at = "next"
    BY <1>2 DEF IInv, TypeOK, Take
  <2>2. /\ task[t].roster \in SUBSET Agent /\ task[t].todo \in SUBSET Agent
        /\ task[t].pin \in [Agent -> File \cup {None}]
        /\ PinsOwn(task[t].pin) /\ task[t].todo \subseteq task[t].roster
        /\ a \in task[t].todo
    BY <1>2, <2>1 DEF Activity, TaskOK, Idle, Take
  <2>3. Snapshot(a) \in Seen /\ SeenOK(Snapshot(a))
    BY DEF Snapshot, Seen, SeenOK, EntryOK, IInv, TypeOK, Entry
  <2> DEFINE x == [at |-> "read", roster |-> task[t].roster, pin |-> task[t].pin,
                   todo |-> task[t].todo \ {a}, agent |-> a, seen |-> Snapshot(a)]
  <2>4. x \in Activity /\ TaskOK(x)
    BY <2>2, <2>3 DEF Activity, TaskOK
  <2>5. task' = [task EXCEPT ![t] = x]
    BY <1>2 DEF Take
  <2> HIDE DEF x
  <2> QED
    BY <1>0, <1>2, <2>4, <2>5, ReadingStep DEF Take
<1>3. ASSUME task[t].at = "read"
      PROVE  task[t].seen \in Seen /\ SeenOK(task[t].seen)
  BY <1>3 DEF IInv, TypeOK, Activity, Idle, TaskOK
<1>4. ASSUME NEW s
      PROVE  /\ Missing \in Update /\ UpdateOK(Missing, s)
             /\ \A f \in File : Unread(f) \in Update /\ UpdateOK(Unread(f), s)
  <2>1. <<>> \in Seq(Event)
    BY EmptySeq
  <2> QED
    BY <2>1 DEF Missing, Unread, Update, UpdateOK
<1> DEFINE f == locate_instance_session_file(task[t].agent, task[t].roster, task[t].pin)
<1>5. CASE Read(t)
  <2> DEFINE u == IF f = None THEN Missing ELSE tail_session(f, task[t].seen)
  <2>1. task[t].at = "read" /\ task' = [task EXCEPT ![t] = WithUpdate(t, u)]
    BY <1>5 DEF Read
  <2>2. f \in File \cup {None} /\ FoundOK(f, task[t].agent, task[t].roster)
    BY <2>1, LocatedOK
  <2> HIDE DEF f
  <2>3. /\ u \in Update /\ UpdateOK(u, task[t].seen)
        /\ u.file = f /\ (u.ok => u.file # None)
    <3>1. CASE f = None
      BY <1>4, <3>1 DEF Missing
    <3>2. CASE f # None
      BY <1>3, <2>1, <2>2, <3>2, ReadOK
    <3> QED
      BY <3>1, <3>2
  <2> HIDE DEF u
  <2>4. WithUpdate(t, u) \in Activity /\ TaskOK(WithUpdate(t, u))
    BY <2>1, <2>2, <2>3, WithUpdateOK
  <2> QED
    BY <1>0, <1>5, <2>1, <2>4, ReadingStep DEF Read
<1>6. CASE ReadFails(t)
  <2>1. PICK g \in {f, None} :
          task' = [task EXCEPT ![t] = WithUpdate(t, IF g = None THEN Missing ELSE Unread(g))]
    BY <1>6 DEF ReadFails
  <2> DEFINE u == IF g = None THEN Missing ELSE Unread(g)
  <2>2. task[t].at = "read" /\ changes' \in 0 .. MaxChange
    BY <1>0, <1>6 DEF ReadFails, Happens
  <2>3. f \in File \cup {None} /\ FoundOK(f, task[t].agent, task[t].roster)
    BY <2>2, LocatedOK
  <2> HIDE DEF f
  <2>4. /\ u \in Update /\ UpdateOK(u, task[t].seen)
        /\ u.file = g /\ ~u.ok
    BY <1>4, <2>3 DEF Missing, Unread
  <2>5. FoundOK(u.file, task[t].agent, task[t].roster)
    BY <2>1, <2>3, <2>4 DEF FoundOK
  <2> HIDE DEF u
  <2>6. WithUpdate(t, u) \in Activity /\ TaskOK(WithUpdate(t, u))
    BY <2>2, <2>4, <2>5, WithUpdateOK
  <2>7. task' = [task EXCEPT ![t] = WithUpdate(t, u)]
    BY <2>1 DEF u
  <2> QED
    BY <1>6, <2>2, <2>6, <2>7, ReadingStep DEF ReadFails
<1>7. CASE ReadPanics(t)
  <2>1. /\ task[t].at = "read" /\ changes' \in 0 .. MaxChange
        /\ task' = [task EXCEPT ![t] = Onward(t)]
    BY <1>0, <1>7 DEF ReadPanics, Happens
  <2>2. Onward(t) \in Activity /\ TaskOK(Onward(t))
    BY <2>1, OnwardOK
  <2> QED
    BY <1>7, <2>1, <2>2, ReadingStep DEF ReadPanics
<1> QED
  BY <1>1, <1>2, <1>5, <1>6, <1>7

\* The entry a commit makes when neither the rows nor the entry moved.
LEMMA CommittedOK ==
  ASSUME IInv, NEW t \in Task, task[t].at = "commit", ~Moved(t),
         NEW a, a = task[t].agent, NEW u, u = task[t].update,
         NEW e, e = Committed(a, task[t].seen, u), e # None
  PROVE  /\ a \in roster /\ e \in Entry /\ EntryOK(e)
         /\ Owner[e.file] \notin roster \ {a}
<1>1. task[t] \in Activity /\ TaskOK(task[t])
  BY DEF IInv, TypeOK
<1>2. a \in Agent /\ u \in Update /\ task[t].seen \in Seen
  BY <1>1 DEF Activity, Idle
<1>3. a \in roster /\ task[t].roster = roster /\ Snapshot(a) = task[t].seen
  BY <1>1 DEF TaskOK, Moved
<1>4. /\ UpdateOK(u, task[t].seen) /\ FoundOK(u.file, a, roster)
      /\ u.ok => u.file # None
  BY <1>1, <1>3 DEF TaskOK
<1>5. /\ EntryOK(cache[a]) /\ cache[a] \in Entry \cup {None}
      /\ cache[a] # None => Owner[cache[a].file] \notin roster \ {a}
  BY <1>2, <1>3 DEF IInv, TypeOK, NoBorrowing
<1>6. CASE ~u.ok
  BY <1>3, <1>5, <1>6 DEF Committed
<1>7. CASE u.ok
  <2>1. u.file \in File /\ u.offset \in Nat /\ u.events \in Seq(Event)
    BY <1>2, <1>4, <1>7 DEF Update
  <2> DEFINE new == Snapshot(a).file # u.file \/ u.reset
             ev == IF new THEN u.events ELSE cache[a].events \o u.events
  <2>2. e = [file |-> u.file, offset |-> u.offset, events |-> ev]
    BY <1>4, <1>7 DEF Committed
  <2>3. ~new => /\ cache[a] # None
                /\ cache[a] \in Entry /\ cache[a].file = u.file
                /\ task[t].seen.file = u.file
                /\ cache[a].offset = task[t].seen.offset
    BY <1>3, <1>4, <1>5, <1>7 DEF Snapshot
  <2>4. ~new => cache[a].events \in Seq(Event) /\ cache[a].offset \in Nat
    BY <2>3 DEF Entry
  <2>5. ev \in Seq(Event)
    BY <2>1, <2>4, ConcatProperties
  <2>6. ASSUME u.file \notin rewound
        PROVE  u.offset <= Len(log[u.file]) /\ ev = SubSeq(log[u.file], 1, u.offset)
    <3>1. /\ ~u.reset /\ From(u, task[t].seen) <= u.offset
          /\ u.offset <= Len(log[u.file])
          /\ u.events = SubSeq(log[u.file], From(u, task[t].seen) + 1, u.offset)
      BY <1>4, <1>7, <2>6 DEF UpdateOK
    <3>2. CASE new
      <4>1. From(u, task[t].seen) = 0
        BY <1>3, <3>1, <3>2 DEF From
      <4>2. From(u, task[t].seen) + 1 = 1
        BY <4>1
      <4>3. ev = u.events
        BY <3>2
      <4> QED
        BY <3>1, <4>2, <4>3
    <3>3. CASE ~new
      <4>1. From(u, task[t].seen) = cache[a].offset
        BY <2>3, <3>3 DEF From
      <4>2. cache[a].events = SubSeq(log[u.file], 1, cache[a].offset)
        BY <1>5, <2>3, <2>6, <3>3 DEF EntryOK
      <4>3. log[u.file] \in Seq(Event) /\ Len(log[u.file]) \in Nat
        BY <2>1, LenProperties DEF IInv, TypeOK
      <4>4. /\ cache[a].offset \in (1 - 1) .. Len(log[u.file])
            /\ u.offset \in cache[a].offset .. Len(log[u.file])
            /\ 1 \in 1 .. Len(log[u.file]) + 1
        <5>1. cache[a].offset \in Nat /\ cache[a].offset <= u.offset
          BY <2>4, <3>1, <3>3, <4>1
        <5>2. u.offset \in Nat /\ u.offset <= Len(log[u.file])
          BY <2>1, <3>1
        <5> HIDE DEF new
        <5> QED
          BY <4>3, <5>1, <5>2
      <4>5. SubSeq(log[u.file], 1, cache[a].offset)
              \o SubSeq(log[u.file], cache[a].offset + 1, u.offset)
            = SubSeq(log[u.file], 1, u.offset)
        BY <4>3, <4>4, ConcatAdjacentSubSeq
      <4>6. ev = cache[a].events \o u.events
        BY <3>3
      <4> QED
        BY <3>1, <4>1, <4>2, <4>5, <4>6
    <3> QED
      BY <3>2, <3>3
  <2> HIDE DEF ev
  <2>7. e \in Entry
    BY <2>1, <2>2, <2>5 DEF Entry
  <2>8. EntryOK(e)
    BY <1>4, <2>1, <2>2, <2>6, TailAssumption DEF EntryOK, FoundOK
  <2>9. Owner[e.file] \notin roster \ {a}
    BY <1>4, <1>7, <2>2 DEF FoundOK
  <2> QED
    BY <1>3, <2>7, <2>8, <2>9
<1> QED
  BY <1>2, <1>6, <1>7 DEF Update

LEMMA CommitStep ==
  ASSUME IInv, NEW t \in Task, Commit(t)
  PROVE  IInv'
<1>1. /\ task[t].at = "commit" /\ task' = [task EXCEPT ![t] = Onward(t)]
      /\ UNCHANGED <<rows, disk, changes>>
  BY DEF Commit
<1>2. Onward(t) \in Activity /\ TaskOK(Onward(t))
  BY <1>1, OnwardOK
<1>3. CASE Moved(t)
  <2>1. UNCHANGED <<rows, disk, cache>> /\ changes' \in 0 .. MaxChange
    BY <1>1, <1>3 DEF Commit, IInv, TypeOK
  <2> QED
    BY <1>1, <1>2, <2>1, ReadingStep
<1>4. CASE ~Moved(t)
  <2> DEFINE a == task[t].agent
             e == Committed(a, task[t].seen, task[t].update)
  <2>1. cache' = [cache EXCEPT ![a] = e]
    BY <1>4 DEF Commit
  <2>2. e # None => /\ a \in roster /\ e \in Entry /\ EntryOK(e)
                    /\ Owner[e.file] \notin roster \ {a}
    BY <1>1, <1>4, CommittedOK
  <2> HIDE DEF a, e
  <2>3. cache' \in [Agent -> Entry \cup {None}]
    BY <2>1, <2>2 DEF IInv, TypeOK
  <2>4. TypeOK'
    BY <1>1, <1>2, <2>3 DEF IInv, TypeOK, rows, disk
  <2>5. \A b \in Agent : cache'[b] = cache[b] \/ (b = a /\ cache'[b] = e)
    BY <2>1 DEF IInv, TypeOK
  <2>6. \A b \in Agent : EntryOK(cache[b])'
    <3>1. ASSUME NEW b \in Agent
          PROVE  EntryOK(cache'[b])
      BY <2>2, <2>5 DEF IInv, EntryOK
    <3> QED
      BY <1>1, <3>1 DEF EntryOK, Known, rows, disk
  <2>7. \A b \in Agent : cache'[b] # None => b \in roster' \cup gone'
    BY <1>1, <2>2, <2>5 DEF IInv, rows
  <2>8. NoBorrowing'
    BY <1>1, <2>2, <2>5 DEF IInv, TypeOK, NoBorrowing, rows
  <2>9. \A u \in Task : TaskOK(task[u])'
    <3>1. \A u \in Task : TaskOK(task'[u])
      BY <1>1, <1>2 DEF IInv, TypeOK
    <3> QED
      BY <1>1, <3>1
      DEF TaskOK, PinsOwn, SeenOK, UpdateOK, From, FoundOK, Known, rows, disk
  <2>10. PinsOwn(pin') /\ \A f \in File : log'[f] # <<>> => Known(f)'
    BY <1>1 DEF IInv, PinsOwn, Known, rows, disk
  <2> QED
    BY <2>4, <2>6, <2>7, <2>8, <2>9, <2>10 DEF IInv, PinsOwn
<1> QED
  BY <1>3, <1>4

LEMMA RefreshStep ==
  ASSUME IInv, Refresh
  PROVE  IInv'
<1>1. /\ cache' = [a \in Agent |-> IF a \in roster THEN cache[a] ELSE None]
      /\ UNCHANGED <<rows, disk, task, changes>>
  BY DEF Refresh
<1>2. TypeOK'
  BY <1>1 DEF IInv, TypeOK, rows, disk
<1>3. \A a \in Agent : cache'[a] = cache[a] \/ cache'[a] = None
  BY <1>1
<1>4. \A a \in Agent : EntryOK(cache[a])'
  BY <1>1, <1>3 DEF IInv, EntryOK, Known, rows, disk
<1>5. NoBorrowing'
  BY <1>1, <1>3 DEF IInv, TypeOK, NoBorrowing, rows
<1>6. \A u \in Task : TaskOK(task[u])'
  BY <1>1 DEF IInv, TaskOK, PinsOwn, SeenOK, UpdateOK, From, FoundOK, Known, rows, disk
<1>7. /\ PinsOwn(pin') /\ \A f \in File : log'[f] # <<>> => Known(f)'
      /\ \A a \in Agent : cache'[a] # None => a \in roster' \cup gone'
  BY <1>1, <1>3 DEF IInv, PinsOwn, Known, rows, disk
<1> QED
  BY <1>2, <1>4, <1>5, <1>6, <1>7 DEF IInv, PinsOwn

LEMMA Inductive == IInv /\ [Next]_vars => IInv'
<1> SUFFICES ASSUME IInv, [Next]_vars PROVE IInv'
  OBVIOUS
<1>1. ASSUME NEW f \in File, Write(f) \/ (\E n \in 0 .. MaxChange : Rewind(f, n))
      PROVE  IInv'
  BY <1>1, EnvironmentStep
<1>2. ASSUME NEW f \in File, NEW a \in Agent, set_instance_agent_session(a, f)
      PROVE  IInv'
  BY <1>2, EnvironmentStep
<1>3. ASSUME NEW a \in Agent, add_workspace_agent(a) \/ remove_workspace_agent(a)
      PROVE  IInv'
  BY <1>3, EnvironmentStep
<1>4. ASSUME NEW t \in Task, Begin(t) \/ Step(t) \/ ReadFails(t) \/ ReadPanics(t)
      PROVE  IInv'
  BY <1>4, TailStep, CommitStep DEF Step
<1>5. CASE Refresh
  BY <1>5, RefreshStep
<1>6. CASE UNCHANGED vars
  <2>1. UNCHANGED <<rows, disk, cache, task, changes>>
    BY <1>6 DEF vars
  <2>2. TypeOK'
    BY <2>1 DEF IInv, TypeOK, rows, disk
  <2> QED
    BY <2>1, <2>2
    DEF IInv, PinsOwn, EntryOK, NoBorrowing, TaskOK, SeenOK, UpdateOK, From, FoundOK, Known,
        rows, disk
<1> QED
  BY <1>1, <1>2, <1>3, <1>4, <1>5, <1>6 DEF Next

\* The invariant holds in every state: what the rows, the entries and the tails
\* agree on.
THEOREM TailInvariant == Spec => []IInv
<1>1. Init => IInv
  BY Initially
<1>2. IInv /\ [Next]_vars => IInv'
  BY Inductive
<1> QED
  BY <1>1, <1>2, PTL DEF Spec

\* Every variable has its type.
THEOREM TailTypeCorrect == Spec => []TypeOK
<1>1. IInv => TypeOK
  BY DEF IInv
<1> QED
  BY <1>1, TailInvariant, PTL

\* However many tails overlap, an entry counts exactly the events up to its
\* offset (tail_workspace_events' concurrent-tail safety).
THEOREM EventsCountedOnce == Spec => []CountedOnce
<1>1. IInv => CountedOnce
  BY DEF IInv, CountedOnce, EntryOK
<1> QED
  BY <1>1, TailInvariant, PTL

\* No agent is shown with another's session ("A newer recorded identity must
\* never receive an older session's stats").
THEOREM NothingBorrowed == Spec => []NoBorrowing
<1>1. IInv => NoBorrowing
  BY DEF IInv
<1> QED
  BY <1>1, TailInvariant, PTL
=============================================================================
