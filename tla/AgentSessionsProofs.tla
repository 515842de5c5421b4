------------------------ MODULE AgentSessionsProofs ------------------------
(***************************************************************************)
(* Which session an agent has, for any workspaces, agents and names: the   *)
(* stored names are distinct because a name carries the agent's ordinal,   *)
(* and the id of its workspace when it was disambiguated; and a workspace  *)
(* that is not shared stores none, so that what it starts directly runs    *)
(* nowhere else.                                                           *)
(***************************************************************************)
EXTENDS AgentSessions, TLAPS

\* What a name says of the agent: 0 for a primary, the ordinal of a peer.
Number(i) == IF i \in Workspace THEN 0 ELSE ordinal[i]

\* An id that was not handed out has left no trace.
Unborn ==
  \A i \in Instance : row[i] = "absent" =>
    /\ i \in Peer
    /\ session_ref[i] = None /\ entry[i] = None
    /\ \A t \in tmux : t.agent # i

\* Every agent has a workspace, which is its own for a primary; the agents of
\* a workspace have different numbers.
Numbers ==
  /\ \A i \in Workspace : ws[i] = i
  /\ \A i \in Instance : row[i] # "absent" => ws[i] \in Workspace
  /\ \A i \in Live \ Workspace : ordinal[i] > 0
  /\ \A i, j \in Live : i # j /\ ws[i] = ws[j] => Number(i) # Number(j)

\* What a stored name says of its agent.
Shapes ==
  \A i \in Live : session_ref[i] # None =>
    /\ session_ref[i].ordinal = Number(i)
    /\ session_ref[i].for \in {None, ws[i]}

\* Where the entry of a settled agent leads: to its stored name, if it has
\* one; and nowhere in tmux when the agent is a child of the dashboard.
Entries ==
  \A i \in Live : Settled(i) /\ entry[i] # None =>
    /\ entry[i].tmux # None => session_ref[i] \in {None, entry[i].tmux}
    /\ entry[i].tmux = None => \A t \in tmux : t.agent # i

\* The dashboard knows the flag of every settled workspace, and one that is
\* not shared has no stored name, save while it is being unshared.
Flags ==
  /\ \A w \in Workspace \ unsettled : w \in shared <=> w \in seen.shared
  /\ \A i \in Live :
       Settled(i) /\ ws[i] \notin seen.shared /\ ~(job.kind = "unshare" /\ job.ws = ws[i])
       => session_ref[i] = None

\* What a share or an unshare is about.
Jobs ==
  /\ job.kind # "idle" => job.ws \in Workspace
  /\ job.kind \in {"share", "force"} => job.ws \in seen.shared
  /\ \A i \in job.all : row[i] # "absent" /\ ws[i] = job.ws
  /\ job.todo \subseteq job.all

\* What an unshare has done and has still to do.
Unsharing ==
  job.kind = "unshare" =>
    /\ job.ws \notin seen.shared
    /\ job.todo \subseteq job.running
    /\ \A i \in job.todo : entry[i] # None
    /\ \A i \in Of(job.ws) \ job.all : session_ref[i] = None
    /\ \A i \in (job.running \ job.todo) \cap Live :
         Settled(i) => \A t \in tmux : t.agent # i

\* What a step may attach a client to.
Attaches ==
  \A i \in Instance : \A j \in Attached(i) : j = i \/ j \notin Live \/ ~Settled(j)

IInv ==
  /\ TypeOK /\ Unborn /\ Numbers /\ Shapes /\ RefsDistinct /\ RefFindsAgent
  /\ Entries /\ Flags /\ Jobs /\ Unsharing

-----------------------------------------------------------------------------
(* What the operators of the module return.                                *)

\* A client keeps its session, and runs only if it did and the session lives.
LEMMA ClientsFacts ==
  ASSUME NEW entries \in [Instance -> Entry \cup {None}], NEW sessions
  PROVE  /\ Clients(entries, sessions) \in [Instance -> Entry \cup {None}]
         /\ \A i \in Instance :
              /\ Clients(entries, sessions)[i] = None <=> entries[i] = None
              /\ entries[i] # None => Clients(entries, sessions)[i].tmux = entries[i].tmux
              /\ Clients(entries, sessions)[i] # None /\ Clients(entries, sessions)[i].running
                 => /\ Clients(entries, sessions)[i] = entries[i]
                    /\ entries[i].tmux # None => Alive(entries[i].tmux, sessions)
<1> DEFINE c == Clients(entries, sessions)
<1>1. ASSUME NEW i \in Instance, entries[i] = None
      PROVE  c[i] = None
  BY <1>1 DEF Clients
<1>2. ASSUME NEW i \in Instance, entries[i] # None
      PROVE  /\ c[i] \in Entry /\ c[i].tmux = entries[i].tmux
             /\ c[i].running => c[i] = entries[i] /\
                  (entries[i].tmux # None => Alive(entries[i].tmux, sessions))
  <2>1. entries[i] \in Entry
    BY <1>2
  <2>2. CASE entries[i].tmux # None /\ ~Alive(entries[i].tmux, sessions)
    <3>1. c[i] = [entries[i] EXCEPT !.running = FALSE]
      BY <1>2, <2>2 DEF Clients
    <3> QED BY <3>1, <2>1 DEF Entry
  <2>3. CASE ~(entries[i].tmux # None /\ ~Alive(entries[i].tmux, sessions))
    <3>1. c[i] = entries[i]
      BY <1>2, <2>3 DEF Clients
    <3> QED BY <3>1, <2>1, <2>3
  <2> QED BY <2>2, <2>3
<1>3. None \notin Entry
  BY SessionsAssumption
<1>4. c = [i \in Instance |-> c[i]]
  BY DEF Clients
<1> HIDE DEF c
<1>5. \A i \in Instance : c[i] \in Entry \cup {None}
  BY <1>1, <1>2
<1>6. c \in [Instance -> Entry \cup {None}]
  BY <1>4, <1>5
<1>7. \A i \in Instance :
        /\ c[i] = None <=> entries[i] = None
        /\ entries[i] # None => c[i].tmux = entries[i].tmux
        /\ c[i] # None /\ c[i].running
           => c[i] = entries[i] /\ (entries[i].tmux # None => Alive(entries[i].tmux, sessions))
  BY <1>1, <1>2, <1>3
<1> QED BY <1>6, <1>7 DEF c

\* Dropping entries leaves the others.
LEMMA WithoutFacts ==
  ASSUME TypeOK, NEW K
  PROVE  /\ Without(K) \in [Instance -> Entry \cup {None}]
         /\ \A i \in Instance : Without(K)[i] = IF i \in K THEN None ELSE entry[i]
BY DEF Without, TypeOK

\* What is killed with the entries of K: the sessions they lead to.
LEMMA KilledFacts ==
  ASSUME NEW K, NEW sessions
  PROVE  /\ Killed(K, sessions) \subseteq sessions
         /\ \A t \in sessions : \A i \in K :
              entry[i] # None /\ entry[i].tmux = t.name => t \notin Killed(K, sessions)
BY DEF Killed

\* The name a spawn of agent i uses is its stored one, if there is one, and
\* never the stored name of another agent: one that is taken is told apart by
\* the id of the workspace, in which no other agent has the number of i.
LEMMA NameFacts ==
  ASSUME TypeOK, Unborn, Numbers, Shapes, RefsDistinct,
         NEW i \in Instance, NEW w \in Workspace, NEW o \in 0 .. MaxOrdinal,
         i \in Live => ws[i] = w /\ ordinal[i] = o,
         i \notin Live => row[i] = "absent",
         i \in Workspace \/ o > 0,
         \A j \in Live \ {i} : ws[j] = w /\ i \notin Workspace => Number(j) # o
  PROVE  /\ tmux_name_for(i, w, o) \in Name
         /\ tmux_name_for(i, w, o).ordinal = IF i \in Workspace THEN 0 ELSE o
         /\ tmux_name_for(i, w, o).for \in {None, w}
         /\ session_ref[i] # None => tmux_name_for(i, w, o) = session_ref[i]
         /\ \A j \in Live \ {i} : session_ref[j] # tmux_name_for(i, w, o)
<1> DEFINE n == tmux_name_for(i, w, o)
           num == IF i \in Workspace THEN 0 ELSE o
           d == Derived(i, w, o)
<1>1. CASE session_ref[i] # None
  <2>1. n = session_ref[i]
    BY <1>1 DEF tmux_name_for
  <2>2. i \in Live
    BY <1>1 DEF Unborn
  <2>3. n \in Name
    BY <2>1, <1>1 DEF TypeOK
  <2>4. n.ordinal = num /\ n.for \in {None, w}
    BY <1>1, <2>1, <2>2 DEF Shapes, Number
  <2>5. \A j \in Live \ {i} : session_ref[j] # n
    BY <1>1, <2>1, <2>2 DEF RefsDistinct
  <2> QED BY <2>1, <2>3, <2>4, <2>5
<1>2. CASE session_ref[i] = None
  <2>1. d = [slug |-> seen.slug[w], ordinal |-> num, for |-> None]
    BY DEF Derived
  <2>2. seen.slug[w] \in Slug
    BY DEF TypeOK
  <2>3. num \in 0 .. MaxOrdinal
    BY SessionsAssumption
  <2>4. d \in Name
    BY <2>1, <2>2, <2>3 DEF Name
  <2>5. CASE ~session_ref_in_use(d, i)
    <3>1. n = d
      BY <1>2, <2>5 DEF tmux_name_for
    <3>2. \A j \in Live \ {i} : session_ref[j] # d
      BY <2>5 DEF session_ref_in_use
    <3> QED BY <1>2, <2>1, <2>4, <3>1, <3>2
  <2>6. CASE session_ref_in_use(d, i)
    <3>1. n = [d EXCEPT !.for = w]
      BY <1>2, <2>6 DEF tmux_name_for
    <3>2. n = [slug |-> seen.slug[w], ordinal |-> num, for |-> w]
      BY <2>1, <3>1
    <3>3. n \in Name
      BY <3>2, <2>2, <2>3 DEF Name
    <3>4. ASSUME NEW j \in Live \ {i}, session_ref[j] = n
          PROVE  FALSE
      <4>1. session_ref[j] # None
        BY <3>3, <3>4, SessionsAssumption
      <4>2. Number(j) = num /\ ws[j] = w
        <5>1. session_ref[j].ordinal = Number(j) /\ session_ref[j].for \in {None, ws[j]}
          BY <4>1 DEF Shapes
        <5>2. session_ref[j].ordinal = num /\ session_ref[j].for = w
          BY <3>2, <3>4
        <5>3. w # None
          BY SessionsAssumption DEF Instance
        <5> QED BY <5>1, <5>2, <5>3
      <4>3. CASE i \in Workspace
        <5>0. i \in Live
          BY <4>3, SessionsAssumption DEF Unborn
        <5>1. j \notin Workspace /\ ordinal[j] > 0
          BY <5>0, <4>2, <4>3 DEF Numbers
        <5> QED BY <5>1, <4>2, <4>3 DEF Number
      <4>4. CASE i \notin Workspace
        BY <4>2, <4>4
      <4> QED BY <4>3, <4>4
    <3> QED BY <1>2, <3>2, <3>3, <3>4
  <2> QED BY <2>5, <2>6
<1> QED BY <1>1, <1>2

-----------------------------------------------------------------------------
(* A spawn keeps what relates names, sessions and entries.                 *)

\* What the spawn of agent i of workspace w leaves.
Spawned(i, w, entries, sessions) ==
  /\ session_ref' \in [Instance -> Name \cup {None}]
  /\ tmux' \subseteq Session /\ lost' \subseteq Instance
  /\ entry' \in [Instance -> Entry \cup {None}]
  /\ \A j \in Instance : Runs(j)' /\ InTmux(j)' => Alive(entry'[j].tmux, tmux')
  /\ Unborn' /\ Shapes' /\ RefsDistinct' /\ RefFindsAgent' /\ Entries'
  /\ \A j \in Live' :
       Settled(j)' /\ ws'[j] \notin seen.shared
         /\ ~(job.kind = "unshare" /\ job.ws = ws'[j])
       => session_ref'[j] = None
  /\ \A j \in Instance \ {i} :
       session_ref'[j] = session_ref[j] /\ (entry'[j] = None <=> entries[j] = None)
  /\ \A t \in tmux' : t \in sessions \/ (w \in seen.shared /\ t.agent = i)
  /\ \A j \in Instance : Settled(j)' /\ row[j] # "absent" => Settled(j)
  /\ Attaches

LEMMA Spawning ==
  ASSUME IInv,
         NEW i \in Instance, NEW w \in Workspace, NEW o \in 0 .. MaxOrdinal,
         NEW entries \in [Instance -> Entry \cup {None}],
         NEW sessions \in SUBSET tmux, NEW dead, NEW stored \in BOOLEAN,
         Spawn(i, w, o, entries, sessions, dead, stored),
         \A j \in Instance : entries[j] \in {None, entry[j]},
         i \in Live => ws[i] = w /\ ordinal[i] = o,
         i \notin Live => row[i] = "absent",
         i \in Workspace \/ o > 0,
         \A j \in Live \ {i} : ws[j] = w /\ i \notin Workspace => Number(j) # o,
         row'[i] = "live" /\ ws'[i] = w /\ ordinal'[i] = o,
         \A j \in Instance \ {i} :
           row'[j] = row[j] /\ ws'[j] = ws[j] /\ ordinal'[j] = ordinal[j],
         unsettled' = unsettled,
         w \notin seen.shared /\ i \notin lost /\ w \notin unsettled
           => \A t \in sessions : t.agent # i
  PROVE  Spawned(i, w, entries, sessions)
<1> DEFINE n == tmux_name_for(i, w, o)
           in == w \in seen.shared
           num == IF i \in Workspace THEN 0 ELSE o
           new == [tmux |-> IF in THEN n ELSE None, running |-> TRUE]
           begun == [entries EXCEPT ![i] = new]
<1>1. TypeOK /\ Unborn /\ Numbers /\ Shapes /\ RefsDistinct /\ RefFindsAgent /\ Entries /\ Flags
  BY DEF IInv
<1>2. /\ n \in Name /\ n.ordinal = num /\ n.for \in {None, w}
      /\ session_ref[i] # None => n = session_ref[i]
      /\ \A j \in Live \ {i} : session_ref[j] # n
  BY <1>1, NameFacts
<1> DEFINE started == IF in /\ ~Alive(n, sessions)
                      THEN sessions \cup {[name |-> n, agent |-> i]} ELSE sessions
<1>3. /\ tmux' = Killed(dead, started)
      /\ session_ref' = IF in /\ stored THEN [session_ref EXCEPT ![i] = n] ELSE session_ref
      /\ lost' = IF in /\ ~stored /\ session_ref[i] # n THEN lost \cup {i} ELSE lost
      /\ entry' = Clients(begun, tmux')
  BY DEF Spawn
<1>4. n # None /\ None \notin Entry
  BY <1>2, SessionsAssumption
<1> HIDE DEF n
<1>5. new \in Entry /\ new # None /\ new.tmux = (IF in THEN n ELSE None)
  <2>1. (IF in THEN n ELSE None) \in Name \cup {None}
    BY <1>2
  <2>2. new \in Entry
    BY <2>1 DEF Entry
  <2>3. new.tmux = (IF in THEN n ELSE None)
    OBVIOUS
  <2> QED BY <1>4, <2>2, <2>3
<1> HIDE DEF new
<1>6. begun \in [Instance -> Entry \cup {None}] /\ begun[i] = new
      /\ \A j \in Instance \ {i} : begun[j] = entries[j]
  BY <1>5
<1> HIDE DEF begun
<1>7. /\ entry' \in [Instance -> Entry \cup {None}]
      /\ \A j \in Instance :
           /\ entry'[j] = None <=> begun[j] = None
           /\ begun[j] # None => entry'[j].tmux = begun[j].tmux
           /\ entry'[j] # None /\ entry'[j].running
              => (begun[j].tmux # None => Alive(begun[j].tmux, tmux'))
  BY <1>3, <1>6, ClientsFacts
<1>8. entry'[i] # None /\ entry'[i].tmux = IF in THEN n ELSE None
  BY <1>5, <1>6, <1>7
<1>9. ASSUME NEW j \in Instance \ {i}, entry'[j] # None
      PROVE  entry[j] # None /\ entry'[j].tmux = entry[j].tmux
  BY <1>6, <1>7, <1>9
<1>10. /\ \A j \in Instance \ {i} : session_ref'[j] = session_ref[j]
       /\ session_ref'[i] \in {session_ref[i], n}
       /\ session_ref' \in [Instance -> Name \cup {None}]
  BY <1>1, <1>2, <1>3 DEF TypeOK
<1>11. /\ \A t \in tmux' : t \in sessions \/ (in /\ t.name = n /\ t.agent = i)
       /\ tmux' \subseteq Session
  <2>1. sessions \subseteq Session
    BY <1>1 DEF TypeOK
  <2>2. [name |-> n, agent |-> i] \in Session
    BY <1>2 DEF Session
  <2>3. tmux' \subseteq started
    BY <1>3, KilledFacts
  <2> QED BY <2>1, <2>2, <2>3
<1>12. lost \subseteq lost' /\ lost' \subseteq Instance
  BY <1>1, <1>3 DEF TypeOK
<1>13. Live' = Live \cup {i}
  BY DEF Live
<1>14. \A j \in Instance \ {i} : Settled(j)' => Settled(j)
  BY <1>12 DEF Settled
<1>15. Settled(i)' => i \notin lost /\ w \notin unsettled /\ i \notin lost'
  BY <1>12 DEF Settled
<1>16. i \notin Live => session_ref[i] = None /\ \A t \in tmux : t.agent # i
  BY <1>1 DEF Unborn
<1>17. \A j \in Instance : Runs(j)' /\ InTmux(j)' => Alive(entry'[j].tmux, tmux')
  BY <1>7 DEF Runs, InTmux
<1>18. Unborn'
  <2> SUFFICES ASSUME NEW j \in Instance, row'[j] = "absent"
               PROVE  /\ j \in Peer /\ session_ref'[j] = None /\ entry'[j] = None
                      /\ \A t \in tmux' : t.agent # j
    BY DEF Unborn
  <2>1. j # i /\ row[j] = "absent"
    OBVIOUS
  <2>2. j \in Peer /\ session_ref[j] = None /\ entry[j] = None /\ \A t \in tmux : t.agent # j
    BY <1>1, <2>1 DEF Unborn
  <2>3. begun[j] = None
    BY <1>6, <2>1, <2>2
  <2> QED BY <1>7, <1>10, <1>11, <2>1, <2>2, <2>3
<1>19. \A j \in Instance \ {i} : Number(j)' = Number(j)
  BY DEF Number
<1>20. Number(i)' = num
  BY DEF Number
<1>21. Shapes'
  <2> SUFFICES ASSUME NEW j \in Live', session_ref'[j] # None
               PROVE  /\ session_ref'[j].ordinal = Number(j)'
                      /\ session_ref'[j].for \in {None, ws'[j]}
    BY DEF Shapes
  <2>1. CASE j = i
    <3>1. session_ref'[i] = n
      BY <1>2, <1>10, <2>1
    <3> QED BY <1>2, <1>20, <2>1, <3>1
  <2>2. CASE j # i
    <3>1. j \in Live /\ session_ref[j] # None /\ session_ref'[j] = session_ref[j] /\ ws'[j] = ws[j]
      BY <1>10, <1>13, <2>2 DEF Live
    <3>2. Number(j)' = Number(j)
      BY <1>19, <3>1, <2>2 DEF Live
    <3> QED BY <1>1, <3>1, <3>2 DEF Shapes
  <2> QED BY <2>1, <2>2
<1>22. RefsDistinct'
  <2> SUFFICES ASSUME NEW j \in Live', NEW k \in Live', j # k, session_ref'[j] # None,
                      session_ref'[j] = session_ref'[k]
               PROVE  FALSE
    BY DEF RefsDistinct
  <2>1. CASE j # i /\ k # i
    <3>1. session_ref'[j] = session_ref[j] /\ session_ref'[k] = session_ref[k] /\ j \in Live /\ k \in Live
      BY <1>10, <1>13, <2>1 DEF Live
    <3> QED BY <1>1, <3>1 DEF RefsDistinct
  <2>2. CASE j = i
    <3>1. session_ref'[i] = n /\ k \in Live \ {i} /\ session_ref'[k] = session_ref[k]
      BY <1>2, <1>10, <1>13, <2>2 DEF Live
    <3> QED BY <1>2, <2>2, <3>1
  <2>3. CASE k = i
    <3>1. session_ref'[i] = n /\ j \in Live \ {i} /\ session_ref'[j] = session_ref[j]
      BY <1>2, <1>10, <1>13, <2>3 DEF Live
    <3> QED BY <1>2, <2>3, <3>1
  <2> QED BY <2>1, <2>2, <2>3
<1>23. RefFindsAgent'
  <2> SUFFICES ASSUME NEW t \in tmux', t.agent \in Live', Settled(t.agent)'
               PROVE  session_ref'[t.agent] = t.name
    BY DEF RefFindsAgent
  <2>1. CASE t \in sessions /\ t.agent # i
    <3>1. t.agent \in Live /\ Settled(t.agent) /\ t \in tmux
      BY <1>13, <1>14, <2>1 DEF Live
    <3>2. session_ref[t.agent] = t.name
      BY <1>1, <3>1 DEF RefFindsAgent
    <3> QED BY <1>10, <2>1, <3>1, <3>2 DEF Live
  <2>2. CASE t \in sessions /\ t.agent = i
    <3>1. i \in Live
      BY <1>16, <2>2
    <3>2. Settled(i)
      BY <1>15, <2>2, <3>1 DEF Settled
    <3>3. session_ref[i] = t.name /\ t.name # None
      <4>1. t \in Session
        BY <1>11
      <4>2. t.name \in Name
        BY <4>1 DEF Session
      <4> QED BY <1>1, <2>2, <3>1, <3>2, <4>2, SessionsAssumption DEF RefFindsAgent
    <3> QED BY <1>2, <1>10, <2>2, <3>3
  <2>3. CASE in /\ t.name = n /\ t.agent = i
    <3>1. i \notin lost'
      BY <1>15, <2>3
    <3>2. session_ref'[i] = n
      BY <1>1, <1>3, <2>3, <3>1 DEF TypeOK
    <3> QED BY <2>3, <3>2
  <2> QED BY <1>11, <2>1, <2>2, <2>3
<1>24. Entries'
  <2> SUFFICES ASSUME NEW j \in Live', Settled(j)', entry'[j] # None
               PROVE  /\ entry'[j].tmux # None => session_ref'[j] \in {None, entry'[j].tmux}
                      /\ entry'[j].tmux = None => \A t \in tmux' : t.agent # j
    BY DEF Entries
  <2>1. CASE j # i
    <3>1. j \in Live /\ j \in Instance \ {i} /\ Settled(j)
      BY <1>13, <1>14, <2>1 DEF Live
    <3>2. entry[j] # None /\ entry'[j].tmux = entry[j].tmux
      BY <1>9, <3>1
    <3>3. \A t \in tmux' : t.agent = j => t \in tmux
      BY <1>11, <2>1
    <3> QED BY <1>1, <1>10, <3>1, <3>2, <3>3 DEF Entries
  <2>2. CASE j = i /\ in
    <3>1. session_ref'[i] = n
      BY <1>1, <1>3, <1>15, <2>2 DEF TypeOK
    <3> QED BY <1>4, <1>8, <2>2, <3>1
  <2>3. CASE j = i /\ ~in
    <3>1. \A t \in sessions : t.agent # i
      BY <1>15, <2>3
    <3>2. entry'[i].tmux = None
      BY <1>8, <2>3
    <3> QED BY <1>11, <2>3, <3>1, <3>2
  <2> QED BY <2>1, <2>2, <2>3
<1>25. ASSUME NEW j \in Live', Settled(j)', ws'[j] \notin seen.shared,
              ~(job.kind = "unshare" /\ job.ws = ws'[j])
       PROVE  session_ref'[j] = None
  <2>1. CASE j # i
    <3>1. j \in Instance \ {i} /\ j \in Live
      BY <1>13, <2>1 DEF Live
    <3>2. Settled(j) /\ ws'[j] = ws[j] /\ session_ref'[j] = session_ref[j]
      BY <1>10, <1>14, <1>25, <3>1
    <3>3. ws[j] \notin seen.shared /\ ~(job.kind = "unshare" /\ job.ws = ws[j])
      BY <1>25, <3>2
    <3> QED BY <1>1, <3>1, <3>2, <3>3 DEF Flags
  <2>2. CASE j = i
    <3>1. session_ref'[i] = session_ref[i]
      BY <1>3, <1>25, <2>2
    <3>2. CASE i \in Live
      <4>1. Settled(i)
        BY <1>15, <1>25, <2>2, <3>2 DEF Settled
      <4> QED BY <1>1, <1>25, <2>2, <3>1, <3>2, <4>1 DEF Flags
    <3> QED BY <1>16, <2>2, <3>1, <3>2
  <2> QED BY <2>1, <2>2
<1>26. \A j \in Instance \ {i} :
         session_ref'[j] = session_ref[j] /\ (entry'[j] = None <=> entries[j] = None)
  BY <1>6, <1>7, <1>10
<1>27. \A j \in Instance : Settled(j)' /\ row[j] # "absent" => Settled(j)
  <2>1. i \in Live \/ row[i] = "absent"
    OBVIOUS
  <2>2. row[i] # "absent" => ws[i] = w
    BY <2>1
  <2> QED BY <1>14, <1>15, <2>2 DEF Settled
<1>28. Attaches
  <2> SUFFICES ASSUME NEW j \in Instance, NEW t \in tmux \cap tmux',
                      entry'[j] # entry[j], entry'[j] # None, entry'[j].tmux = t.name,
                      entry'[j].running, t.agent # j, t.agent \in Live, Settled(t.agent)
               PROVE  FALSE
    BY DEF Attaches, Attached
  <2>1. session_ref[t.agent] = t.name
    BY <1>1 DEF RefFindsAgent
  <2>2. entry'[j] = begun[j]
    BY <1>3, <1>6, ClientsFacts
  <2>3. CASE j = i
    <3>1. entry'[i].tmux = n \/ entry'[i].tmux = None
      BY <1>8
    <3>2. t.name # None
      <4>1. t \in Session
        BY <1>11
      <4>2. t.name \in Name
        BY <4>1 DEF Session
      <4> QED BY <4>2, SessionsAssumption
    <3> QED BY <1>2, <2>1, <2>3, <3>1, <3>2
  <2>4. CASE j # i
    BY <1>6, <2>2, <2>4
  <2> QED BY <2>3, <2>4
<1> QED BY <1>7, <1>10, <1>11, <1>12, <1>17, <1>18, <1>21, <1>22, <1>23, <1>24, <1>25, <1>26,
         <1>27, <1>28 DEF Spawned

-----------------------------------------------------------------------------
(* A step that starts nothing.                                             *)

\* Clients that remain when entries were dropped and sessions have ended.
LEMMA Remaining ==
  ASSUME IInv, NEW entries \in [Instance -> Entry \cup {None}],
         \A j \in Instance : entries[j] \in {None, entry[j]},
         entry' = Clients(entries, tmux')
  PROVE  /\ entry' \in [Instance -> Entry \cup {None}]
         /\ \A j \in Instance :
              /\ entry'[j] = None <=> entries[j] = None
              /\ entry'[j] # None => entry[j] # None /\ entry'[j].tmux = entry[j].tmux
              /\ entry'[j] # None /\ entry'[j].running => entry'[j] = entry[j]
              /\ Runs(j)' /\ InTmux(j)' => Alive(entry'[j].tmux, tmux')
<1>1. /\ entry' \in [Instance -> Entry \cup {None}]
      /\ \A j \in Instance :
           /\ entry'[j] = None <=> entries[j] = None
           /\ entries[j] # None => entry'[j].tmux = entries[j].tmux
           /\ entry'[j] # None /\ entry'[j].running
              => /\ entry'[j] = entries[j]
                 /\ entries[j].tmux # None => Alive(entries[j].tmux, tmux')
  BY ClientsFacts
<1>2. ASSUME NEW j \in Instance, entry'[j] # None
      PROVE  entry[j] # None /\ entries[j] = entry[j] /\ entry'[j].tmux = entry[j].tmux
  BY <1>1, <1>2
<1>3. \A j \in Instance : Runs(j)' /\ InTmux(j)' => Alive(entry'[j].tmux, tmux')
  BY <1>1, <1>2 DEF Runs, InTmux
<1>4. \A j \in Instance : entry'[j] # None /\ entry'[j].running => entry'[j] = entry[j]
  BY <1>1, <1>2
<1> QED BY <1>1, <1>2, <1>3, <1>4

\* Rows, names, sessions and clients may go, and nothing may come.
LEMMA Weaken ==
  ASSUME IInv,
         \A j \in Instance : row'[j] = row[j] \/ (row[j] = "live" /\ row'[j] = "gone"),
         ws' = ws, ordinal' = ordinal, lost \subseteq lost', unsettled \subseteq unsettled',
         tmux' \subseteq tmux,
         \A j \in Instance :
           /\ entry'[j] # None => entry[j] # None /\ entry'[j].tmux = entry[j].tmux
           /\ entry'[j] # None /\ entry'[j].running => entry'[j] = entry[j],
         \A j \in Instance :
           \/ session_ref'[j] = session_ref[j]
           \/ /\ session_ref'[j] = None
              /\ j \in Live /\ Settled(j) => \A t \in tmux' : t.agent # j
  PROVE  /\ Unborn' /\ Numbers' /\ Shapes' /\ RefsDistinct' /\ RefFindsAgent' /\ Entries'
         /\ Live' \subseteq Live
         /\ \A j \in Instance : Settled(j)' => Settled(j)
         /\ Attaches
<1>1. TypeOK /\ Unborn /\ Numbers /\ Shapes /\ RefsDistinct /\ RefFindsAgent /\ Entries
  BY DEF IInv
<1>2. Live' \subseteq Live
  BY DEF Live
<1>3. \A j \in Instance : Settled(j)' => Settled(j)
  BY DEF Settled
<1>4. \A j \in Instance : Number(j)' = Number(j)
  BY DEF Number
<1>5. \A j \in Instance : session_ref'[j] # None => session_ref'[j] = session_ref[j]
  OBVIOUS
<1>6. \A j \in Instance : j \in Live => j \in Instance
  OBVIOUS
<1>7. Unborn'
  <2> SUFFICES ASSUME NEW j \in Instance, row'[j] = "absent"
               PROVE  /\ j \in Peer /\ session_ref'[j] = None /\ entry'[j] = None
                      /\ \A t \in tmux' : t.agent # j
    BY DEF Unborn
  <2>1. row[j] = "absent"
    OBVIOUS
  <2> QED BY <1>1, <2>1 DEF Unborn
<1>8. Numbers'
  <2>1. \A i, j \in Live' : i # j /\ ws'[i] = ws'[j] => Number(i)' # Number(j)'
    <3> SUFFICES ASSUME NEW i \in Live', NEW j \in Live', i # j, ws'[i] = ws'[j]
                 PROVE  Number(i)' # Number(j)'
      OBVIOUS
    <3>1. i \in Live /\ j \in Live /\ i \in Instance /\ j \in Instance
      BY <1>2 DEF Live
    <3>2. Number(i) # Number(j)
      BY <1>1, <3>1 DEF Numbers
    <3> QED BY <1>4, <3>1, <3>2
  <2>2. \A i \in Workspace : ws'[i] = i
    BY <1>1 DEF Numbers
  <2>3. \A i \in Instance : row'[i] # "absent" => ws'[i] \in Workspace
    BY <1>1 DEF Numbers
  <2>4. \A i \in Live' \ Workspace : ordinal'[i] > 0
    BY <1>1, <1>2 DEF Numbers
  <2> QED BY <2>1, <2>2, <2>3, <2>4 DEF Numbers
<1>9. Shapes'
  <2> SUFFICES ASSUME NEW j \in Live', session_ref'[j] # None
               PROVE  /\ session_ref'[j].ordinal = Number(j)'
                      /\ session_ref'[j].for \in {None, ws'[j]}
    BY DEF Shapes
  <2>1. j \in Live /\ j \in Instance
    BY <1>2 DEF Live
  <2> QED BY <1>1, <1>4, <1>5, <2>1 DEF Shapes
<1>10. RefsDistinct'
  <2> SUFFICES ASSUME NEW i \in Live', NEW j \in Live', i # j, session_ref'[i] # None,
                      session_ref'[i] = session_ref'[j]
               PROVE  FALSE
    BY DEF RefsDistinct
  <2>1. i \in Live /\ j \in Live /\ i \in Instance /\ j \in Instance
    BY <1>2 DEF Live
  <2> QED BY <1>1, <1>5, <2>1 DEF RefsDistinct
<1>11. RefFindsAgent'
  <2> SUFFICES ASSUME NEW t \in tmux', t.agent \in Live', Settled(t.agent)'
               PROVE  session_ref'[t.agent] = t.name
    BY DEF RefFindsAgent
  <2>1. t.agent \in Live /\ t.agent \in Instance /\ t \in tmux
    BY <1>2 DEF Live
  <2>2. Settled(t.agent)
    BY <1>3, <2>1
  <2> QED BY <1>1, <2>1, <2>2 DEF RefFindsAgent
<1>12. Entries'
  <2> SUFFICES ASSUME NEW j \in Live', Settled(j)', entry'[j] # None
               PROVE  /\ entry'[j].tmux # None => session_ref'[j] \in {None, entry'[j].tmux}
                      /\ entry'[j].tmux = None => \A t \in tmux' : t.agent # j
    BY DEF Entries
  <2>1. j \in Live /\ j \in Instance
    BY <1>2 DEF Live
  <2>2. Settled(j) /\ entry[j] # None /\ entry'[j].tmux = entry[j].tmux
    BY <1>3, <2>1
  <2> QED BY <1>1, <1>5, <2>1, <2>2 DEF Entries
<1>13. Attaches
  <2> SUFFICES ASSUME NEW j \in Instance, entry'[j] # entry[j], entry'[j] # None,
                      entry'[j].running
               PROVE  FALSE
    BY DEF Attaches, Attached
  <2> QED OBVIOUS
<1> QED BY <1>2, <1>3, <1>7, <1>8, <1>9, <1>10, <1>11, <1>12, <1>13

\* What an unshare kills with the entry of an agent is all of it.
LEMMA UnshareKills ==
  ASSUME IInv, job.kind = "unshare", NEW i \in job.todo, i \in Live, Settled(i)
  PROVE  \A t \in Killed({i}, tmux) : t.agent # i
<1> SUFFICES ASSUME NEW t \in Killed({i}, tmux), t.agent = i
             PROVE  FALSE
  OBVIOUS
<1>1. t \in tmux /\ session_ref[i] = t.name
  BY KilledFacts DEF IInv, RefFindsAgent
<1>2. entry[i] # None /\ i \in Instance
  BY DEF IInv, Unsharing, Live
<1>3. t.name # None
  BY <1>1, SessionsAssumption DEF IInv, TypeOK, Session
<1>4. entry[i].tmux = t.name
  BY <1>1, <1>2, <1>3 DEF IInv, Entries
<1> QED BY <1>1, <1>2, <1>4, KilledFacts

-----------------------------------------------------------------------------
(* The steps of other processes and of the agents.                         *)

\* What the dashboard knows and does is left alone.
LEMMA Others ==
  ASSUME IInv, UNCHANGED <<ws, ordinal, session_ref, seen, job, lost>>,
         \A j \in Instance : row'[j] = row[j] \/ (row[j] = "live" /\ row'[j] = "gone"),
         unsettled \subseteq unsettled',
         \A w \in Workspace \ unsettled' : w \in shared' <=> w \in shared,
         tmux' \subseteq tmux,
         \A j \in Instance :
           /\ entry'[j] = None <=> entry[j] = None
           /\ entry[j] # None => entry'[j].tmux = entry[j].tmux
           /\ entry'[j] # None /\ entry'[j].running => entry'[j] = entry[j]
  PROVE  /\ Unborn' /\ Numbers' /\ Shapes' /\ RefsDistinct' /\ RefFindsAgent' /\ Entries'
         /\ Flags' /\ Jobs' /\ Unsharing' /\ Attaches
<1>1. /\ Unborn' /\ Numbers' /\ Shapes' /\ RefsDistinct' /\ RefFindsAgent' /\ Entries'
      /\ Live' \subseteq Live /\ Attaches
      /\ \A j \in Instance : Settled(j)' => Settled(j)
  BY Weaken
<1>2. Flags /\ Jobs /\ Unsharing
  BY DEF IInv
<1>3. Flags'
  BY <1>1, <1>2 DEF Flags, Live
<1>4. Jobs'
  <2>1. \A i \in job.all : i \in Instance
    BY DEF IInv, TypeOK, Job
  <2> QED BY <1>2, <2>1 DEF Jobs
<1>5. Unsharing'
  <2> SUFFICES ASSUME job.kind = "unshare"
               PROVE  Unsharing'
    BY DEF Unsharing
  <2>1. job.todo \subseteq Instance
    BY DEF IInv, TypeOK, Job
  <2>2. \A i \in Of(job.ws)' \ job.all : session_ref'[i] = None
    BY <1>1, <1>2 DEF Unsharing, Of, Live
  <2>3. \A i \in (job.running \ job.todo) \cap Live' :
          Settled(i)' => \A t \in tmux' : t.agent # i
    BY <1>1, <1>2 DEF Unsharing, Live
  <2>4. \A i \in job.todo : entry'[i] # None
    BY <1>2, <2>1 DEF Unsharing
  <2> QED BY <1>2, <2>2, <2>3, <2>4 DEF Unsharing
<1> QED BY <1>1, <1>3, <1>4, <1>5

LEMMA AddByCliInv ==
  ASSUME IInv, NEW i \in Peer, NEW w \in Workspace, NEW o \in 2 .. MaxOrdinal,
         AddByCli(i, w, o)
  PROVE  IInv' /\ Attaches
<1>1. /\ i \in Instance /\ row[i] = "absent" /\ i \notin Workspace
      /\ row' = [row EXCEPT ![i] = "live"] /\ ws' = [ws EXCEPT ![i] = w]
      /\ ordinal' = [ordinal EXCEPT ![i] = o] /\ NextOrdinal(w, o)
      /\ UNCHANGED <<session_ref, shared, slug, tmux, entry, seen, job, lost, unsettled, renames>>
  BY SessionsAssumption DEF AddByCli, AddRow, Instance, historyVars
<1>2. /\ TypeOK /\ Unborn /\ Numbers /\ Shapes /\ RefsDistinct /\ RefFindsAgent
      /\ Entries /\ Flags /\ Jobs /\ Unsharing
  BY DEF IInv
<1>3. /\ row' \in [Instance -> {"absent", "live", "gone"}]
      /\ ws' \in [Instance -> Workspace \cup {None}] /\ ordinal' \in [Instance -> 0 .. MaxOrdinal]
      /\ row'[i] = "live" /\ ws'[i] = w /\ ordinal'[i] = o
      /\ \A j \in Instance \ {i} : row'[j] = row[j] /\ ws'[j] = ws[j] /\ ordinal'[j] = ordinal[j]
  BY <1>1, <1>2 DEF TypeOK
<1>4. Live' = Live \cup {i} /\ i \notin Live
  BY <1>1, <1>3 DEF Live
<1>5. session_ref[i] = None /\ entry[i] = None /\ \A t \in tmux : t.agent # i
  BY <1>1, <1>2 DEF Unborn
<1>6. \A j \in Instance \ {i} : (Settled(j)' <=> Settled(j)) /\ Number(j)' = Number(j)
  BY <1>1, <1>3 DEF Settled, Number
<1>7. \A j \in Live : j \in Instance \ {i}
  BY <1>4 DEF Live
<1>8. TypeOK'
  <2>1. \A j \in Instance : Runs(j)' /\ InTmux(j)' => Alive(entry'[j].tmux, tmux')
    BY <1>1, <1>2 DEF TypeOK, Runs, InTmux
  <2> QED BY <1>1, <1>2, <1>3, <2>1 DEF TypeOK
<1>9. Unborn'
  BY <1>1, <1>2, <1>3 DEF Unborn
<1>10. Numbers'
  <2>1. \A j, k \in Live' : j # k /\ ws'[j] = ws'[k] => Number(j)' # Number(k)'
    <3>1. ASSUME NEW j \in Live, ws'[j] = w
          PROVE  Number(j)' # Number(i)'
      <4>1. j \in Of(w) /\ j \in Instance \ {i}
        BY <1>3, <1>7, <3>1 DEF Of
      <4>2. ordinal[j] < o /\ ordinal[j] \in Nat /\ o \in Nat \ {0}
        BY <1>1, <1>2, <4>1, SessionsAssumption DEF NextOrdinal, TypeOK
      <4>3. Number(i)' = o /\ Number(j)' \in {0, ordinal[j]}
        BY <1>1, <1>3, <4>1 DEF Number
      <4> QED BY <4>2, <4>3
    <3>2. ASSUME NEW j \in Live, NEW k \in Live, j # k, ws'[j] = ws'[k]
          PROVE  Number(j)' # Number(k)'
      BY <1>2, <1>3, <1>6, <1>7, <3>2 DEF Numbers
    <3> QED BY <1>3, <1>4, <3>1, <3>2
  <2>2. \A j \in Workspace : ws'[j] = j
    BY <1>1, <1>2, <1>3 DEF Numbers, Instance
  <2>3. \A j \in Instance : row'[j] # "absent" => ws'[j] \in Workspace
    BY <1>2, <1>3 DEF Numbers
  <2>4. \A j \in Live' \ Workspace : ordinal'[j] > 0
    BY <1>2, <1>3, <1>4, <1>7 DEF Numbers
  <2> QED BY <2>1, <2>2, <2>3, <2>4 DEF Numbers
<1>11. Shapes'
  BY <1>1, <1>2, <1>3, <1>4, <1>5, <1>6, <1>7 DEF Shapes
<1>12. RefsDistinct'
  BY <1>1, <1>2, <1>4, <1>5 DEF RefsDistinct
<1>13. RefFindsAgent'
  BY <1>1, <1>2, <1>4, <1>5, <1>6, <1>7 DEF RefFindsAgent
<1>14. Entries'
  BY <1>1, <1>2, <1>4, <1>5, <1>6, <1>7 DEF Entries
<1>15. Flags'
  BY <1>1, <1>2, <1>3, <1>4, <1>5, <1>6, <1>7 DEF Flags
<1>16. Jobs'
  <2>1. \A j \in job.all : j \in Instance \ {i}
    BY <1>1, <1>2 DEF Jobs, TypeOK, Job
  <2> QED BY <1>1, <1>2, <1>3, <2>1 DEF Jobs
<1>17. Unsharing'
  <2> SUFFICES ASSUME job.kind = "unshare"
               PROVE  Unsharing'
    BY <1>1 DEF Unsharing
  <2>1. Of(job.ws)' \subseteq Of(job.ws) \cup {i}
    BY <1>1, <1>3, <1>4, <1>7 DEF Of
  <2>2. \A j \in Of(job.ws)' \ job.all : session_ref[j] = None
    BY <1>2, <1>5, <2>1 DEF Unsharing
  <2>3. \A j \in (job.running \ job.todo) \cap Live' :
          Settled(j)' => \A t \in tmux : t.agent # j
    BY <1>2, <1>4, <1>5, <1>6, <1>7 DEF Unsharing
  <2> QED BY <1>1, <1>2, <2>2, <2>3 DEF Unsharing
<1>18. Attaches
  BY <1>1 DEF Attaches, Attached
<1> QED BY <1>8, <1>9, <1>10, <1>11, <1>12, <1>13, <1>14, <1>15, <1>16, <1>17, <1>18 DEF IInv

LEMMA RemoveByCliInv ==
  ASSUME IInv, NEW i \in Instance, RemoveByCli(i)
  PROVE  IInv' /\ Attaches
<1>1. /\ row[i] = "live" /\ row' = [row EXCEPT ![i] = "gone"]
      /\ UNCHANGED <<ws, ordinal, session_ref, shared, slug, tmux, entry, seen, job, lost, unsettled, renames>>
  BY DEF RemoveByCli, Live, historyVars
<1>2. TypeOK
  BY DEF IInv
<1>3. \A j \in Instance : row'[j] = row[j] \/ (row[j] = "live" /\ row'[j] = "gone")
  BY <1>1, <1>2 DEF TypeOK
<1>4. TypeOK'
  BY <1>1, <1>2 DEF TypeOK, Runs, InTmux
<1> QED BY <1>1, <1>3, <1>4, Others DEF IInv

LEMMA SetSharedByCliInv ==
  ASSUME IInv, NEW w \in Workspace, SetSharedByCli(w)
  PROVE  IInv' /\ Attaches
<1>1. /\ unsettled' = unsettled \cup {w}
      /\ shared' = IF w \in shared THEN shared \ {w} ELSE shared \cup {w}
      /\ UNCHANGED <<row, ws, ordinal, slug, session_ref, tmux, entry, seen, job, lost, renames>>
  BY DEF SetSharedByCli
<1>2. TypeOK
  BY DEF IInv
<1>3. TypeOK'
  BY <1>1, <1>2 DEF TypeOK, Runs, InTmux
<1> QED BY <1>1, <1>3, Others DEF IInv

LEMMA RenameInv ==
  ASSUME IInv, NEW w \in Workspace, NEW s \in Slug, Rename(w, s)
  PROVE  IInv' /\ Attaches
<1>1. /\ slug' = [slug EXCEPT ![w] = s] /\ renames' = renames + 1
      /\ UNCHANGED <<row, ws, ordinal, shared, session_ref, tmux, entry, seen, job, lost, unsettled>>
  BY DEF Rename
<1>2. TypeOK
  BY DEF IInv
<1>3. TypeOK'
  BY <1>1, <1>2 DEF TypeOK, Runs, InTmux
<1> QED BY <1>1, <1>3, Others DEF IInv

\* The exit of a client or of a child.
LEMMA ExitInv ==
  ASSUME IInv, NEW i \in Instance, Runs(i),
         entry' = [entry EXCEPT ![i].running = FALSE],
         UNCHANGED <<dbVars, session_ref, tmux, seen, job, historyVars>>
  PROVE  IInv' /\ Attaches
<1>1. TypeOK /\ entry[i] # None
  BY DEF IInv, Runs
<1>2. UNCHANGED <<row, ws, ordinal, shared, slug, session_ref, tmux, seen, job, lost, unsettled, renames>>
  BY DEF dbVars, historyVars
<1>3. /\ entry[i] \in Entry /\ None \notin Entry
      /\ entry'[i] = [entry[i] EXCEPT !.running = FALSE]
      /\ \A j \in Instance \ {i} : entry'[j] = entry[j]
  BY <1>1, SessionsAssumption DEF TypeOK
<1>4. entry'[i] \in Entry /\ entry'[i].tmux = entry[i].tmux /\ ~entry'[i].running
  <2> DEFINE e == entry[i]
  <2>1. e \in Entry
    BY <1>3
  <2> HIDE DEF e
  <2>2. ASSUME NEW x, x = [e EXCEPT !.running = FALSE]
        PROVE  x \in Entry /\ x.tmux = e.tmux /\ x.running = FALSE
    BY <2>1, <2>2 DEF Entry
  <2> QED BY <1>3, <2>2 DEF e
<1>5. entry' \in [Instance -> Entry \cup {None}]
  BY <1>1, <1>4 DEF TypeOK
<1>6. \A j \in Instance :
        /\ entry'[j] = None <=> entry[j] = None
        /\ entry[j] # None => entry'[j].tmux = entry[j].tmux
        /\ entry'[j] # None /\ entry'[j].running => entry'[j] = entry[j]
  BY <1>1, <1>3, <1>4
<1>7. TypeOK'
  <2>1. \A j \in Instance : Runs(j)' /\ InTmux(j)' => Alive(entry'[j].tmux, tmux')
    BY <1>1, <1>2, <1>6 DEF TypeOK, Runs, InTmux
  <2> QED BY <1>1, <1>2, <1>5, <2>1 DEF TypeOK
<1> QED BY <1>2, <1>6, <1>7, Others DEF IInv

LEMMA SessionEndsInv ==
  ASSUME IInv, NEW t \in tmux, SessionEnds(t)
  PROVE  IInv' /\ Attaches
<1>1. /\ tmux' = tmux \ {t} /\ entry' = Clients(entry, tmux')
      /\ UNCHANGED <<row, ws, ordinal, shared, slug, session_ref, seen, job, lost, unsettled, renames>>
  BY DEF SessionEnds, dbVars, historyVars
<1>2. TypeOK
  BY DEF IInv
<1>3. /\ entry' \in [Instance -> Entry \cup {None}]
      /\ \A j \in Instance :
           /\ entry'[j] = None <=> entry[j] = None
           /\ entry[j] # None => entry'[j].tmux = entry[j].tmux
           /\ entry'[j] # None /\ entry'[j].running => entry'[j] = entry[j]
           /\ Runs(j)' /\ InTmux(j)' => Alive(entry'[j].tmux, tmux')
  <2>1. entry \in [Instance -> Entry \cup {None}]
    BY <1>2 DEF TypeOK
  <2> QED BY <1>1, <2>1, Remaining
<1>4. TypeOK'
  BY <1>1, <1>2, <1>3 DEF TypeOK
<1> QED BY <1>1, <1>3, <1>4, Others DEF IInv

-----------------------------------------------------------------------------
(* The steps of the dashboard that start nothing.                          *)

\* A refresh, with the sessions it ends and the flags it reads: a workspace
\* that loses its flag is one whose unshare begins.
LEMMA Refreshed ==
  ASSUME IInv, Free, NEW K,
         row' \in [Instance -> {"absent", "live", "gone"}],
         \A j \in Instance : row'[j] = row[j] \/ (row[j] = "live" /\ row'[j] = "gone"),
         UNCHANGED <<ws, ordinal, slug, session_ref, lost, unsettled, renames>>,
         seen' = Rows(slug, shared'), shared' \subseteq Workspace,
         \A w \in Workspace :
           w \in shared \/ w \notin seen.shared \/ w \in unsettled,
         \A w \in shared \ shared' : job'.kind = "unshare" /\ job'.ws = w,
         tmux' = Killed(K, tmux), entry' = Clients(Without(K), tmux')
  PROVE  /\ Unborn' /\ Numbers' /\ Shapes' /\ RefsDistinct' /\ RefFindsAgent' /\ Entries'
         /\ Flags' /\ Attaches
         /\ job' \in Job => TypeOK'
         /\ \A j \in Instance \ K : entry[j] # None => entry'[j] # None
<1>1. TypeOK /\ Flags
  BY DEF IInv
<1>2. tmux' \subseteq tmux
  BY KilledFacts
<1>3. /\ entry' \in [Instance -> Entry \cup {None}]
      /\ \A j \in Instance :
           /\ entry'[j] = None <=> Without(K)[j] = None
           /\ entry'[j] # None => entry[j] # None /\ entry'[j].tmux = entry[j].tmux
           /\ entry'[j] # None /\ entry'[j].running => entry'[j] = entry[j]
           /\ Runs(j)' /\ InTmux(j)' => Alive(entry'[j].tmux, tmux')
  <2>1. /\ Without(K) \in [Instance -> Entry \cup {None}]
        /\ \A j \in Instance : Without(K)[j] \in {None, entry[j]}
    BY <1>1, WithoutFacts
  <2> QED BY <2>1, Remaining
<1>4. /\ Unborn' /\ Numbers' /\ Shapes' /\ RefsDistinct' /\ RefFindsAgent' /\ Entries'
      /\ Live' \subseteq Live /\ Attaches
      /\ \A j \in Instance : Settled(j)' => Settled(j)
  BY <1>2, <1>3, Weaken
<1>5. seen'.shared = shared' /\ seen'.slug = slug
  BY DEF Rows
<1>6. seen' \in [slug : [Workspace -> Slug], shared : SUBSET Workspace]
  BY <1>1, <1>5 DEF Rows, TypeOK
<1>7. job' \in Job => TypeOK'
  BY <1>1, <1>2, <1>3, <1>6 DEF TypeOK
<1>8. Flags'
  <2>1. ASSUME NEW i \in Live', Settled(i)', ws[i] \notin shared',
               ~(job'.kind = "unshare" /\ job'.ws = ws[i])
        PROVE  session_ref[i] = None
    <3>1. i \in Live /\ i \in Instance /\ Settled(i) /\ ws[i] \in Workspace
      BY <1>4, <2>1 DEF Live, IInv, Numbers
    <3>2. ws[i] \notin shared
      BY <2>1
    <3>3. ws[i] \notin seen.shared
      BY <3>1, <3>2 DEF Settled
    <3> QED BY <1>1, <3>1, <3>3 DEF Flags, Free
  <2> QED BY <1>5, <2>1 DEF Flags
<1>9. \A j \in Instance \ K : entry[j] # None => entry'[j] # None
  BY <1>1, <1>3, WithoutFacts
<1> QED BY <1>4, <1>7, <1>8, <1>9

\* What the dashboard knows of the flags, before a refresh.
LEMMA KnownFlags ==
  ASSUME IInv
  PROVE  /\ \A w \in Workspace : w \in shared \/ w \notin seen.shared \/ w \in unsettled
         /\ shared \subseteq Workspace /\ row \in [Instance -> {"absent", "live", "gone"}]
BY DEF IInv, Flags, TypeOK

LEMMA RestartInv ==
  ASSUME IInv, Restart
  PROVE  IInv' /\ Attaches
<1>1. /\ entry' = [i \in Instance |-> None] /\ seen' = Rows(slug, shared) /\ job' = Idle
      /\ unsettled' = IF job.kind = "unshare" THEN unsettled \cup {job.ws} ELSE unsettled
      /\ UNCHANGED <<row, ws, ordinal, shared, slug, session_ref, tmux, lost, renames>>
  BY DEF Restart, dbVars
<1>2. TypeOK /\ Flags
  BY DEF IInv
<1>3. unsettled \subseteq unsettled'
  BY <1>1
<1>4. \A j \in Instance : entry'[j] = None
  BY <1>1
<1>5. /\ Unborn' /\ Numbers' /\ Shapes' /\ RefsDistinct' /\ RefFindsAgent' /\ Entries'
      /\ Live' \subseteq Live /\ Attaches
      /\ \A j \in Instance : Settled(j)' => Settled(j)
  BY <1>1, <1>3, <1>4, Weaken
<1>6. seen'.shared = shared /\ seen' \in [slug : [Workspace -> Slug], shared : SUBSET Workspace]
  BY <1>1, <1>2 DEF Rows, TypeOK
<1>7. job' \in Job /\ job'.kind = "idle" /\ job'.all = {} /\ job'.todo = {}
  BY <1>1 DEF Idle, Job
<1>8. TypeOK'
  <2>1. unsettled' \subseteq Workspace
    BY <1>1, <1>2 DEF TypeOK, IInv, Jobs
  <2>2. entry' \in [Instance -> Entry \cup {None}]
    BY <1>1
  <2>3. \A j \in Instance : Runs(j)' /\ InTmux(j)' => Alive(entry'[j].tmux, tmux')
    BY <1>4 DEF Runs
  <2> QED BY <1>1, <1>2, <1>6, <1>7, <2>1, <2>2, <2>3 DEF TypeOK
<1>9. Flags'
  <2>1. ASSUME NEW i \in Live', Settled(i)', ws[i] \notin shared
        PROVE  session_ref[i] = None
    <3>1. i \in Live /\ i \in Instance /\ Settled(i) /\ ws[i] \in Workspace
      BY <1>5, <2>1 DEF Live, IInv, Numbers
    <3>2. ws[i] \notin seen.shared
      BY <1>2, <2>1, <3>1 DEF Settled, Flags
    <3>3. ~(job.kind = "unshare" /\ job.ws = ws[i])
      BY <1>1, <2>1 DEF Settled
    <3> QED BY <1>2, <3>1, <3>2, <3>3 DEF Flags
  <2> QED BY <1>1, <1>6, <2>1 DEF Flags
<1>10. Jobs' /\ Unsharing'
  BY <1>7 DEF Jobs, Unsharing
<1> QED BY <1>5, <1>8, <1>9, <1>10 DEF IInv

LEMMA PollInv ==
  ASSUME IInv, Poll
  PROVE  IInv' /\ Attaches
<1>1. /\ Free /\ seen' = Rows(slug, shared) /\ tmux' = Killed(Stale, tmux)
      /\ entry' = Clients(Without(Stale), tmux')
      /\ UNCHANGED <<row, ws, ordinal, shared, slug, session_ref, job, lost, unsettled, renames>>
  BY DEF Poll, dbVars, historyVars
<1>2. /\ Unborn' /\ Numbers' /\ Shapes' /\ RefsDistinct' /\ RefFindsAgent' /\ Entries'
      /\ Flags' /\ Attaches /\ (job' \in Job => TypeOK')
  BY <1>1, KnownFlags, Refreshed
<1>3. TypeOK'
  BY <1>1, <1>2 DEF IInv, TypeOK
<1>4. Jobs'
  BY <1>1 DEF IInv, Jobs, Free
<1>5. Unsharing'
  BY <1>1 DEF Unsharing, Free
<1> QED BY <1>2, <1>3, <1>4, <1>5 DEF IInv

LEMMA RemoveByPanelInv ==
  ASSUME IInv, NEW i \in Instance, RemoveByPanel(i)
  PROVE  IInv' /\ Attaches
<1> DEFINE dead == Stale \cup {i}
<1>1. /\ Free /\ row[i] = "live" /\ row' = [row EXCEPT ![i] = "gone"]
      /\ seen' = Rows(slug, shared) /\ tmux' = Killed(dead, tmux)
      /\ entry' = Clients(Without(dead), tmux')
      /\ UNCHANGED <<ws, ordinal, shared, slug, session_ref, job, lost, unsettled, renames>>
  BY DEF RemoveByPanel, Live, historyVars
<1>2. row' \in [Instance -> {"absent", "live", "gone"}]
      /\ \A j \in Instance : row'[j] = row[j] \/ (row[j] = "live" /\ row'[j] = "gone")
  BY <1>1, KnownFlags
<1> HIDE DEF dead
<1>3. /\ Unborn' /\ Numbers' /\ Shapes' /\ RefsDistinct' /\ RefFindsAgent' /\ Entries'
      /\ Flags' /\ Attaches /\ (job' \in Job => TypeOK')
  BY <1>1, <1>2, KnownFlags, Refreshed
<1>4. TypeOK'
  BY <1>1, <1>3 DEF IInv, TypeOK
<1>5. Jobs'
  <2>1. \A j \in job.all : j \in Instance
    BY DEF IInv, TypeOK, Job
  <2> QED BY <1>1, <1>2, <2>1 DEF IInv, Jobs, Free
<1>6. Unsharing'
  BY <1>1 DEF Unsharing, Free
<1> QED BY <1>3, <1>4, <1>5, <1>6 DEF IInv

\* A job begins, with the flag it stores.
LEMMA Begun ==
  ASSUME IInv, Free, NEW w \in Workspace,
         NEW kind \in {"share", "unshare", "force"}, NEW all, NEW running,
         all = Of(w), running \subseteq all,
         kind = "unshare" => \A i \in running : entry[i] # None,
         Flag(w, IF kind = "unshare" THEN shared \ {w} ELSE shared \cup {w}),
         job' = [kind |-> kind, ws |-> w, all |-> all,
                 todo |-> IF kind = "unshare" THEN running ELSE all, running |-> running]
  PROVE  IInv' /\ Attaches
<1> DEFINE flags == IF kind = "unshare" THEN shared \ {w} ELSE shared \cup {w}
<1>1. /\ shared' = flags /\ seen' = Rows(slug, shared')
      /\ tmux' = Killed(Stale, tmux) /\ entry' = Clients(Without(Stale), tmux')
      /\ UNCHANGED <<row, ws, ordinal, slug, session_ref, lost, unsettled, renames>>
  BY DEF Flag, historyVars
<1>2. /\ job'.kind = kind /\ job'.ws = w /\ job'.all = all /\ job'.running = running
      /\ job'.todo = IF kind = "unshare" THEN running ELSE all
  OBVIOUS
<1>3. all \subseteq Instance
  BY DEF Of, Live
<1>4. job' \in Job
  BY <1>3 DEF Job
<1>5. /\ shared' \subseteq Workspace
      /\ \A v \in shared \ shared' : job'.kind = "unshare" /\ job'.ws = v
  BY <1>1, <1>2, KnownFlags
<1>6. /\ Unborn' /\ Numbers' /\ Shapes' /\ RefsDistinct' /\ RefFindsAgent' /\ Entries'
      /\ Flags' /\ Attaches /\ TypeOK'
      /\ \A j \in Instance \ Stale : entry[j] # None => entry'[j] # None
  BY <1>1, <1>4, <1>5, KnownFlags, Refreshed
<1>7. seen'.shared = flags
  BY <1>1 DEF Rows
<1>8. Jobs'
  <2>1. kind # "unshare" => w \in seen'.shared
    BY <1>7
  <2>2. \A i \in all : row'[i] # "absent" /\ ws'[i] = w
    BY <1>1 DEF Of, Live
  <2> QED BY <1>2, <2>1, <2>2 DEF Jobs
<1>9. Unsharing'
  <2> SUFFICES ASSUME kind = "unshare"
               PROVE  Unsharing'
    BY <1>2 DEF Unsharing
  <2>1. w \notin seen'.shared
    BY <1>7
  <2>2. Of(w)' = all
    BY <1>1 DEF Of, Live
  <2>3. \A i \in running : entry'[i] # None
    <3>1. \A i \in running : i \in Instance \ Stale
      BY <1>3 DEF Stale, Of
    <3> QED BY <1>6, <3>1
  <2> QED BY <1>2, <2>1, <2>2, <2>3 DEF Unsharing
<1> QED BY <1>6, <1>8, <1>9 DEF IInv

LEMMA BeginInv ==
  ASSUME IInv, NEW w \in Workspace, BeginShare(w) \/ BeginUnshare(w) \/ BeginForce(w)
  PROVE  IInv' /\ Attaches
<1>1. CASE BeginShare(w)
  BY <1>1, Begun DEF BeginShare
<1>2. CASE BeginUnshare(w)
  <2> DEFINE running == {i \in Of(w) : Runs(i)}
  <2>1. running \subseteq Of(w) /\ \A i \in running : entry[i] # None
    BY DEF Runs
  <2> QED BY <1>2, <2>1, Begun DEF BeginUnshare
<1>3. CASE BeginForce(w)
  <2>1. CASE w \in seen.shared
    <3>1. UNCHANGED <<row, ws, ordinal, shared, slug, session_ref, tmux, entry, seen, lost, unsettled, renames>>
      BY <1>3, <2>1 DEF BeginForce, dbVars, historyVars
    <3>2. /\ job'.kind = "force" /\ job'.ws = w /\ job'.all = Of(w) /\ job'.todo = Of(w)
          /\ job' \in Job
      BY <1>3 DEF BeginForce, Job, Of, Live
    <3>3. TypeOK'
      BY <3>1, <3>2 DEF IInv, TypeOK, Runs, InTmux
    <3>4. Flags'
      BY <1>3, <3>1 DEF IInv, Flags, Settled, Live, BeginForce, Free
    <3>5. Jobs' /\ Unsharing'
      BY <2>1, <3>1, <3>2 DEF Jobs, Unsharing, Of, Live
    <3>6. Attaches
      BY <3>1 DEF Attaches, Attached
    <3>7. \A j \in Instance : Number(j)' = Number(j) /\ (Settled(j)' <=> Settled(j))
      BY <3>1 DEF Number, Settled
    <3>8. Live' = Live
      BY <3>1 DEF Live
    <3>9. Unborn' /\ RefsDistinct' /\ Numbers' /\ Shapes'
      BY <3>1, <3>7, <3>8 DEF IInv, Unborn, RefsDistinct, Numbers, Shapes, Live
    <3>10. RefFindsAgent' /\ Entries'
      BY <3>1, <3>7, <3>8 DEF IInv, RefFindsAgent, Entries, Live
    <3> QED BY <3>3, <3>4, <3>5, <3>6, <3>9, <3>10 DEF IInv
  <2>2. CASE w \notin seen.shared
    BY <1>3, <2>2, Begun DEF BeginForce
  <2> QED BY <2>1, <2>2
<1> QED BY <1>1, <1>2, <1>3

\* What a step of a job that starts nothing leaves of agent i's.
LEMMA NotStartedFacts ==
  ASSUME IInv, NEW i \in Instance, NEW sessions \in SUBSET tmux,
         NotStarted(Without({i}), sessions), UNCHANGED <<dbVars, seen, renames>>,
         unsettled \subseteq unsettled', unsettled' \subseteq Workspace
  PROVE  /\ Unborn' /\ Numbers' /\ Shapes' /\ RefsDistinct' /\ RefFindsAgent' /\ Entries'
         /\ Attaches
         /\ job' \in Job => TypeOK'
         /\ Live' = Live /\ tmux' = sessions /\ session_ref' = session_ref /\ lost' = lost
         /\ \A j \in Instance \ {i} : entry[j] # None => entry'[j] # None
         /\ \A j \in Instance : Settled(j)' => Settled(j)
<1>1. /\ tmux' = sessions /\ entry' = Clients(Without({i}), tmux')
      /\ UNCHANGED <<row, ws, ordinal, shared, slug, session_ref, lost, seen, renames>>
  BY DEF NotStarted, dbVars
<1>2. /\ Without({i}) \in [Instance -> Entry \cup {None}]
      /\ \A j \in Instance : Without({i})[j] = IF j = i THEN None ELSE entry[j]
  BY WithoutFacts DEF IInv
<1>3. /\ entry' \in [Instance -> Entry \cup {None}]
      /\ \A j \in Instance :
           /\ entry'[j] = None <=> Without({i})[j] = None
           /\ entry'[j] # None => entry[j] # None /\ entry'[j].tmux = entry[j].tmux
           /\ entry'[j] # None /\ entry'[j].running => entry'[j] = entry[j]
           /\ Runs(j)' /\ InTmux(j)' => Alive(entry'[j].tmux, tmux')
  BY <1>1, <1>2, Remaining
<1>4. /\ Unborn' /\ Numbers' /\ Shapes' /\ RefsDistinct' /\ RefFindsAgent' /\ Entries'
      /\ Attaches /\ \A j \in Instance : Settled(j)' => Settled(j)
  BY <1>1, <1>3, Weaken
<1>5. job' \in Job => TypeOK'
  BY <1>1, <1>3 DEF IInv, TypeOK
<1>6. Live' = Live
  BY <1>1 DEF Live
<1> QED BY <1>1, <1>2, <1>3, <1>4, <1>5, <1>6

LEMMA UnshareFailsInv ==
  ASSUME IInv, NEW i \in Instance, UnshareFails(i)
  PROVE  IInv' /\ Attaches
<1>1. /\ job.kind = "unshare" /\ job' = Idle /\ unsettled' = unsettled \cup {job.ws}
      /\ NotStarted(Without({i}), Killed({i}, tmux)) /\ UNCHANGED <<dbVars, seen, renames>>
  BY DEF UnshareFails
<1>2. unsettled' \subseteq Workspace /\ unsettled \subseteq unsettled'
  BY <1>1 DEF IInv, TypeOK, Jobs
<1>3. Killed({i}, tmux) \in SUBSET tmux
  BY KilledFacts
<1>4. job' \in Job /\ job'.kind = "idle" /\ job'.all = {} /\ job'.todo = {}
  BY <1>1 DEF Idle, Job
<1>5. /\ Unborn' /\ Numbers' /\ Shapes' /\ RefsDistinct' /\ RefFindsAgent' /\ Entries'
      /\ Attaches /\ TypeOK' /\ Live' = Live /\ session_ref' = session_ref
      /\ \A j \in Instance : Settled(j)' => Settled(j)
  BY <1>1, <1>2, <1>3, <1>4, NotStartedFacts
<1>6. Flags'
  <2>1. UNCHANGED <<shared, seen, ws>>
    BY <1>1 DEF dbVars
  <2>2. ASSUME NEW j \in Live', Settled(j)', ws[j] \notin seen.shared
        PROVE  session_ref[j] = None
    <3>1. j \in Live /\ Settled(j) /\ ws[j] # job.ws
      BY <1>1, <1>5, <2>1, <2>2 DEF Settled, Live
    <3> QED BY <2>2, <3>1 DEF IInv, Flags
  <2> QED BY <1>2, <1>5, <2>1, <2>2 DEF IInv, Flags
<1>7. Jobs' /\ Unsharing'
  BY <1>4 DEF Jobs, Unsharing
<1> QED BY <1>5, <1>6, <1>7 DEF IInv

LEMMA EndUnshareInv ==
  ASSUME IInv, NEW kept, EndUnshare(kept)
  PROVE  IInv' /\ Attaches
<1>1. /\ job.kind = "unshare" /\ job.todo = {} /\ job' = Idle
      /\ tmux' = {t \in tmux : \A i \in Detached : session_ref[i] # t.name}
      /\ session_ref' = [i \in Instance |->
                           IF i \in job.all \ kept THEN None ELSE session_ref[i]]
      /\ entry' = Clients(entry, tmux') /\ kept \subseteq job.all /\ lost' = lost \cup kept
      /\ UNCHANGED <<row, ws, ordinal, shared, slug, seen, unsettled, renames>>
  BY DEF EndUnshare, dbVars
<1>2. TypeOK /\ Flags /\ Unsharing /\ RefFindsAgent
  BY DEF IInv
<1>3. ASSUME NEW j \in Live, Settled(j), j \in job.all, NEW t \in tmux', t.agent = j
      PROVE  FALSE
  <2>1. t \in tmux /\ session_ref[j] = t.name
    BY <1>1, <1>2, <1>3 DEF RefFindsAgent
  <2>2. CASE j \in job.running
    BY <1>1, <1>2, <1>3, <2>1, <2>2 DEF Unsharing
  <2>3. CASE j \notin job.running
    BY <1>1, <1>3, <2>1, <2>3 DEF Detached
  <2> QED BY <2>2, <2>3
<1>4. \A j \in Instance :
        \/ session_ref'[j] = session_ref[j]
        \/ /\ session_ref'[j] = None
           /\ j \in Live /\ Settled(j) => \A t \in tmux' : t.agent # j
  BY <1>1, <1>3
<1>5. /\ entry' \in [Instance -> Entry \cup {None}]
      /\ \A j \in Instance :
           /\ entry'[j] # None => entry[j] # None /\ entry'[j].tmux = entry[j].tmux
           /\ entry'[j] # None /\ entry'[j].running => entry'[j] = entry[j]
           /\ Runs(j)' /\ InTmux(j)' => Alive(entry'[j].tmux, tmux')
  <2>1. entry \in [Instance -> Entry \cup {None}]
    BY <1>2 DEF TypeOK
  <2> QED BY <1>1, <2>1, Remaining
<1>6. tmux' \subseteq tmux
  BY <1>1
<1>7. /\ Unborn' /\ Numbers' /\ Shapes' /\ RefsDistinct' /\ RefFindsAgent' /\ Entries'
      /\ Attaches /\ Live' \subseteq Live /\ \A j \in Instance : Settled(j)' => Settled(j)
  BY <1>1, <1>4, <1>5, <1>6, Weaken
<1>8. job' \in Job /\ job'.kind = "idle" /\ job'.all = {} /\ job'.todo = {}
  BY <1>1 DEF Idle, Job
<1>9. TypeOK'
  <2>1. session_ref' \in [Instance -> Name \cup {None}]
    BY <1>1, <1>2 DEF TypeOK
  <2> QED BY <1>1, <1>2, <1>5, <1>6, <1>8, <2>1 DEF TypeOK, Job
<1>10. Flags'
  <2>1. ASSUME NEW j \in Live', Settled(j)', ws[j] \notin seen.shared
        PROVE  session_ref'[j] = None
    <3>1. j \in Live /\ Settled(j) /\ j \in Instance
      BY <1>7, <2>1 DEF Live
    <3>2. CASE j \in job.all
      <4>1. j \notin kept
        BY <1>1, <2>1 DEF Settled
      <4> QED BY <1>1, <3>1, <3>2, <4>1
    <3>3. CASE j \notin job.all /\ ws[j] = job.ws
      BY <1>1, <1>2, <3>1, <3>3 DEF Unsharing, Of
    <3>4. CASE j \notin job.all /\ ws[j] # job.ws
      BY <1>1, <1>2, <2>1, <3>1, <3>4 DEF Flags
    <3> QED BY <3>2, <3>3, <3>4
  <2> QED BY <1>1, <1>2, <2>1 DEF Flags
<1>11. Jobs' /\ Unsharing'
  BY <1>8 DEF Jobs, Unsharing
<1> QED BY <1>7, <1>9, <1>10, <1>11 DEF IInv

-----------------------------------------------------------------------------
(* The steps of the dashboard that start an agent.                         *)

\* The spawn of agent i leaves the others' names and entries, and begins no
\* session but its own.
Beside(i, entries, sessions) ==
  /\ \A j \in Instance \ {i} :
       session_ref'[j] = session_ref[j] /\ (entry'[j] = None <=> entries[j] = None)
  /\ \A t \in tmux' : t \in sessions \/ (ws[i] \in seen.shared /\ t.agent = i)
  /\ \A j \in Live : Settled(j)' => Settled(j)

\* The spawn of an agent that has its row.
LEMMA SpawningLive ==
  ASSUME IInv, NEW i \in Live,
         NEW entries \in [Instance -> Entry \cup {None}],
         NEW sessions \in SUBSET tmux, NEW stored \in BOOLEAN,
         Spawn(i, ws[i], ordinal[i], entries, sessions, {}, stored),
         \A j \in Instance : entries[j] \in {None, entry[j]},
         UNCHANGED <<dbVars, seen, unsettled, renames>>,
         job.kind = "unshare" => job'.kind = "unshare" /\ job'.ws = job.ws,
         ws[i] \notin seen.shared /\ Settled(i) => \A t \in sessions : t.agent # i
  PROVE  /\ Unborn' /\ Numbers' /\ Shapes' /\ RefsDistinct' /\ RefFindsAgent' /\ Entries'
         /\ Flags' /\ Attaches
         /\ job' \in Job => TypeOK'
         /\ Live' = Live
         /\ Beside(i, entries, sessions)
<1> DEFINE w == ws[i]
           o == ordinal[i]
<1>1. TypeOK /\ Numbers /\ Flags
  BY DEF IInv
<1>2. i \in Instance /\ row[i] = "live"
  BY DEF Live
<1>3. w \in Workspace /\ o \in 0 .. MaxOrdinal
  BY <1>1, <1>2 DEF Numbers, TypeOK
<1>4. UNCHANGED <<row, ws, ordinal, shared, slug, seen, unsettled, renames>>
  BY DEF dbVars
<1>5. i \in Workspace \/ o > 0
  BY <1>1 DEF Numbers
<1>6. \A j \in Live \ {i} : ws[j] = w /\ i \notin Workspace => Number(j) # o
  BY <1>1 DEF Numbers, Number
<1>7. w \notin seen.shared /\ i \notin lost /\ w \notin unsettled => \A t \in sessions : t.agent # i
  BY DEF Settled
<1> HIDE DEF w, o
<1>8. ws[i] = w /\ ordinal[i] = o
  BY DEF w, o
<1>9. Spawned(i, w, entries, sessions)
  <2>1. row'[i] = "live" /\ ws'[i] = w /\ ordinal'[i] = o
    BY <1>2, <1>4, <1>8
  <2>2. \A j \in Instance \ {i} :
          row'[j] = row[j] /\ ws'[j] = ws[j] /\ ordinal'[j] = ordinal[j]
    BY <1>4
  <2>3. Spawn(i, w, o, entries, sessions, {}, stored)
    BY <1>8
  <2>4. unsettled' = unsettled
    BY <1>4
  <2> QED BY <1>2, <1>3, <1>5, <1>6, <1>7, <1>8, <2>1, <2>2, <2>3, <2>4, Spawning
<1>10. Numbers'
  BY <1>1, <1>4 DEF Numbers, Number, Live
<1>11. Flags'
  BY <1>1, <1>4, <1>9 DEF Flags, Spawned
<1>12. job' \in Job => TypeOK'
  BY <1>1, <1>4, <1>9 DEF TypeOK, Spawned
<1>13. Live' = Live /\ \A j \in Live : Settled(j)' => Settled(j)
  BY <1>4, <1>9 DEF Live, Spawned
<1> QED BY <1>4, <1>8, <1>9, <1>10, <1>11, <1>12, <1>13 DEF Spawned, Beside

\* Between jobs, a settled agent that has no entry and is not shared is not in
\* tmux either.
LEMMA EnsureInv ==
  ASSUME IInv, NEW i \in Instance, NEW stored \in BOOLEAN, Ensure(i, stored)
  PROVE  IInv' /\ Attaches
<1>1. /\ Free /\ i \in Live /\ Spawn(i, ws[i], ordinal[i], entry, tmux, {}, stored)
      /\ UNCHANGED <<dbVars, seen, unsettled, renames>> /\ job' = job
  BY DEF Ensure
<1>2. entry \in [Instance -> Entry \cup {None}] /\ job' \in Job
  BY <1>1 DEF IInv, TypeOK
<1>3. ws[i] \notin seen.shared /\ Settled(i) => \A t \in tmux : t.agent # i
  <2> SUFFICES ASSUME ws[i] \notin seen.shared, Settled(i), NEW t \in tmux, t.agent = i
               PROVE  FALSE
    OBVIOUS
  <2>1. session_ref[i] = None /\ session_ref[i] = t.name
    BY <1>1 DEF IInv, Flags, RefFindsAgent, Free
  <2> QED BY <2>1, SessionsAssumption DEF IInv, TypeOK, Session
<1>4. /\ Unborn' /\ Numbers' /\ Shapes' /\ RefsDistinct' /\ RefFindsAgent' /\ Entries'
      /\ Flags' /\ Attaches /\ TypeOK'
  BY <1>1, <1>2, <1>3, SpawningLive
<1>5. Jobs' /\ Unsharing'
  BY <1>1 DEF IInv, Jobs, Unsharing, Free, dbVars
<1> QED BY <1>4, <1>5 DEF IInv

LEMMA AddByPanelInv ==
  ASSUME IInv, NEW i \in Peer, NEW w \in Workspace, NEW o \in 2 .. MaxOrdinal,
         NEW stored \in BOOLEAN, AddByPanel(i, w, o, stored)
  PROVE  IInv' /\ Attaches
<1>1. /\ Free /\ i \in Instance /\ row[i] = "absent" /\ i \notin Workspace
      /\ row' = [row EXCEPT ![i] = "live"] /\ ws' = [ws EXCEPT ![i] = w]
      /\ ordinal' = [ordinal EXCEPT ![i] = o] /\ NextOrdinal(w, o)
      /\ Spawn(i, w, o, Without(Stale), tmux, Stale, stored)
      /\ seen' = Rows(slug, shared)
      /\ UNCHANGED <<shared, slug, job, unsettled, renames>>
  BY SessionsAssumption DEF AddByPanel, AddRow, Instance
<1>2. TypeOK /\ Unborn /\ Numbers /\ Flags /\ Jobs
  BY DEF IInv
<1>3. /\ row' \in [Instance -> {"absent", "live", "gone"}]
      /\ ws' \in [Instance -> Workspace \cup {None}] /\ ordinal' \in [Instance -> 0 .. MaxOrdinal]
      /\ row'[i] = "live" /\ ws'[i] = w /\ ordinal'[i] = o
      /\ \A j \in Instance \ {i} : row'[j] = row[j] /\ ws'[j] = ws[j] /\ ordinal'[j] = ordinal[j]
  BY <1>1, <1>2 DEF TypeOK
<1>4. Live' = Live \cup {i} /\ i \notin Live /\ o \in 0 .. MaxOrdinal /\ o > 0
  BY <1>1, <1>3, SessionsAssumption DEF Live
<1>5. \A j \in Live : j \in Instance \ {i}
  BY <1>4 DEF Live
<1>6. \A j \in Live : ws[j] = w => Number(j) # o
  <2> SUFFICES ASSUME NEW j \in Live, ws[j] = w
               PROVE  Number(j) # o
    OBVIOUS
  <2>1. ordinal[j] < o /\ ordinal[j] \in Nat
    BY <1>1, <1>2, <1>5 DEF NextOrdinal, Of, TypeOK
  <2> QED BY <1>4, <2>1 DEF Number
<1>7. /\ Without(Stale) \in [Instance -> Entry \cup {None}]
      /\ \A t \in tmux : t.agent # i
  BY <1>1, <1>2, WithoutFacts DEF Unborn
<1>8. Spawned(i, w, Without(Stale), tmux)
  <2>1. \A j \in Instance : Without(Stale)[j] \in {None, entry[j]}
    BY <1>2, WithoutFacts
  <2>2. \A j \in Live \ {i} : ws[j] = w /\ i \notin Workspace => Number(j) # o
    BY <1>6
  <2>3. i \notin Live => row[i] = "absent"
    BY <1>1
  <2>4. i \in Live => ws[i] = w /\ ordinal[i] = o
    BY <1>4
  <2> QED BY <1>1, <1>3, <1>4, <1>7, <2>1, <2>2, <2>3, <2>4, Spawning
<1>9. TypeOK'
  <2>1. /\ seen'.shared = shared
        /\ seen' \in [slug : [Workspace -> Slug], shared : SUBSET Workspace]
    BY <1>1, <1>2 DEF TypeOK, Rows
  <2> QED BY <1>1, <1>2, <1>3, <1>8, <2>1 DEF TypeOK, Spawned
<1>10. Numbers'
  <2>0. \A j \in Live : Number(j)' = Number(j)
    BY <1>3, <1>5 DEF Number
  <2>1. \A j, k \in Live' : j # k /\ ws'[j] = ws'[k] => Number(j)' # Number(k)'
    <3>1. ASSUME NEW j \in Live, ws'[j] = w
          PROVE  Number(j)' # Number(i)'
      <4>1. Number(i)' = o
        BY <1>1, <1>3 DEF Number
      <4> QED BY <1>3, <1>5, <1>6, <2>0, <3>1, <4>1
    <3>2. ASSUME NEW j \in Live, NEW k \in Live, j # k, ws'[j] = ws'[k]
          PROVE  Number(j)' # Number(k)'
      BY <1>2, <1>3, <1>5, <2>0, <3>2 DEF Numbers
    <3> QED BY <1>3, <1>4, <3>1, <3>2
  <2>2. \A j \in Workspace : ws'[j] = j
    BY <1>1, <1>2, <1>3 DEF Numbers, Instance
  <2>3. \A j \in Instance : row'[j] # "absent" => ws'[j] \in Workspace
    BY <1>2, <1>3 DEF Numbers
  <2>4. \A j \in Live' \ Workspace : ordinal'[j] > 0
    BY <1>2, <1>3, <1>4, <1>5 DEF Numbers
  <2> QED BY <2>1, <2>2, <2>3, <2>4 DEF Numbers
<1>11. Flags'
  <2>1. seen'.shared = shared
    BY <1>1 DEF Rows
  <2>2. ASSUME NEW j \in Live', Settled(j)', ws'[j] \notin shared
        PROVE  session_ref'[j] = None
    <3>1. ws'[j] \in Workspace /\ ws'[j] \notin unsettled
      BY <1>1, <1>10, <2>2 DEF Numbers, Settled, Live
    <3>2. ws'[j] \notin seen.shared
      BY <1>2, <2>2, <3>1 DEF Flags
    <3> QED BY <1>1, <1>8, <2>2, <3>2 DEF Spawned, Free
  <2> QED BY <1>1, <2>1, <2>2 DEF Flags
<1>12. Jobs'
  <2>1. \A j \in job.all : j \in Instance \ {i}
    BY <1>1, <1>2 DEF Jobs, TypeOK, Job
  <2> QED BY <1>1, <1>2, <1>3, <2>1 DEF Jobs, Free
<1>13. Unsharing'
  BY <1>1 DEF Unsharing, Free
<1> QED BY <1>8, <1>9, <1>10, <1>11, <1>12, <1>13 DEF IInv, Spawned

LEMMA RestartedInv ==
  ASSUME IInv, NEW i \in Instance, Restarted(i)
  PROVE  IInv' /\ Attaches
<1>1. /\ job.kind \in {"share", "unshare"} /\ i \in job.todo
      /\ Respawn(i, Without({i}), Killed({i}, tmux))
      /\ job' = Visited(i) /\ UNCHANGED <<dbVars, seen, unsettled, renames>>
  BY DEF Restarted, First
<1>2. TypeOK /\ Jobs /\ Unsharing /\ i \in job.all /\ row[i] # "absent" /\ ws[i] = job.ws
  BY <1>1 DEF IInv, Jobs
<1>3. Killed({i}, tmux) \in SUBSET tmux
  BY KilledFacts
<1>4. /\ Without({i}) \in [Instance -> Entry \cup {None}]
      /\ \A j \in Instance : Without({i})[j] = IF j = i THEN None ELSE entry[j]
  BY <1>2, WithoutFacts
<1>5. CASE job.kind = "share"
  <2>1. /\ job' \in Job /\ job'.kind \in {"idle", "share"}
        /\ job'.all \subseteq job.all /\ job'.todo \subseteq job'.all
        /\ job'.kind = "share" => job'.ws = job.ws
        /\ job'.all # {} => job'.ws = job.ws
    BY <1>1, <1>2, <1>5 DEF Visited, Idle, Job, TypeOK, Jobs
  <2>2. ws[i] \in seen.shared
    BY <1>2, <1>5 DEF Jobs
  <2>3. /\ Unborn' /\ Numbers' /\ Shapes' /\ RefsDistinct' /\ RefFindsAgent' /\ Entries'
        /\ Flags' /\ Attaches /\ TypeOK'
    <3>1. CASE NotStarted(Without({i}), Killed({i}, tmux))
      <4>1. /\ Unborn' /\ Numbers' /\ Shapes' /\ RefsDistinct' /\ RefFindsAgent' /\ Entries'
            /\ Attaches /\ TypeOK' /\ Live' = Live /\ session_ref' = session_ref /\ lost' = lost
        BY <1>1, <1>2, <1>3, <2>1, <3>1, NotStartedFacts DEF TypeOK
      <4>2. Flags'
        BY <1>1, <1>5, <2>1, <4>1 DEF IInv, Flags, dbVars, Settled, Live
      <4> QED BY <4>1, <4>2
    <3>2. ASSUME i \in Live, NEW stored \in BOOLEAN,
                 Spawn(i, ws[i], ordinal[i], Without({i}), Killed({i}, tmux), {}, stored)
          PROVE  /\ Unborn' /\ Numbers' /\ Shapes' /\ RefsDistinct' /\ RefFindsAgent' /\ Entries'
                 /\ Flags' /\ Attaches /\ TypeOK'
      BY <1>1, <1>3, <1>4, <1>5, <2>1, <2>2, <3>2, SpawningLive
    <3> QED BY <1>1, <1>2, <3>1, <3>2 DEF Respawn
  <2>4. Jobs'
    BY <1>1, <1>2, <1>5, <2>1 DEF Jobs, dbVars
  <2>5. Unsharing'
    BY <2>1 DEF Unsharing
  <2> QED BY <2>3, <2>4, <2>5 DEF IInv
<1>6. CASE job.kind = "unshare"
  <2>1. job' = [job EXCEPT !.todo = @ \ {i}]
    BY <1>1, <1>6 DEF Visited
  <2>2. /\ job' \in Job /\ job'.kind = "unshare" /\ job'.ws = job.ws /\ job'.all = job.all
        /\ job'.todo = job.todo \ {i} /\ job'.running = job.running
    BY <1>2, <1>6, <2>1 DEF TypeOK, Job
  <2>3. i \in Live /\ Settled(i) => \A t \in Killed({i}, tmux) : t.agent # i
    BY <1>1, <1>6, UnshareKills
  <2>4. ws[i] \notin seen.shared
    BY <1>2, <1>6 DEF Unsharing
  <2>5. /\ Unborn' /\ Numbers' /\ Shapes' /\ RefsDistinct' /\ RefFindsAgent' /\ Entries'
        /\ Flags' /\ Attaches /\ TypeOK'
        /\ Live' = Live
        /\ \A j \in Instance \ {i} :
             session_ref'[j] = session_ref[j] /\ (entry[j] # None => entry'[j] # None)
        /\ \A t \in tmux' : t \in Killed({i}, tmux)
        /\ \A j \in Live : Settled(j)' => Settled(j)
    <3>1. CASE NotStarted(Without({i}), Killed({i}, tmux))
      <4>1. /\ Unborn' /\ Numbers' /\ Shapes' /\ RefsDistinct' /\ RefFindsAgent' /\ Entries'
            /\ Attaches /\ TypeOK' /\ Live' = Live /\ session_ref' = session_ref /\ lost' = lost
            /\ tmux' = Killed({i}, tmux)
            /\ \A j \in Instance \ {i} : entry[j] # None => entry'[j] # None
            /\ \A j \in Instance : Settled(j)' => Settled(j)
        BY <1>1, <1>2, <1>3, <2>2, <3>1, NotStartedFacts DEF TypeOK
      <4>2. Flags'
        BY <1>1, <1>6, <2>2, <4>1 DEF IInv, Flags, dbVars, Settled, Live
      <4>3. \A j \in Live : j \in Instance
        BY DEF Live
      <4> QED BY <4>1, <4>2, <4>3
    <3>2. ASSUME i \in Live, NEW stored \in BOOLEAN,
                 Spawn(i, ws[i], ordinal[i], Without({i}), Killed({i}, tmux), {}, stored)
          PROVE  /\ Unborn' /\ Numbers' /\ Shapes' /\ RefsDistinct' /\ RefFindsAgent' /\ Entries'
                 /\ Flags' /\ Attaches /\ TypeOK'
                 /\ Live' = Live
                 /\ \A j \in Instance \ {i} :
                      session_ref'[j] = session_ref[j] /\ (entry[j] # None => entry'[j] # None)
                 /\ \A t \in tmux' : t \in Killed({i}, tmux)
                 /\ \A j \in Live : Settled(j)' => Settled(j)
      <4>1. /\ Unborn' /\ Numbers' /\ Shapes' /\ RefsDistinct' /\ RefFindsAgent' /\ Entries'
            /\ Flags' /\ Attaches /\ (job' \in Job => TypeOK')
            /\ Live' = Live /\ Beside(i, Without({i}), Killed({i}, tmux))
        <5>1. \A j \in Instance : Without({i})[j] \in {None, entry[j]}
          BY <1>4
        <5>2. ws[i] \notin seen.shared /\ Settled(i) => \A t \in Killed({i}, tmux) : t.agent # i
          BY <2>3, <3>2
        <5>3. job.kind = "unshare" => job'.kind = "unshare" /\ job'.ws = job.ws
          BY <2>2
        <5>4. UNCHANGED <<dbVars, seen, unsettled, renames>>
          BY <1>1
        <5> QED BY <1>3, <1>4, <3>2, <5>1, <5>2, <5>3, <5>4, SpawningLive
      <4> QED BY <1>4, <2>2, <2>4, <4>1 DEF Beside
    <3> QED BY <1>1, <1>2, <3>1, <3>2 DEF Respawn
  <2>6. UNCHANGED <<row, ws, shared, seen>>
    BY <1>1 DEF dbVars
  <2>7. Jobs'
    BY <1>2, <1>6, <2>2, <2>6 DEF Jobs
  <2>8. Unsharing'
    <3>1. \A j \in job.todo \ {i} : entry'[j] # None
      BY <1>2, <1>6, <2>5 DEF Unsharing, TypeOK, Job
    <3>2. \A j \in Of(job.ws)' \ job.all : session_ref'[j] = None
      BY <1>2, <1>6, <2>2, <2>5, <2>6 DEF Unsharing, Of, Live
    <3>3. ASSUME NEW j \in (job.running \ (job.todo \ {i})) \cap Live', Settled(j)',
                 NEW t \in tmux', t.agent = j
          PROVE  FALSE
      <4>1. j \in Live /\ Settled(j) /\ t \in Killed({i}, tmux) /\ t \in tmux
        BY <1>3, <2>5, <3>3
      <4>2. CASE j = i
        BY <2>3, <3>3, <4>1, <4>2
      <4>3. CASE j # i
        BY <1>2, <1>6, <3>3, <4>1, <4>3 DEF Unsharing
      <4> QED BY <4>2, <4>3
    <3> QED BY <1>2, <1>6, <2>2, <2>6, <3>1, <3>2, <3>3 DEF Unsharing
  <2> QED BY <2>5, <2>7, <2>8 DEF IInv
<1> QED BY <1>1, <1>5, <1>6

LEMMA ForcedInv ==
  ASSUME IInv, NEW i \in Instance, Forced(i)
  PROVE  IInv' /\ Attaches
<1>1. /\ job.kind = "force" /\ i \in job.todo
      /\ job' = Visited(i) /\ UNCHANGED <<dbVars, seen, unsettled, renames>>
  BY DEF Forced, First
<1>2. TypeOK /\ Jobs /\ row[i] # "absent" /\ ws[i] = job.ws /\ ws[i] \in seen.shared
  BY <1>1 DEF IInv, Jobs
<1>3. /\ job' \in Job /\ job'.kind \in {"idle", "force"}
      /\ job'.all \subseteq job.all /\ job'.todo \subseteq job'.all
      /\ job'.kind = "force" => job'.ws = job.ws
      /\ job'.all # {} => job'.ws = job.ws
  BY <1>1, <1>2 DEF Visited, Idle, Job, TypeOK, Jobs
<1>4. UNCHANGED <<row, ws, ordinal, shared, slug, seen, unsettled, renames>>
  BY <1>1 DEF dbVars
<1>5. /\ Unborn' /\ Numbers' /\ Shapes' /\ RefsDistinct' /\ RefFindsAgent' /\ Entries'
      /\ Flags' /\ Attaches /\ TypeOK'
  <2>1. CASE Runs(i) /\ InTmux(i)
    <3>1. UNCHANGED <<session_ref, tmux, entry, lost>>
      BY <2>1 DEF Forced
    <3>2. TypeOK'
      BY <1>2, <1>3, <1>4, <3>1 DEF TypeOK, Runs, InTmux
    <3>3. \A j \in Instance : Number(j)' = Number(j) /\ (Settled(j)' <=> Settled(j))
      BY <1>4, <3>1 DEF Number, Settled
    <3>4. Live' = Live /\ \A j \in Live : j \in Instance
      BY <1>4 DEF Live
    <3>5. Unborn' /\ RefsDistinct' /\ Numbers' /\ Shapes'
      BY <1>4, <3>1, <3>3, <3>4 DEF IInv, Unborn, RefsDistinct, Numbers, Shapes
    <3>6. RefFindsAgent' /\ Entries'
      BY <1>4, <3>1, <3>3, <3>4 DEF IInv, RefFindsAgent, Entries
    <3>7. Flags'
      BY <1>1, <1>3, <1>4, <3>1, <3>3, <3>4 DEF IInv, Flags
    <3>8. Attaches
      BY <3>1 DEF Attaches, Attached
    <3> QED BY <3>2, <3>5, <3>6, <3>7, <3>8
  <2>2. CASE ~(Runs(i) /\ InTmux(i))
    <3>1. PICK sessions \in {tmux, Killed({i}, tmux)} : Respawn(i, Without({i}), sessions)
      BY <2>2 DEF Forced
    <3>2. sessions \in SUBSET tmux
      BY <3>1, KilledFacts
    <3>3. CASE NotStarted(Without({i}), sessions)
      <4>1. /\ Unborn' /\ Numbers' /\ Shapes' /\ RefsDistinct' /\ RefFindsAgent' /\ Entries'
            /\ Attaches /\ TypeOK' /\ Live' = Live /\ session_ref' = session_ref /\ lost' = lost
        BY <1>1, <1>2, <1>3, <3>2, <3>3, NotStartedFacts DEF TypeOK
      <4>2. Flags'
        BY <1>1, <1>3, <1>4, <4>1 DEF IInv, Flags, Settled, Live
      <4> QED BY <4>1, <4>2
    <3>4. ASSUME i \in Live, NEW stored \in BOOLEAN,
                 Spawn(i, ws[i], ordinal[i], Without({i}), sessions, {}, stored)
          PROVE  /\ Unborn' /\ Numbers' /\ Shapes' /\ RefsDistinct' /\ RefFindsAgent' /\ Entries'
                 /\ Flags' /\ Attaches /\ TypeOK'
      <4>1. /\ Without({i}) \in [Instance -> Entry \cup {None}]
            /\ \A j \in Instance : Without({i})[j] \in {None, entry[j]}
        BY <1>2, WithoutFacts
      <4> QED BY <1>1, <1>2, <1>3, <3>2, <3>4, <4>1, SpawningLive
    <3> QED BY <1>2, <3>1, <3>3, <3>4 DEF Respawn
  <2> QED BY <2>1, <2>2
<1>6. Jobs'
  BY <1>1, <1>2, <1>3, <1>4 DEF Jobs
<1>7. Unsharing'
  BY <1>3 DEF Unsharing
<1> QED BY <1>5, <1>6, <1>7 DEF IInv

-----------------------------------------------------------------------------
(* The invariant and what follows from it.                                 *)

LEMMA InitInv ==
  ASSUME Init
  PROVE  IInv
<1>1. /\ row = [i \in Instance |-> IF i \in Workspace THEN "live" ELSE "absent"]
      /\ ws = [i \in Instance |-> IF i \in Workspace THEN i ELSE None]
      /\ ordinal = [i \in Instance |-> IF i \in Workspace THEN 1 ELSE 0]
      /\ session_ref = [i \in Instance |-> None] /\ entry = [i \in Instance |-> None]
      /\ shared = {} /\ tmux = {} /\ seen = [slug |-> slug, shared |-> {}] /\ job = Idle
      /\ slug \in [Workspace -> Slug] /\ lost = {} /\ unsettled = {} /\ renames = 0
  BY DEF Init
<1>2. Live = Workspace /\ Workspace \subseteq Instance
  BY <1>1 DEF Live, Instance
<1>3. job \in Job /\ job.kind = "idle" /\ job.all = {} /\ job.todo = {}
  BY <1>1 DEF Idle, Job
<1>4. TypeOK
  <2>1. 1 \in 0 .. MaxOrdinal /\ 0 \in 0 .. MaxOrdinal
    BY SessionsAssumption
  <2>2. ordinal \in [Instance -> 0 .. MaxOrdinal]
    BY <1>1, <2>1
  <2>3. ws \in [Instance -> Workspace \cup {None}]
    BY <1>1
  <2>4. row \in [Instance -> {"absent", "live", "gone"}]
    BY <1>1
  <2>5. \A i \in Instance : ~Runs(i)
    BY <1>1 DEF Runs
  <2> QED BY <1>1, <1>3, <2>2, <2>3, <2>4, <2>5 DEF TypeOK
<1>5. Unborn /\ Shapes /\ RefsDistinct /\ RefFindsAgent /\ Entries
  BY <1>1, <1>2 DEF Unborn, Shapes, RefsDistinct, RefFindsAgent, Entries, Instance
<1>6. Numbers
  <2>1. \A i \in Workspace : ws[i] = i
    BY <1>1, <1>2
  <2>2. \A i \in Instance : row[i] # "absent" => ws[i] \in Workspace
    BY <1>1
  <2> QED BY <1>2, <2>1, <2>2 DEF Numbers
<1>7. Flags /\ Jobs /\ Unsharing
  BY <1>1, <1>2, <1>3 DEF Flags, Jobs, Unsharing
<1> QED BY <1>4, <1>5, <1>6, <1>7 DEF IInv

\* Nothing happens.
LEMMA StutterInv ==
  ASSUME IInv, UNCHANGED vars
  PROVE  IInv' /\ Attaches
<1>1. /\ UNCHANGED <<row, ws, ordinal, shared, slug, session_ref, tmux, entry, seen, job>>
      /\ UNCHANGED <<lost, unsettled, renames>>
  BY DEF vars, dbVars, historyVars
<1>2. TypeOK'
  BY <1>1 DEF IInv, TypeOK, Runs, InTmux
<1> QED BY <1>1, <1>2, Others DEF IInv

LEMMA Inductive ==
  ASSUME IInv, [Next]_vars
  PROVE  IInv' /\ Attaches
<1>1. ASSUME NEW i \in Peer, NEW w \in Workspace, NEW o \in 2 .. MaxOrdinal, AddByCli(i, w, o)
      PROVE  IInv' /\ Attaches
  BY <1>1, AddByCliInv
<1>2. ASSUME NEW i \in Peer, NEW w \in Workspace, NEW o \in 2 .. MaxOrdinal,
             NEW stored \in BOOLEAN, AddByPanel(i, w, o, stored)
      PROVE  IInv' /\ Attaches
  BY <1>2, AddByPanelInv
<1>3. ASSUME NEW i \in Instance, RemoveByCli(i) \/ RemoveByPanel(i)
      PROVE  IInv' /\ Attaches
  BY <1>3, RemoveByCliInv, RemoveByPanelInv
<1>4. ASSUME NEW i \in Instance, ChildExits(i) \/ ClientExits(i)
      PROVE  IInv' /\ Attaches
  BY <1>4, ExitInv DEF ChildExits, ClientExits
<1>5. ASSUME NEW i \in Instance, NEW stored \in BOOLEAN, Ensure(i, stored)
      PROVE  IInv' /\ Attaches
  BY <1>5, EnsureInv
<1>6. ASSUME NEW i \in Instance, Restarted(i) \/ UnshareFails(i) \/ Forced(i) \/ EndUnshare({i})
      PROVE  IInv' /\ Attaches
  BY <1>6, RestartedInv, UnshareFailsInv, ForcedInv, EndUnshareInv
<1>7. ASSUME NEW w \in Workspace,
             SetSharedByCli(w) \/ BeginShare(w) \/ BeginUnshare(w) \/ BeginForce(w)
      PROVE  IInv' /\ Attaches
  BY <1>7, SetSharedByCliInv, BeginInv
<1>8. ASSUME NEW w \in Workspace, NEW s \in Slug, Rename(w, s)
      PROVE  IInv' /\ Attaches
  BY <1>8, RenameInv
<1>9. ASSUME NEW t \in tmux, SessionEnds(t)
      PROVE  IInv' /\ Attaches
  BY <1>9, SessionEndsInv
<1>10. CASE Restart \/ Poll \/ EndUnshare({})
  BY <1>10, RestartInv, PollInv, EndUnshareInv
<1>11. CASE UNCHANGED vars
  BY <1>11, StutterInv
<1> QED BY <1>1, <1>2, <1>3, <1>4, <1>5, <1>6, <1>7, <1>8, <1>9, <1>10, <1>11 DEF Next

\* The types, the distinct names, the names that find their agents: what the
\* invariant says at every moment.
THEOREM SessionsInvariant == Spec => []IInv
<1>1. Init => IInv
  BY InitInv
<1>2. IInv /\ [Next]_vars => IInv'
  BY Inductive
<1> QED BY <1>1, <1>2, PTL DEF Spec

\* Every variable has its type, and a client that runs has a live session.
THEOREM TypeCorrect == Spec => []TypeOK
<1>1. IInv => TypeOK
  BY DEF IInv
<1> QED BY <1>1, SessionsInvariant, PTL

\* No two agents' rows store one tmux session (session_ref_in_use).
THEOREM NamesDistinct == Spec => []RefsDistinct
<1>1. IInv => RefsDistinct
  BY DEF IInv
<1> QED BY <1>1, SessionsInvariant, PTL

\* An agent alive in tmux is where its row says (tmux_name_for).
THEOREM NamesFindAgents == Spec => []RefFindsAgent
<1>1. IInv => RefFindsAgent
  BY DEF IInv
<1> QED BY <1>1, SessionsInvariant, PTL

\* A settled agent does not run as a child and in tmux at once.
THEOREM NeverTwice == Spec => []RunsOnce
<1>1. IInv => RunsOnce
  BY DEF IInv, Entries, RunsOnce, Runs, InTmux
<1> QED BY <1>1, SessionsInvariant, PTL

\* A client attaches to no other live agent's session (wrap_in_tmux's -A).
THEOREM AttachesRight == Spec => AttachesToLiveOwn
<1>1. IInv /\ [Next]_vars => [Attaches]_vars
  BY Inductive
<1>2. Attaches <=> \A i \in Instance : \A j \in Attached(i) :
                      j = i \/ j \notin Live \/ ~Settled(j)
  BY DEF Attaches
<1>3. IInv /\ [Next]_vars => [\A i \in Instance : \A j \in Attached(i) :
                                j = i \/ j \notin Live \/ ~Settled(j)]_vars
  BY <1>1, <1>2
<1> QED BY <1>3, SessionsInvariant, PTL DEF Spec, AttachesToLiveOwn
=============================================================================
