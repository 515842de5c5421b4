------------------------- MODULE AgentStatusProofs -------------------------
(***************************************************************************)
(* Proofs about AgentStatus, for every set of agents, every clock and any  *)
(* number of pushes on their way.  Every transaction but those of the old  *)
(* binary and remove_workspace_agent builds a set of rows from Adopted and *)
(* derives anew from it: Kept says what such a set keeps, AdoptedKept that *)
(* the adoption keeps it, RederivedIInv that the derivation does.          *)
(***************************************************************************)
EXTENDS AgentStatus, TLAPS

-----------------------------------------------------------------------------
(* The inductive invariant.                                                *)

\* A model's row has a message and is not parked; a hook's row has a message
\* only when it parked an explicit `working`.
Told(r) ==
  /\ r.source = "model" => r.note /\ r.state # "busy"
  /\ r.source = "hook" /\ r.note => r.state = "busy"

\* Why the message of a row is owed.
Why(r) ==
  IF ~r.note THEN "none"
  ELSE IF r.source = "hook" THEN "parked"
  ELSE IF r.state = "working" THEN "work"
  ELSE IF r.turn_ended THEN "ended" ELSE "turn"

\* A row is not from the future, and one that says that its agent is done or
\* blocked is no newer than the last time the agent said so.
RowKept(r, sp) ==
  /\ r \in AgentRow /\ Told(r) /\ r.at <= now
  /\ r.state \in Finished => r.at <= sp[r.agent]

\* What is owed agrees with the rows of the agents that are there.
OwedKept(R, ow) ==
  \A a \in live : /\ \A r \in R : r.agent = a => ow[a] = Why(r)
                  /\ ow[a] # "none" => \E r \in R : r.agent = a

Kept(R, ow, sp) ==
  /\ \A r \in R : RowKept(r, sp)
  /\ \A r, q \in R : r.agent = q.agent => r = q
  /\ OwedKept(R, ow)

\* A row that the old binary pushed.
Pushed(w) ==
  /\ w.note <=> w.source = "model"
  /\ w.source = "model" => w.state # "busy"
  /\ w.state \in Finished => w.at <= spoke[Primary]

\* The workspace row is of the old binary, or no newer than some agent's row,
\* so that the adoption leaves it alone.
RowOrigin ==
  \A w \in workspace_status :
    w.at <= now /\ (Pushed(w) \/ \E r \in agent_status : w.at <= r.at)

\* A push without a name is for the primary; an explicit one has a state that
\* the command line knows.
PushesLookedUp ==
  \A p \in pushes : /\ ~p.named => p.to = Primary
                    /\ p.act = "set" => p.state \in Reported

IInv ==
  /\ TypeOK
  /\ Kept(agent_status, owed, spoke)
  /\ RowOrigin
  /\ PushesLookedUp
  /\ DerivedShown

-----------------------------------------------------------------------------
(* The derivation.                                                         *)

\* Every state has a rank.
LEMMA RankType == \A s \in State : Rank[s] \in Nat
  BY DEF Rank, State, Reported

\* A derived table has one row at most, of the columns of an agent's row.
LEMMA DerivedRow ==
  ASSUME NEW R, R \subseteq AgentRow, \A r, q \in R : r.agent = q.agent => r = q
  PROVE  /\ Derived(R) \subseteq WorkspaceRow
         /\ \A v, w \in Derived(R) : v = w
         /\ \A w \in Derived(R) : \E r \in R : w = Shown(r)
<1>1. \A r \in R : Shown(r) \in WorkspaceRow
  BY DEF Shown, AgentRow, WorkspaceRow
<1>2. \A w \in Derived(R) : \E r \in R : w = Shown(r) /\ \A q \in R : Before(r, q)
  BY DEF Derived
<1>3. ASSUME NEW r \in R, NEW q \in R, Before(r, q), Before(q, r)
      PROVE  r = q
  <2>1. \A x \in AgentRow : x.state \in State /\ x.at \in Time /\ x.agent \in Agent
    BY DEF AgentRow
  <2>2. \A x \in R : Rank[x.state] \in Nat /\ x.at \in Nat /\ x.agent \in Nat
    <3>1. \A t \in Time : t \in Nat
      BY DEF Time
    <3>2. \A b \in Agent : b \in Nat
      BY StatusAssumption
    <3> QED
      BY <2>1, <3>1, <3>2, RankType
  <2>3. r.agent = q.agent
    BY <1>3, <2>1, <2>2 DEF Before
  <2> QED
    BY <2>3
<1>4. \A v, w \in Derived(R) : v = w
  BY <1>2, <1>3
<1> QED
  BY <1>1, <1>2, <1>4

\* The adoption keeps the rows and what is owed in agreement.
LEMMA AdoptedKept ==
  ASSUME IInv
  PROVE  /\ Kept(Adopted, OwedAdopted, spoke)
         /\ OwedAdopted \in [Agent -> Owing]
<1> USE StatusAssumption
<1>1. OwedAdopted \in [Agent -> Owing]
  BY DEF IInv, TypeOK, OwedAdopted, Owing
<1>2. CASE workspace_status = {}
  <2>1. Adopted = {} /\ \A a \in live : OwedAdopted[a] = "none"
    BY <1>2 DEF Adopted, OwedAdopted, IInv, TypeOK
  <2> QED
    BY <1>1, <2>1 DEF Kept, OwedKept
<1>3. CASE workspace_status # {} /\ ~\E w \in workspace_status : Direct(w)
  <2>1. Adopted = agent_status /\ \A a \in live : OwedAdopted[a] = owed[a]
    BY <1>3 DEF Adopted, OwedAdopted, IInv, TypeOK
  <2> QED
    BY <1>1, <2>1 DEF Kept, OwedKept, IInv
<1>4. ASSUME NEW w \in workspace_status, Direct(w)
      PROVE  Kept(Adopted, OwedAdopted, spoke)
  <2> DEFINE new == [agent |-> Primary, state |-> w.state, note |-> w.note,
                     source |-> w.source, turn_ended |-> FALSE, at |-> w.at]
  <2>1. workspace_status = {w}
    BY DEF IInv, TypeOK
  <2>2. Adopted = Others(agent_status, Primary) \cup {new}
    BY <1>4, <2>1 DEF Adopted
  <2>3. w \in WorkspaceRow /\ w.at \in Nat /\ w.at <= now
    BY DEF IInv, TypeOK, RowOrigin, WorkspaceRow, Time
  <2>4. Pushed(w)
    <3>1. ~\E r \in agent_status : w.at <= r.at
      BY <1>4, <2>3 DEF Direct, IInv, TypeOK, AgentRow, Time
    <3> QED
      BY <3>1 DEF IInv, RowOrigin
  <2>5. new \in AgentRow
    BY <2>3 DEF AgentRow, WorkspaceRow
  <2>6. RowKept(new, spoke)
    BY <2>3, <2>4, <2>5 DEF RowKept, Told, Pushed
  <2>7. \A r \in Adopted : RowKept(r, spoke)
    BY <2>2, <2>6 DEF Others, IInv, Kept
  <2>8. \A r, q \in Adopted : r.agent = q.agent => r = q
    <3>1. new.agent = Primary
      OBVIOUS
    <3>2. \A r, q \in agent_status : r.agent = q.agent => r = q
      BY DEF IInv, Kept
    <3> HIDE DEF new
    <3> QED
      BY <2>2, <3>1, <3>2 DEF Others
  <2>9. OwedAdopted[Primary] = Why(new)
    BY <1>4, <2>1, <2>3, <2>4 DEF OwedAdopted, Why, Pushed, WorkspaceRow
  <2>10. \A a \in live \ {Primary} : OwedAdopted[a] = owed[a]
    BY <1>4, <2>1 DEF OwedAdopted, IInv, TypeOK
  <2>11. OwedKept(Adopted, OwedAdopted)
    <3> SUFFICES ASSUME NEW a \in live
                 PROVE  /\ \A r \in Adopted : r.agent = a => OwedAdopted[a] = Why(r)
                        /\ OwedAdopted[a] # "none" => \E r \in Adopted : r.agent = a
      BY DEF OwedKept
    <3>1. CASE a = Primary
      <4>1. new.agent = Primary
        OBVIOUS
      <4> HIDE DEF new
      <4> QED
        BY <2>2, <2>9, <3>1, <4>1 DEF Others
    <3>2. CASE a # Primary
      BY <2>2, <2>10, <3>2 DEF Others, IInv, Kept, OwedKept
    <3> QED
      BY <3>1, <3>2
  <2> QED
    BY <2>7, <2>8, <2>11 DEF Kept
<1> QED
  BY <1>1, <1>2, <1>3, <1>4

\* A transaction that derives anew from rows that are kept keeps the invariant.
LEMMA DerivedIInv ==
  ASSUME IInv, NEW R, Kept(R, owed', spoke'),
         agent_status' = {r \in R : r.agent \in live'},
         workspace_status' = Derived(agent_status'),
         live' \subseteq live, Primary \in live', legacy' = FALSE,
         owed' \in [Agent -> Owing], spoke' \in [Agent -> Time],
         pushes' \subseteq pushes, UNCHANGED now
  PROVE  IInv'
<1>1. /\ agent_status' \subseteq R
      /\ agent_status' \subseteq AgentRow
      /\ \A r, q \in agent_status' : r.agent = q.agent => r = q
  BY DEF Kept, RowKept
<1>2. /\ Derived(agent_status') \subseteq WorkspaceRow
      /\ \A v, w \in Derived(agent_status') : v = w
      /\ \A w \in Derived(agent_status') : \E r \in agent_status' : w = Shown(r)
  BY <1>1, DerivedRow
<1>3. TypeOK'
  BY <1>1, <1>2 DEF IInv, TypeOK, AgentRow, WorkspaceRow, Time, Push
<1>4. Kept(agent_status, owed, spoke)'
  <2>1. \A r \in agent_status' : RowKept(r, spoke)'
    BY <1>1 DEF Kept, RowKept, Told
  <2>2. OwedKept(agent_status, owed)'
    BY DEF Kept, OwedKept, Why
  <2> QED
    BY <1>1, <2>1, <2>2 DEF Kept
<1>5. RowOrigin'
  <2> SUFFICES ASSUME NEW w \in workspace_status'
               PROVE  w.at <= now' /\ \E r \in agent_status' : w.at <= r.at
    BY DEF RowOrigin
  <2>1. PICK r \in agent_status' : w = Shown(r)
    BY <1>2
  <2>2. r \in AgentRow /\ r.at <= now /\ w.at = r.at
    BY <1>1, <2>1 DEF Kept, RowKept, Shown
  <2> QED
    BY <2>2 DEF AgentRow, Time
<1>6. PushesLookedUp'
  BY DEF IInv, PushesLookedUp
<1>7. DerivedShown'
  <2>1. {r \in agent_status' : r.agent \in live'} = agent_status'
    OBVIOUS
  <2> QED
    BY <2>1 DEF DerivedShown, Derived, Shown, Before
<1> QED
  BY <1>3, <1>4, <1>5, <1>6, <1>7 DEF IInv

\* ... and so does rederive_workspace_status, which leaves the agents alone.
LEMMA RederivedIInv ==
  ASSUME IInv, NEW R, rederive(R), Kept(R, owed', spoke'),
         owed' \in [Agent -> Owing], spoke' \in [Agent -> Time],
         pushes' \subseteq pushes, UNCHANGED <<live, now>>
  PROVE  IInv'
<1>1. /\ agent_status' = {r \in R : r.agent \in live'}
      /\ workspace_status' = Derived(agent_status')
      /\ legacy' = FALSE
  BY DEF rederive, Attached
<1>2. live' \subseteq live /\ Primary \in live'
  BY DEF IInv, TypeOK
<1> QED
  BY <1>1, <1>2, DerivedIInv

-----------------------------------------------------------------------------
(* The pushes.                                                             *)

\* One agent's row is put in the place of what it had, and what is owed to it
\* along; who else there is stays as it was.
LEMMA ReplacedKept ==
  ASSUME NEW R, NEW ow \in [Agent -> Owing], NEW sp \in [Agent -> Time],
         NEW a \in Agent, NEW S, NEW o \in Owing, NEW sp2 \in [Agent -> Time],
         Kept(R, ow, sp),
         \A b \in Agent \ {a} : sp2[b] = sp[b],
         \A r \in S : RowKept(r, sp2) /\ r.agent = a /\ o = Why(r),
         \A r, q \in S : r = q,
         o # "none" => S # {},
         live \subseteq Agent
  PROVE  /\ Kept(Others(R, a) \cup S, [ow EXCEPT ![a] = o], sp2)
         /\ [ow EXCEPT ![a] = o] \in [Agent -> Owing]
<1>1. \A r \in Others(R, a) : RowKept(r, sp2)
  BY DEF Others, Kept, RowKept, AgentRow
<1>2. \A r, q \in Others(R, a) \cup S : r.agent = q.agent => r = q
  BY DEF Others, Kept
<1>3. OwedKept(Others(R, a) \cup S, [ow EXCEPT ![a] = o])
  <2> SUFFICES ASSUME NEW b \in live
               PROVE  /\ \A r \in Others(R, a) \cup S :
                           r.agent = b => [ow EXCEPT ![a] = o][b] = Why(r)
                      /\ [ow EXCEPT ![a] = o][b] # "none" =>
                           \E r \in Others(R, a) \cup S : r.agent = b
    BY DEF OwedKept
  <2>1. CASE b = a
    BY <2>1 DEF Others
  <2>2. CASE b # a
    BY <2>2 DEF Others, Kept, OwedKept
  <2> QED
    BY <2>1, <2>2
<1> QED
  BY <1>1, <1>2, <1>3 DEF Kept

\* What a push finds: its columns, and a clock that is a time.
LEMMA PushType ==
  ASSUME IInv, NEW p \in pushes
  PROVE  /\ p.to \in Agent /\ p.state \in State
         /\ p.act \in {"set", "hook", "clear"} /\ p.named \in BOOLEAN
         /\ now \in Time /\ now \in Nat /\ live \subseteq Agent
         /\ spoke \in [Agent -> Time] /\ Spoken(p) \in [Agent -> Time]
         /\ p.state \in Finished => Spoken(p)[p.to] = now
         /\ p.state \notin Finished => Spoken(p) = spoke
         /\ \A b \in Agent \ {p.to} : Spoken(p)[b] = spoke[b]
<1>1. p \in Push /\ now \in Time /\ spoke \in [Agent -> Time] /\ live \subseteq Agent
  BY DEF IInv, TypeOK
<1>2. /\ p.to \in Agent /\ p.state \in State
      /\ p.act \in {"set", "hook", "clear"} /\ p.named \in BOOLEAN
  BY <1>1 DEF Push
<1>3. now \in Nat
  BY <1>1 DEF Time
<1> QED
  BY <1>1, <1>2, <1>3 DEF Spoken

\* An explicit push writes a row of the model.
LEMMA SetIInv ==
  ASSUME IInv, NEW p \in pushes, set_agent_status(p)
  PROVE  IInv'
<1> DEFINE new == Row(p.to, p.state, "model")
<1>0. p.state \in Reported
  BY DEF IInv, PushesLookedUp, set_agent_status
<1>1. /\ p.to \in Agent /\ now \in Time /\ now \in Nat /\ live \subseteq Agent
      /\ spoke \in [Agent -> Time] /\ Spoken(p) \in [Agent -> Time]
      /\ p.state \in Finished => Spoken(p)[p.to] = now
      /\ \A b \in Agent \ {p.to} : Spoken(p)[b] = spoke[b]
  BY PushType
<1>2. new \in AgentRow /\ new.agent = p.to /\ new.at = now /\ new.state = p.state
  BY <1>0, <1>1 DEF Row, AgentRow, State
<1>3. RowKept(new, Spoken(p))
  <2>1. Told(new)
    BY <1>0 DEF Told, Row, Reported
  <2> QED
    BY <1>1, <1>2, <2>1 DEF RowKept
<1>4. OwedBySet(p.state) = Why(new) /\ OwedBySet(p.state) \in Owing
  BY <1>0 DEF OwedBySet, Why, Row, Reported, TurnEnd, Owing
<1>5. /\ Kept(Others(Adopted, p.to) \cup {new}, owed', spoke')
      /\ owed' \in [Agent -> Owing]
  <2>1. owed' = [OwedAdopted EXCEPT ![p.to] = OwedBySet(p.state)] /\ spoke' = Spoken(p)
    BY DEF set_agent_status
  <2>2. \A r \in {new} : RowKept(r, Spoken(p)) /\ r.agent = p.to /\ OwedBySet(p.state) = Why(r)
    BY <1>2, <1>3, <1>4
  <2>3. {new} # {} /\ \A r, q \in {new} : r = q
    OBVIOUS
  <2>4. Kept(Adopted, OwedAdopted, spoke) /\ OwedAdopted \in [Agent -> Owing]
    BY AdoptedKept
  <2> HIDE DEF new
  <2> QED
    BY <1>1, <1>4, <2>1, <2>2, <2>3, <2>4, ReplacedKept
<1> QED
  BY <1>1, <1>5, RederivedIInv DEF set_agent_status

\* The merge keeps a row, and what is owed follows it: merge_hook implements
\* the rules of the message.
LEMMA MergedKept ==
  ASSUME NEW sp \in [Agent -> Time], NEW sp2 \in [Agent -> Time], NEW hook \in State,
         NEW r, RowKept(r, sp), now \in Time, now \in Nat,
         hook \in Finished => sp2[r.agent] = now,
         hook \notin Finished => sp2 = sp
  PROVE  /\ RowKept(Merged(r, hook), sp2)
         /\ Merged(r, hook).agent = r.agent
         /\ Why(Merged(r, hook)) = OwedByHook(Why(r), hook)
<1> USE DEF TurnEnd, Finished
<1>1. r \in AgentRow /\ r.at \in Nat /\ r.agent \in Agent /\ Told(r)
  BY DEF RowKept, AgentRow, Time
<1>2. \A s \in State : s \in {"working", "waiting", "blocked", "done", "busy"}
  BY DEF State, Reported
<1>3. r.state \in State /\ r.source \in {"model", "hook"} /\ r.note \in BOOLEAN
  BY <1>1 DEF AgentRow
<1>4. CASE IsDropped(r, hook)
  <2>1. Merged(r, hook) = r
    BY <1>4 DEF Merged, merge_hook
  <2>2. hook = "waiting" /\ sp2 = sp
    BY <1>4 DEF IsDropped
  <2>3. Why(r) = OwedByHook(Why(r), hook)
    BY <1>1, <1>3, <1>4, <2>2 DEF IsDropped, OwedByHook, Why, Told
  <2> QED
    BY <2>1, <2>2, <2>3
<1>5. CASE ~IsDropped(r, hook) /\ r.source = "model" /\ Confirms(r, hook)
  <2>1. Merged(r, hook) = [r EXCEPT !.at = now, !.turn_ended = TRUE]
    BY <1>5 DEF Merged, merge_hook
  <2>2. hook \in Finished /\ r.state \in TurnEnd /\ ~r.turn_ended
    BY <1>5 DEF Confirms
  <2>3. /\ Merged(r, hook) \in AgentRow /\ Merged(r, hook).at = now
        /\ Merged(r, hook).agent = r.agent /\ Merged(r, hook).turn_ended = TRUE
        /\ Merged(r, hook).state = r.state /\ Merged(r, hook).source = r.source
        /\ Merged(r, hook).note = r.note
    BY <1>1, <2>1 DEF AgentRow
  <2>4. RowKept(Merged(r, hook), sp2)
    BY <1>1, <2>2, <2>3 DEF RowKept, Told
  <2>5. Why(r) = "turn" /\ Why(Merged(r, hook)) = "ended"
    BY <1>1, <1>5, <2>2, <2>3 DEF Why, Told
  <2>6. OwedByHook("turn", hook) = "ended"
    BY <2>2 DEF OwedByHook
  <2> QED
    BY <2>3, <2>4, <2>5, <2>6
<1>6. CASE /\ ~IsDropped(r, hook) /\ ~(r.source = "model" /\ Confirms(r, hook))
           /\ r.state = hook /\ ~(r.source = "model" /\ r.state \in TurnEnd)
  <2>1. Merged(r, hook) = [r EXCEPT !.at = now]
    BY <1>6 DEF Merged, merge_hook
  <2>2. /\ Merged(r, hook) \in AgentRow /\ Merged(r, hook).at = now
        /\ Merged(r, hook).agent = r.agent /\ Merged(r, hook).turn_ended = r.turn_ended
        /\ Merged(r, hook).state = r.state /\ Merged(r, hook).source = r.source
        /\ Merged(r, hook).note = r.note
    BY <1>1, <2>1 DEF AgentRow
  <2>3. RowKept(Merged(r, hook), sp2)
    BY <1>1, <1>6, <2>2 DEF RowKept, Told
  <2>4. Why(Merged(r, hook)) = Why(r)
    BY <2>2 DEF Why
  <2>5. Why(r) = OwedByHook(Why(r), hook)
    BY <1>1, <1>2, <1>3, <1>6 DEF Why, Told, OwedByHook
  <2> QED
    BY <2>2, <2>3, <2>4, <2>5
<1>7. CASE r.source = "model" /\ r.state = "working" /\ hook = "busy"
  <2>1. Merged(r, hook) = [r EXCEPT !.state = hook, !.source = "hook", !.at = now]
    BY <1>7 DEF Merged, merge_hook, IsDropped, Confirms
  <2>2. /\ Merged(r, hook) \in AgentRow /\ Merged(r, hook).at = now
        /\ Merged(r, hook).agent = r.agent /\ Merged(r, hook).state = "busy"
        /\ Merged(r, hook).source = "hook" /\ Merged(r, hook).note = r.note
    BY <1>1, <1>7, <2>1 DEF AgentRow
  <2>3. RowKept(Merged(r, hook), sp2)
    BY <1>1, <2>2 DEF RowKept, Told
  <2>4. Why(r) = "work" /\ Why(Merged(r, hook)) = "parked"
    BY <1>1, <1>7, <2>2 DEF Why, Told
  <2>5. OwedByHook("work", hook) = "parked"
    BY <1>7 DEF OwedByHook
  <2> QED
    BY <2>2, <2>3, <2>4, <2>5
<1>8. CASE /\ ~IsDropped(r, hook) /\ ~(r.source = "model" /\ Confirms(r, hook))
           /\ ~(r.state = hook /\ ~(r.source = "model" /\ r.state \in TurnEnd))
           /\ ~(r.source = "model" /\ r.state = "working" /\ hook = "busy")
  <2>1. Merged(r, hook) = Row(r.agent, hook, "hook")
    BY <1>8 DEF Merged, merge_hook
  <2>2. /\ Merged(r, hook) \in AgentRow /\ Merged(r, hook).at = now
        /\ Merged(r, hook).agent = r.agent /\ Merged(r, hook).state = hook
        /\ Merged(r, hook).source = "hook" /\ Merged(r, hook).note = FALSE
    <3> DEFINE new == [agent |-> r.agent, state |-> hook, note |-> "hook" = "model",
                       source |-> "hook", turn_ended |-> FALSE, at |-> now]
    <3>1. Merged(r, hook) = new
      BY <2>1 DEF Row
    <3>2. new \in AgentRow
      BY <1>1 DEF AgentRow
    <3>3. /\ new.agent = r.agent /\ new.state = hook /\ new.source = "hook"
          /\ new.note = FALSE /\ new.at = now
      OBVIOUS
    <3> HIDE DEF new
    <3> QED
      BY <3>1, <3>2, <3>3
  <2>3. RowKept(Merged(r, hook), sp2)
    BY <2>2 DEF RowKept, Told
  <2>4. Why(Merged(r, hook)) = "none"
    BY <2>2 DEF Why
  <2>5. OwedByHook(Why(r), hook) = "none"
    BY <1>1, <1>2, <1>3, <1>8 DEF OwedByHook, Why, Told, IsDropped, Confirms
  <2> QED
    BY <2>2, <2>3, <2>4, <2>5
<1> QED
  BY <1>4, <1>5, <1>6, <1>7, <1>8

\* The rules of a hook say what is owed next.
LEMMA OwedByHookType ==
  ASSUME NEW x \in Owing, NEW hook \in State
  PROVE  OwedByHook(x, hook) \in Owing
<1>1. \/ hook = "waiting" \/ hook = "working" \/ hook = "busy" \/ hook \in Finished
  BY DEF State, Reported, Finished
<1>2. "none" \in Owing /\ "ended" \in Owing /\ "work" \in Owing /\ "parked" \in Owing
  BY DEF Owing
<1> QED
  BY <1>1, <1>2 DEF OwedByHook, Finished

\* A hook's push merges with the row of its agent, if there is one.
LEMMA HookIInv ==
  ASSUME IInv, NEW p \in pushes, apply_hook_status(p)
  PROVE  IInv'
<1> DEFINE prev == Of(Adopted, p.to)
           S == IF prev = {} THEN {Row(p.to, p.state, "hook")}
                ELSE {Merged(r, p.state) : r \in prev}
           o == OwedByHook(OwedAdopted[p.to], p.state)
<1>1. /\ p.to \in Agent /\ p.state \in State
      /\ now \in Time /\ now \in Nat /\ live \subseteq Agent
      /\ spoke \in [Agent -> Time] /\ Spoken(p) \in [Agent -> Time]
      /\ p.state \in Finished => Spoken(p)[p.to] = now
      /\ p.state \notin Finished => Spoken(p) = spoke
      /\ \A b \in Agent \ {p.to} : Spoken(p)[b] = spoke[b]
  BY PushType
<1>2. Kept(Adopted, OwedAdopted, spoke) /\ OwedAdopted \in [Agent -> Owing]
  BY AdoptedKept
<1>3. p.to \in live
  BY DEF apply_hook_status, Gone, IInv, TypeOK, PushesLookedUp
<1>4. o \in Owing
  <2>1. OwedAdopted[p.to] \in Owing
    BY <1>1, <1>2
  <2> QED
    BY <1>1, <2>1, OwedByHookType
<1>5. /\ \A r \in S : RowKept(r, Spoken(p)) /\ r.agent = p.to /\ o = Why(r)
      /\ \A r, q \in S : r = q
      /\ S # {}
  <2>1. CASE prev = {}
    <3> DEFINE new == Row(p.to, p.state, "hook")
    <3>1. OwedAdopted[p.to] = "none"
      BY <1>2, <1>3, <2>1 DEF Kept, OwedKept, Of
    <3>2. o = "none"
      BY <1>1, <3>1 DEF OwedByHook, State, Reported, Finished
    <3>3. /\ new \in AgentRow /\ new.agent = p.to /\ new.at = now /\ new.state = p.state
          /\ new.note = FALSE /\ new.source = "hook"
      BY <1>1 DEF Row, AgentRow
    <3>4. RowKept(new, Spoken(p)) /\ Why(new) = "none"
      BY <1>1, <3>3 DEF RowKept, Told, Why
    <3>5. S = {new}
      BY <2>1
    <3> HIDE DEF new, o, S
    <3> QED
      BY <3>2, <3>3, <3>4, <3>5
  <2>2. CASE prev # {}
    <3>1. PICK r \in prev : prev = {r}
      BY <1>2, <2>2 DEF Kept, Of
    <3>2. S = {Merged(r, p.state)}
      BY <2>2, <3>1
    <3>3. OwedAdopted[p.to] = Why(r) /\ r.agent = p.to /\ RowKept(r, spoke)
      BY <1>2, <1>3 DEF Kept, OwedKept, Of
    <3>4. /\ RowKept(Merged(r, p.state), Spoken(p))
          /\ Merged(r, p.state).agent = p.to
          /\ Why(Merged(r, p.state)) = o
      BY <1>1, <3>3, MergedKept
    <3> HIDE DEF o, S
    <3> QED
      BY <3>2, <3>4
  <2> QED
    BY <2>1, <2>2
<1>6. /\ owed' = [OwedAdopted EXCEPT ![p.to] = o] /\ spoke' = Spoken(p)
      /\ rederive(Others(Adopted, p.to) \cup S)
      /\ pushes' \subseteq pushes /\ UNCHANGED <<live, now>>
  BY DEF apply_hook_status
<1> HIDE DEF o, S, prev
<1>7. /\ Kept(Others(Adopted, p.to) \cup S, owed', spoke')
      /\ owed' \in [Agent -> Owing]
  BY <1>1, <1>2, <1>4, <1>5, <1>6, ReplacedKept
<1> QED
  BY <1>1, <1>6, <1>7, RederivedIInv

\* A clear takes the row of an agent away, or of all.
LEMMA ClearIInv ==
  ASSUME IInv, NEW p \in pushes, clear_agent_status(p) \/ clear_workspace_status(p)
  PROVE  IInv'
<1>1. /\ p.to \in Agent /\ live \subseteq Agent /\ spoke \in [Agent -> Time]
  BY PushType
<1>2. CASE clear_agent_status(p)
  <2>1. Kept(Adopted, OwedAdopted, spoke) /\ OwedAdopted \in [Agent -> Owing]
    BY AdoptedKept
  <2>2. "none" \in Owing
    BY DEF Owing
  <2>3. /\ Kept(Others(Adopted, p.to) \cup {}, [OwedAdopted EXCEPT ![p.to] = "none"], spoke)
        /\ [OwedAdopted EXCEPT ![p.to] = "none"] \in [Agent -> Owing]
    BY <1>1, <2>1, <2>2, ReplacedKept
  <2>4. Others(Adopted, p.to) \cup {} = Others(Adopted, p.to)
    OBVIOUS
  <2> QED
    BY <1>1, <1>2, <2>3, <2>4, RederivedIInv DEF clear_agent_status
<1>3. CASE clear_workspace_status(p)
  <2>1. Kept({}, owed', spoke') /\ owed' \in [Agent -> Owing]
    BY <1>1, <1>3 DEF clear_workspace_status, Kept, OwedKept, Owing
  <2> QED
    BY <1>1, <1>3, <2>1, RederivedIInv DEF clear_workspace_status
<1> QED
  BY <1>2, <1>3

\* A step that leaves the tables alone keeps the invariant.
LEMMA SameTables ==
  ASSUME IInv, UNCHANGED <<statusVars, historyVars>>,
         now' \in Time, now <= now', PushesLookedUp', pushes' \subseteq Push
  PROVE  IInv'
<1>1. now \in Nat /\ now' \in Nat
  BY DEF IInv, TypeOK, Time
<1>2. TypeOK'
  BY DEF IInv, TypeOK, statusVars, historyVars
<1>3. Kept(agent_status, owed, spoke)'
  <2>1. \A r \in agent_status' : RowKept(r, spoke)'
    BY <1>1 DEF IInv, Kept, RowKept, Told, AgentRow, Time, statusVars, historyVars
  <2> QED
    BY <2>1 DEF IInv, Kept, OwedKept, Why, statusVars, historyVars
<1>4. RowOrigin'
  BY <1>1 DEF IInv, TypeOK, RowOrigin, Pushed, WorkspaceRow, Time, statusVars, historyVars
<1>5. DerivedShown'
  BY DEF IInv, DerivedShown, Derived, Shown, Before, statusVars, historyVars
<1> QED
  BY <1>2, <1>3, <1>4, <1>5 DEF IInv

\* A push looks its agent up.
LEMMA BeginIInv ==
  ASSUME IInv, NEW by \in Agent \cup {Shell}, NEW act \in {"set", "hook", "clear"},
         NEW s \in State, Begin(by, act, s)
  PROVE  IInv'
<1> DEFINE p == [by |-> by, named |-> by \in live, to |-> IF by \in live THEN by ELSE Primary,
                 act |-> act, state |-> s]
<1>1. p \in Push
  BY StatusAssumption DEF IInv, TypeOK, Push
<1>2. (~p.named => p.to = Primary) /\ (p.act = "set" => p.state \in Reported)
  BY DEF Begin
<1>3. pushes' = pushes \cup {p} /\ UNCHANGED <<statusVars, now, historyVars>>
  BY DEF Begin
<1> HIDE DEF p
<1>4. PushesLookedUp' /\ pushes' \subseteq Push
  BY <1>1, <1>2, <1>3 DEF IInv, TypeOK, PushesLookedUp
<1>5. now' \in Time /\ now <= now'
  BY <1>3 DEF IInv, TypeOK, Time
<1> QED
  BY <1>3, <1>4, <1>5, SameTables

\* A push for an agent that is gone, and time.
LEMMA DropElapseIInv ==
  ASSUME IInv, Elapse \/ \E p \in pushes : PushDropped(p)
  PROVE  IInv'
<1>1. UNCHANGED <<statusVars, historyVars>> /\ pushes' \subseteq pushes
  BY DEF Elapse, PushDropped
<1>2. now' \in Time /\ now <= now'
  BY StatusAssumption DEF IInv, TypeOK, Time, Elapse, PushDropped
<1>3. PushesLookedUp' /\ pushes' \subseteq Push
  BY <1>1 DEF IInv, TypeOK, PushesLookedUp
<1> QED
  BY <1>1, <1>2, <1>3, SameTables

-----------------------------------------------------------------------------
(* Removal, and the older binary.                                          *)

\* A removal derives anew without the adoption.
LEMMA RemoveIInv ==
  ASSUME IInv, NEW a \in Agent, remove_workspace_agent(a)
  PROVE  IInv'
<1>1. live' = live \ {a} /\ a # Primary /\ Primary \in live'
  BY DEF remove_workspace_agent, IInv, TypeOK
<1>2. agent_status' = {r \in agent_status : r.agent \in live'}
  BY <1>1 DEF remove_workspace_agent
<1>3. workspace_status' = Derived(agent_status')
  BY DEF remove_workspace_agent
<1>4. Kept(agent_status, owed', spoke')
  BY DEF remove_workspace_agent, IInv
<1> QED
  BY <1>1, <1>2, <1>3, <1>4, DerivedIInv DEF remove_workspace_agent, IInv, TypeOK

\* A write of the older binary is the newest and says what it was pushed.
LEMMA LegacyPushIInv ==
  ASSUME IInv, NEW s \in State, NEW source \in {"model", "hook"}, LegacyPush(s, source)
  PROVE  IInv'
<1> DEFINE w == [state |-> s, note |-> source = "model", source |-> source, at |-> now]
<1>1. /\ workspace_status' = {w} /\ legacy' = TRUE
      /\ UNCHANGED <<live, agent_status, now, pushes, owed>>
      /\ spoke' = IF s \in Finished THEN [spoke EXCEPT ![Primary] = now] ELSE spoke
      /\ source = "model" => s \in Reported
  BY DEF LegacyPush
<1>2. now \in Time /\ now \in Nat /\ spoke \in [Agent -> Time] /\ Primary \in Agent
  BY StatusAssumption DEF IInv, TypeOK, Time
<1>3. spoke' \in [Agent -> Time] /\ \A a \in Agent : spoke'[a] = spoke[a] \/ spoke'[a] = now
  BY <1>1, <1>2
<1>4. w \in WorkspaceRow
  BY <1>2 DEF WorkspaceRow
<1>5. TypeOK'
  BY <1>1, <1>3, <1>4 DEF IInv, TypeOK
<1>6. Kept(agent_status, owed, spoke)'
  <2>1. \A r \in agent_status' : RowKept(r, spoke)'
    <3> SUFFICES ASSUME NEW r \in agent_status
                 PROVE  RowKept(r, spoke)'
      BY <1>1
    <3>1. RowKept(r, spoke) /\ r.agent \in Agent
      BY DEF IInv, Kept, RowKept, AgentRow
    <3> QED
      BY <1>1, <1>3, <3>1 DEF RowKept, Told
  <2> QED
    BY <1>1, <2>1 DEF IInv, Kept, OwedKept, Why
<1>7. RowOrigin'
  <2>1. w.at <= now
    BY <1>2
  <2>2. w.note <=> w.source = "model"
    OBVIOUS
  <2>3. w.source = "model" => w.state # "busy"
    BY <1>1 DEF Reported
  <2>4. w.state \in Finished => spoke'[Primary] = now
    BY <1>1, <1>2
  <2>5. \A v \in workspace_status' : v = w
    BY <1>1
  <2> HIDE DEF w
  <2>6. w.state \in Finished => w.at <= spoke'[Primary]
    BY <2>1, <2>4
  <2> QED
    BY <1>1, <2>1, <2>2, <2>3, <2>5, <2>6 DEF RowOrigin, Pushed
<1>8. PushesLookedUp' /\ DerivedShown'
  BY <1>1 DEF IInv, PushesLookedUp, DerivedShown
<1> QED
  BY <1>5, <1>6, <1>7, <1>8 DEF IInv

\* Its clears and removals only take something away.
LEMMA LegacyOtherIInv ==
  ASSUME IInv, LegacyClear \/ \E a \in Agent : LegacyRemove(a)
  PROVE  IInv'
<1>1. /\ UNCHANGED <<agent_status, now, pushes, spoke, owed>> /\ legacy' = TRUE
      /\ live' \subseteq live /\ Primary \in live'
      /\ workspace_status' \subseteq workspace_status
  BY DEF LegacyClear, LegacyRemove, IInv, TypeOK
<1>2. TypeOK'
  BY <1>1 DEF IInv, TypeOK
<1>3. Kept(agent_status, owed, spoke)'
  BY <1>1 DEF IInv, Kept, RowKept, Told, OwedKept, Why
<1>4. RowOrigin' /\ PushesLookedUp' /\ DerivedShown'
  BY <1>1 DEF IInv, RowOrigin, Pushed, PushesLookedUp, DerivedShown
<1> QED
  BY <1>2, <1>3, <1>4 DEF IInv

-----------------------------------------------------------------------------
(* The invariant, and what follows.                                        *)

\* A new workspace has no status and owes no message.
LEMMA InitIInv == Init => IInv
<1> SUFFICES ASSUME Init PROVE IInv
  OBVIOUS
<1> USE StatusAssumption DEF Init
<1>1. TypeOK
  <2>1. 0 \in Time /\ "none" \in Owing
    BY DEF Time, Owing
  <2>2. live \subseteq Agent /\ Primary \in live /\ legacy \in BOOLEAN
    OBVIOUS
  <2>3. /\ agent_status \subseteq AgentRow /\ workspace_status \subseteq WorkspaceRow
        /\ pushes \subseteq Push
    OBVIOUS
  <2>4. spoke \in [Agent -> Time] /\ owed \in [Agent -> Owing]
    BY <2>1
  <2> QED
    BY <2>1, <2>2, <2>3, <2>4 DEF TypeOK
<1>2. Kept(agent_status, owed, spoke) /\ RowOrigin /\ PushesLookedUp
  BY DEF Kept, OwedKept, RowOrigin, PushesLookedUp
<1>3. DerivedShown
  BY DEF DerivedShown, Derived
<1> QED
  BY <1>1, <1>2, <1>3 DEF IInv

\* Every step keeps the invariant.
LEMMA NextIInv == IInv /\ [Next]_vars => IInv'
<1> SUFFICES ASSUME IInv, [Next]_vars PROVE IInv'
  OBVIOUS
<1>1. ASSUME NEW by \in Agent \cup {Shell}, NEW act \in {"set", "hook", "clear"},
             NEW s \in State, Begin(by, act, s)
      PROVE  IInv'
  BY <1>1, BeginIInv
<1>2. ASSUME NEW p \in pushes, set_agent_status(p)
      PROVE  IInv'
  BY <1>2, SetIInv
<1>3. ASSUME NEW p \in pushes, apply_hook_status(p)
      PROVE  IInv'
  BY <1>3, HookIInv
<1>4. ASSUME NEW p \in pushes, clear_agent_status(p) \/ clear_workspace_status(p)
      PROVE  IInv'
  BY <1>4, ClearIInv
<1>5. CASE Elapse \/ \E p \in pushes : PushDropped(p)
  BY <1>5, DropElapseIInv
<1>6. ASSUME NEW a \in Agent, remove_workspace_agent(a)
      PROVE  IInv'
  BY <1>6, RemoveIInv
<1>7. ASSUME NEW s \in State, NEW source \in {"model", "hook"}, LegacyPush(s, source)
      PROVE  IInv'
  BY <1>7, LegacyPushIInv
<1>8. CASE LegacyClear \/ \E a \in Agent : LegacyRemove(a)
  BY <1>8, LegacyOtherIInv
<1>9. CASE UNCHANGED vars
  <2>1. now' \in Time /\ now <= now' /\ PushesLookedUp' /\ pushes' \subseteq Push
    BY <1>9 DEF vars, IInv, TypeOK, Time, PushesLookedUp
  <2> QED
    BY <1>9, <2>1, SameTables DEF vars
<1> QED
  BY <1>1, <1>2, <1>3, <1>4, <1>5, <1>6, <1>7, <1>8, <1>9 DEF Next

\* The inductive invariant holds in every behaviour.
THEOREM Invariance == Spec => []IInv
  BY InitIInv, NextIInv, PTL DEF Spec

\* Types hold for any agents and any clock: the tables keep one row per agent
\* and one per workspace, whatever is pushed, adopted and removed.
THEOREM TypeCorrect == Spec => []TypeOK
<1>1. IInv => TypeOK
  BY DEF IInv
<1> QED
  BY <1>1, Invariance, PTL

\* The row the dashboard shows is the derived one, but for what an old binary
\* wrote since (rederive_workspace_status ends every transaction).
THEOREM ShownIsDerived == Spec => []DerivedShown
<1>1. IInv => DerivedShown
  BY DEF IInv
<1> QED
  BY <1>1, Invariance, PTL

\* merge_hook shows a message exactly as long as the rules of the docs say, for
\* any interleaving of the pushes of any agents.
THEOREM MessageRules == Spec => []MessageHolds
<1>1. IInv => MessageHolds
  <2> SUFFICES ASSUME IInv, NEW a \in live
               PROVE  owed[a] # "none" <=> \E r \in agent_status : r.agent = a /\ r.note
    BY DEF MessageHolds
  <2>1. \A r \in agent_status : r.agent = a => owed[a] = Why(r)
    BY DEF IInv, Kept, OwedKept
  <2>2. owed[a] # "none" => \E r \in agent_status : r.agent = a
    BY DEF IInv, Kept, OwedKept
  <2>3. \A r : Why(r) # "none" <=> r.note
    BY DEF Why
  <2> QED
    BY <2>1, <2>2, <2>3
<1> QED
  BY <1>1, Invariance, PTL

\* `agent wait --done` ends only on what its peer said since it began.
THEOREM WaitsForNews == Spec => []WaitEndsOnNews
<1>1. IInv => WaitEndsOnNews
  <2> SUFFICES ASSUME IInv, NEW a \in Agent, NEW since \in Time, wait_for(a, since) = "done"
               PROVE  spoke[a] >= since
    BY DEF WaitEndsOnNews
  <2>1. PICK r \in Of(Attached(agent_status), a) : ends_wait(r, since)
    BY DEF wait_for
  <2>2. r \in agent_status /\ r.agent = a /\ r.state \in Finished /\ r.at >= since
    BY <2>1 DEF Of, Attached, ends_wait
  <2>3. r.at <= spoke[a] /\ r.at \in Nat /\ spoke[a] \in Nat /\ since \in Nat
    BY <2>2 DEF IInv, TypeOK, Kept, RowKept, AgentRow, Time
  <2> QED
    BY <2>2, <2>3
<1> QED
  BY <1>1, Invariance, PTL

\* What a push of an agent leaves of the others: their rows, as adopted.
LEMMA PeersKept ==
  ASSUME IInv, NEW p \in pushes,
         set_agent_status(p) \/ apply_hook_status(p) \/ clear_agent_status(p)
  PROVE  Others(agent_status', p.to) = Attached(Others(Adopted, p.to))
<1>1. CASE set_agent_status(p)
  <2>1. agent_status' = Attached(Others(Adopted, p.to) \cup {Row(p.to, p.state, "model")})
    BY <1>1 DEF set_agent_status, rederive
  <2>2. Row(p.to, p.state, "model").agent = p.to
    BY DEF Row
  <2> QED
    BY <2>1, <2>2 DEF Others, Attached
<1>2. CASE clear_agent_status(p)
  BY <1>2 DEF clear_agent_status, rederive, Others, Attached
<1>3. CASE apply_hook_status(p)
  <2> DEFINE prev == Of(Adopted, p.to)
             S == IF prev = {} THEN {Row(p.to, p.state, "hook")}
                  ELSE {Merged(r, p.state) : r \in prev}
  <2>1. agent_status' = Attached(Others(Adopted, p.to) \cup S)
    BY <1>3 DEF apply_hook_status, rederive
  <2>2. Row(p.to, p.state, "hook").agent = p.to
    BY DEF Row
  <2>3. ASSUME NEW r \in prev
        PROVE  Merged(r, p.state).agent = p.to
    <3>1. r.agent = p.to /\ RowKept(r, spoke)
      BY AdoptedKept DEF Of, Kept
    <3>2. /\ p.to \in Agent /\ p.state \in State /\ now \in Time /\ now \in Nat
          /\ spoke \in [Agent -> Time] /\ Spoken(p) \in [Agent -> Time]
          /\ p.state \in Finished => Spoken(p)[p.to] = now
          /\ p.state \notin Finished => Spoken(p) = spoke
      BY PushType
    <3> QED
      BY <3>1, <3>2, MergedKept
  <2>4. \A r \in S : r.agent = p.to
    BY <2>2, <2>3
  <2> HIDE DEF S
  <2> QED
    BY <2>1, <2>4 DEF Others, Attached
<1> QED
  BY <1>1, <1>2, <1>3

\* What an old binary pushed or cleared is adopted by the next push of a peer
\* (adopt_legacy_writes), in whichever order the pushes looked up their agent.
THEOREM OldWritesAdopted == Spec => LegacyAdopted
<1> DEFINE Adopts ==
      \A p \in pushes \ pushes' :
        p.to # Primary /\ p.to \in live =>
          /\ \A w \in workspace_status :
               (\A r \in agent_status : w.at > r.at) =>
                 w \in {Shown(r) : r \in Of(agent_status', Primary)}
          /\ workspace_status = {} => Others(agent_status', p.to) = {}
<1>1. IInv /\ [Next]_vars => [Adopts]_vars
  <2> SUFFICES ASSUME IInv, Next, NEW p \in pushes \ pushes', p.to # Primary, p.to \in live
               PROVE  /\ \A w \in workspace_status :
                           (\A r \in agent_status : w.at > r.at) =>
                             w \in {Shown(r) : r \in Of(agent_status', Primary)}
                      /\ workspace_status = {} => Others(agent_status', p.to) = {}
    OBVIOUS
  <2>1. set_agent_status(p) \/ apply_hook_status(p) \/ clear_agent_status(p)
    <3>1. PICK q \in pushes :
            \/ set_agent_status(q) \/ apply_hook_status(q) \/ PushDropped(q)
            \/ clear_agent_status(q) \/ clear_workspace_status(q)
      BY DEF Next, Begin, remove_workspace_agent, LegacyRemove, LegacyPush, LegacyClear, Elapse
    <3>2. pushes' = pushes \ {q}
      BY <3>1 DEF set_agent_status, apply_hook_status, PushDropped, clear_agent_status,
                  clear_workspace_status
    <3>3. p = q
      BY <3>2
    <3>4. ~PushDropped(p) /\ ~clear_workspace_status(p)
      BY DEF PushDropped, Gone, clear_workspace_status, IInv, PushesLookedUp
    <3> QED
      BY <3>1, <3>3, <3>4
  <2>2. Others(agent_status', p.to) = Attached(Others(Adopted, p.to))
    BY <2>1, PeersKept
  <2>3. ASSUME NEW w \in workspace_status, \A r \in agent_status : w.at > r.at
        PROVE  w \in {Shown(r) : r \in Of(agent_status', Primary)}
    <3> DEFINE new == [agent |-> Primary, state |-> w.state, note |-> w.note,
                       source |-> w.source, turn_ended |-> FALSE, at |-> w.at]
    <3>1. new \in Adopted
      BY <2>3 DEF Adopted, Direct
    <3>2. w = Shown(new)
      BY DEF IInv, TypeOK, WorkspaceRow, Shown
    <3>3. new.agent = Primary /\ Primary \in live
      BY DEF IInv, TypeOK
    <3> HIDE DEF new
    <3>4. new \in Of(agent_status', Primary)
      BY <2>2, <3>1, <3>3 DEF Others, Attached, Of
    <3> QED
      BY <3>2, <3>4
  <2>4. ASSUME workspace_status = {}
        PROVE  Others(agent_status', p.to) = {}
    BY <2>2, <2>4 DEF Adopted, Others, Attached
  <2> QED
    BY <2>3, <2>4
<1>2. Spec => [][Adopts]_vars
  BY <1>1, Invariance, PTL DEF Spec
<1> QED
  BY <1>2 DEF LegacyAdopted
=============================================================================
