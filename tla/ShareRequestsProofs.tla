------------------------- MODULE ShareRequestsProofs -------------------------
(***************************************************************************)
(* Proofs about ShareRequests, for any number of dashboards, requests,     *)
(* workspaces, agents and crashes: type correctness, that a request is     *)
(* acted on at most once and never after a refusal, what success means,    *)
(* from how the graces and waits compare with a tick, who claims a request *)
(* and that a refusal is true; and that it implements RestartRequest.      *)
(***************************************************************************)
EXTENDS ShareRequests, TLAPS

\* A dashboard that does not run holds nothing.
Down == \A d \in Dashboard : ~up[d] => pc[d] = "idle" /\ known[d] = {}

\* What is to be known of a request before it is made.
Fresh ==
  \A r \in Request : r > lastId =>
    /\ row[r] = "none" /\ cli[r] = "none" /\ age[r] = 0 /\ waited[r] = 0
    /\ steady[r] = {} /\ owners[r] = {}

\* A request in somebody's hands was claimed, is in nobody else's, and was not
\* acted on unless this is what is being recorded.
Held ==
  \A d \in Dashboard : \A r \in work[d] :
    /\ row[r] \notin {"none", "pending"}
    /\ cli[r] # "refused"
    /\ \A e \in Dashboard : r \in work[e] => e = d
    /\ ~(pc[d] = "finish" /\ IsFirst(r, work[d])) => acts[r] = 0

\* Nobody acted on a request that was not claimed, or that was withdrawn.
Untouched ==
  \A r \in Request : row[r] \in {"none", "pending"} \/ cli[r] = "refused" => acts[r] = 0

RefusedGone == \A r \in Request : cli[r] = "refused" => row[r] = "gone"

\* An entry that runs in tmux has its session there, and a flag that a dashboard
\* takes for set is set, unless there is a commit it has not looked at.
Sessions ==
  /\ \A d \in Dashboard, a \in Agent : session[d][a] = "tmux" => a \in tmux
  /\ \A d \in Dashboard : known[d] \subseteq shared \/ unseen[d]

\* Dashboard d looks at the pending request r before it is more than n + 1
\* units old, if it may claim it from n units on: whatever d was at when the
\* n-th unit began, it ends in that unit, and the tick after it takes r.
Watched(d, r, n) ==
  row[r] = "pending" =>
    /\ unseen[d] \/ again[d] \/ pc[d] = "claim"
    /\ age[r] <= n + 1
    /\ age[r] = n /\ ticked[d] => pc[d] \notin {"act", "finish"}
    /\ age[r] = n + 1 => pc[d] \notin {"act", "finish"} /\ ~ticked[d]

\* The first unit that lies between two ticks of the clock as a whole and in
\* which every dashboard may claim.
Grace == IF Defer = 0 THEN 1 ELSE Defer

Watchers ==
  \A r \in Request :
    /\ \A d \in steady[r] : Prompt /\ up[d] /\ Watched(d, r, Grace)
    /\ \A d \in owners[r] : Prompt /\ up[d] /\ Owns(d, of[r]) /\ Watched(d, r, 1)

\* A CLI has waited no longer than its pending request is old.
Waits ==
  \A r \in Request :
    /\ cli[r] \in Polling /\ row[r] = "pending" /\ age[r] <= Stale => waited[r] <= age[r]
    /\ cli[r] = "withdrawing" => waited[r] >= ClaimWait

\* The inductive invariant.
IInv ==
  /\ TypeOK
  /\ Down /\ Fresh /\ Held /\ Untouched /\ RefusedGone /\ ActedOnce
  /\ Sessions /\ Watchers /\ Waits

-----------------------------------------------------------------------------
(* The cases of a step.                                                     *)

\* Steps that only the CLI takes.
CliStep(r) ==
  \/ Poll(r) \/ withdraw_share_request(r) \/ CheckLive(r) \/ Kill(r)
  \/ \E outcome \in {"failed", "checking"} : Collect(r, outcome)

-----------------------------------------------------------------------------
(* Types.                                                                   *)

LEMMA CommittedType ==
  ASSUME TypeOK, NEW S
  PROVE  Committed(S) \in [Dashboard -> BOOLEAN]
BY DEF Committed, TypeOK

LEMMA TypeCliStep ==
  ASSUME TypeOK, NEW r \in Request, CliStep(r)
  PROVE  TypeOK'
<1> DEFINE T ==
      /\ row \in [Request -> RowState] /\ age \in [Request -> 0 .. Purge + 1]
      /\ cli \in [Request -> {"none"} \cup Waiting \cup Ended]
      /\ waited \in [Request -> 0 .. FinishWait]
      /\ unseen \in [Dashboard -> BOOLEAN]
<1>1. T /\ Committed({}) \in [Dashboard -> BOOLEAN] /\ Purge \in Nat /\ FinishWait \in Nat
  BY ShareAssumption, CommittedType DEF TypeOK
<1>2. CASE Poll(r)
  <2>1. NextForCli(r) \in Waiting \cup Ended
    BY DEF NextForCli, Waiting, Polling, Ended
  <2> QED
    BY <1>1, <1>2, <2>1 DEF Poll, TypeOK, dbVars, tickVars, agentVars, historyVars
<1>3. CASE withdraw_share_request(r)
  <2>1. {"gone"} \subseteq RowState /\ {"refused", "polling"} \subseteq Waiting \cup Ended
    BY DEF RowState, Waiting, Polling, Ended
  <2>2. T'
    BY <1>1, <1>3, <2>1 DEF withdraw_share_request
  <2> QED
    BY <1>3, <2>2 DEF withdraw_share_request, TypeOK, agentVars, historyVars
<1>4. CASE CheckLive(r)
  <2>1. {"live", "down"} \subseteq Ended
    BY DEF Ended
  <2> QED
    BY <1>1, <1>4, <2>1 DEF CheckLive, TypeOK, dbVars, tickVars, agentVars, historyVars
<1>5. CASE Kill(r)
  <2>1. "killed" \in Ended
    BY DEF Ended
  <2> QED
    BY <1>1, <1>5, <2>1 DEF Kill, TypeOK, dbVars, tickVars, agentVars, historyVars
<1>6. ASSUME NEW outcome \in {"failed", "checking"}, Collect(r, outcome)
      PROVE  TypeOK'
  <2>1. "gone" \in RowState /\ {"failed", "checking"} \subseteq Waiting \cup Ended
    BY DEF RowState, Waiting, Ended
  <2>2. T'
    BY <1>1, <1>6, <2>1 DEF Collect
  <2> QED
    BY <1>6, <2>2 DEF Collect, TypeOK, agentVars, historyVars
<1> QED
  BY <1>2, <1>3, <1>4, <1>5, <1>6 DEF CliStep

LEMMA TypeEnqueue ==
  ASSUME TypeOK, NEW w \in Workspace, Enqueue(w)
  PROVE  TypeOK'
<1>1. "pending" \in RowState /\ "polling" \in Waiting /\ lastId' \in 0 .. MaxRequest
  BY ShareAssumption DEF RowState, Waiting, Polling, Enqueue, TypeOK, Request
<1>2. Committed({}) \in [Dashboard -> BOOLEAN]
  BY CommittedType
<1>3. row' \in [Request -> RowState] /\ of' \in [Request -> Workspace]
  BY <1>1 DEF Enqueue, TypeOK
<1>4. cli' \in [Request -> {"none"} \cup Waiting \cup Ended]
  BY <1>1 DEF Enqueue, TypeOK
<1>5. steady' \in [Request -> SUBSET Dashboard] /\ owners' \in [Request -> SUBSET Dashboard]
  BY DEF Enqueue, TypeOK
<1> QED
  BY <1>1, <1>2, <1>3, <1>4, <1>5 DEF Enqueue, TypeOK, agentVars

LEMMA TypeLook ==
  ASSUME TypeOK, NEW d \in Dashboard, NEW refreshed \in BOOLEAN, Look(d, refreshed)
  PROVE  TypeOK'
BY ShareAssumption DEF Look, TypeOK, dbVars, cliVars, historyVars

LEMMA TypeClaim ==
  ASSUME TypeOK, NEW d \in Dashboard, claim_share_requests(d)
  PROVE  TypeOK'
<1> USE ShareAssumption
<1> DEFINE claimed == {r \in Open : Due(d, r)}
<1>1. claimed \subseteq Request
  BY DEF Open
<1>2. /\ row' \in [Request -> RowState]
      /\ age' \in [Request -> 0 .. Purge + 1]
  BY DEF claim_share_requests, TypeOK, RowState
<1>3. unseen' \in [Dashboard -> BOOLEAN]
  BY CommittedType DEF claim_share_requests, TypeOK
<1>4. /\ work' = [work EXCEPT ![d] = claimed]
      /\ pc' = [pc EXCEPT ![d] = AfterWork(claimed)]
      /\ work[d] = {}
  BY DEF claim_share_requests, TypeOK
<1>5. /\ work' \in [Dashboard -> SUBSET Request]
      /\ pc' \in [Dashboard -> {"idle", "claim", "act", "finish"}]
      /\ \A e \in Dashboard : pc'[e] \in {"act", "finish"} <=> work'[e] # {}
  BY <1>1, <1>4 DEF TypeOK, AfterWork
<1>6. /\ again' \in [Dashboard -> BOOLEAN]
      /\ ticked' \in [Dashboard -> BOOLEAN]
  BY DEF claim_share_requests, TypeOK, LookAgain
<1> QED
  BY <1>2, <1>3, <1>5, <1>6 DEF claim_share_requests, TypeOK, cliVars, agentVars, historyVars

LEMMA TypeForce ==
  ASSUME TypeOK, NEW d \in Dashboard, NEW r \in Request, force_share_workspace(d, r)
  PROVE  TypeOK'
<1> USE ShareAssumption
<1> DEFINE TypedShare ==
      /\ shared' \subseteq Workspace /\ known' \in [Dashboard -> SUBSET Workspace]
      /\ tmux' \subseteq Agent
      /\ session' \in [Dashboard -> [Agent -> {"none", "direct", "tmux", "exited"}]]
      /\ result' \in [Dashboard -> {"finished", "failed"}]
<1>1. of[r] \in Workspace /\ known[d] \subseteq Workspace
  BY DEF TypeOK
<1>2. TypedShare
  <2>1. ASSUME NEW down \in SUBSET Instances(of[r]), Share(d, of[r], down)
        PROVE  TypedShare
    BY <1>1, <2>1 DEF Share, Flagged, TypeOK, Instances
  <2>2. CASE ShareRefused(d, of[r])
    <3>1. shared' \subseteq Workspace
      BY <1>1, <2>2 DEF ShareRefused, TypeOK
    <3> QED
      BY <2>2, <3>1 DEF ShareRefused, TypeOK
  <2> QED
    BY <2>1, <2>2 DEF force_share_workspace
<1>3. Committed({d}) \in [Dashboard -> BOOLEAN]
  BY CommittedType
<1>4. /\ pc' \in [Dashboard -> {"idle", "claim", "act", "finish"}]
      /\ \A e \in Dashboard : pc'[e] \in {"act", "finish"} <=> work[e] # {}
      /\ acts' \in [Request -> Nat] /\ unseen' \in [Dashboard -> BOOLEAN]
  <2>1. /\ pc' \in [Dashboard -> {"idle", "claim", "act", "finish"}]
        /\ \A e \in Dashboard : pc'[e] \in {"act", "finish"} <=> work[e] # {}
    BY DEF force_share_workspace, TypeOK
  <2>2. acts' \in [Request -> Nat]
    <3>1. acts \in [Request -> Nat] /\ acts' = [acts EXCEPT ![r] = @ + 1]
      BY DEF force_share_workspace, TypeOK
    <3> QED
      BY <3>1
  <2>3. unseen' \in [Dashboard -> BOOLEAN]
    BY <1>3 DEF force_share_workspace, TypeOK
  <2> QED
    BY <2>1, <2>2, <2>3
<1>5. owners' \in [Request -> SUBSET Dashboard]
  BY DEF force_share_workspace, OwnersLeft, TypeOK
<1> QED
  BY <1>2, <1>4, <1>5 DEF force_share_workspace, TypeOK, dbVars, cliVars

LEMMA TypeFinish ==
  ASSUME TypeOK, NEW d \in Dashboard, NEW r \in Request, NEW recorded \in BOOLEAN,
         finish_share_request(d, r, recorded)
  PROVE  TypeOK'
<1>1. Committed({d}) \in [Dashboard -> BOOLEAN] /\ Purge \in Nat
  BY CommittedType, ShareAssumption
<1>2. result[d] \in RowState
  BY DEF TypeOK, RowState
<1>3. /\ row' \in [Request -> RowState] /\ age' \in [Request -> 0 .. Purge + 1]
      /\ unseen' \in [Dashboard -> BOOLEAN]
  <2>1. CASE recorded
    <3>1. /\ row' = [row EXCEPT ![r] = result[d]] /\ age' = [age EXCEPT ![r] = 0]
          /\ unseen' = Committed({d})
      BY <2>1 DEF finish_share_request
    <3>2. row' \in [Request -> RowState]
      BY <1>2, <3>1 DEF TypeOK
    <3>3. age' \in [Request -> 0 .. Purge + 1]
      <4>1. 0 \in 0 .. Purge + 1 /\ age \in [Request -> 0 .. Purge + 1]
        BY <1>1 DEF TypeOK
      <4> QED
        BY <3>1, <4>1
    <3> QED
      BY <1>1, <3>1, <3>2, <3>3
  <2>2. CASE ~recorded
    BY <2>2 DEF finish_share_request, TypeOK
  <2> QED
    BY <2>1, <2>2
<1>4. /\ work' \in [Dashboard -> SUBSET Request]
      /\ pc' \in [Dashboard -> {"idle", "claim", "act", "finish"}]
      /\ \A e \in Dashboard : pc'[e] \in {"act", "finish"} <=> work'[e] # {}
  BY DEF finish_share_request, TypeOK, AfterWork
<1>5. /\ ticked' \in [Dashboard -> BOOLEAN] /\ result' \in [Dashboard -> {"finished", "failed"}]
  BY ShareAssumption DEF finish_share_request, TypeOK
<1> QED
  BY <1>3, <1>4, <1>5 DEF finish_share_request, TypeOK, cliVars, agentVars, historyVars

LEMMA TypeEnvironment ==
  ASSUME TypeOK,
         \/ \E d \in Dashboard : \/ \E a \in Agent : Attach(d, a)
                                 \/ ClaimBusy(d) \/ Refresh(d) \/ Crash(d) \/ Start(d)
         \/ \E a \in Agent : Exit(a)
         \/ \E w \in Workspace : FlipFlag(w)
  PROVE  TypeOK'
<1> USE DEF dbVars, cliVars, tickVars, historyVars
<1>1. ASSUME NEW d \in Dashboard, NEW a \in Agent, Attach(d, a)
      PROVE  TypeOK'
  BY <1>1 DEF Attach, TypeOK
<1>2. ASSUME NEW d \in Dashboard, ClaimBusy(d)
      PROVE  TypeOK'
  BY <1>2 DEF ClaimBusy, TypeOK, agentVars
<1>3. ASSUME NEW d \in Dashboard, Refresh(d)
      PROVE  TypeOK'
  BY <1>3 DEF Refresh, TypeOK
<1>4. ASSUME NEW d \in Dashboard, Crash(d)
      PROVE  TypeOK'
  <2>1. crashes' \in 0 .. MaxCrash
    BY <1>4, ShareAssumption DEF Crash, TypeOK
  <2>2. /\ steady' \in [Request -> SUBSET Dashboard]
        /\ owners' \in [Request -> SUBSET Dashboard]
    BY <1>4 DEF Crash, OwnersLeft, TypeOK
  <2>3. /\ work' \in [Dashboard -> SUBSET Request]
        /\ pc' \in [Dashboard -> {"idle", "claim", "act", "finish"}]
        /\ \A e \in Dashboard : pc'[e] \in {"act", "finish"} <=> work'[e] # {}
    BY <1>4 DEF Crash, TypeOK
  <2> QED
    BY <1>4, <2>1, <2>2, <2>3 DEF Crash, TypeOK
<1>5. ASSUME NEW d \in Dashboard, Start(d)
      PROVE  TypeOK'
  BY <1>5 DEF Start, TypeOK
<1>6. ASSUME NEW a \in Agent, Exit(a)
      PROVE  TypeOK'
  <2>1. tmux' \subseteq Agent
    BY <1>6 DEF Exit, TypeOK
  <2>2. session' \in [Dashboard -> [Agent -> {"none", "direct", "tmux", "exited"}]]
    <3>1. session \in [Dashboard -> [Agent -> {"none", "direct", "tmux", "exited"}]]
      BY DEF TypeOK
    <3>2. CASE \E d \in Dashboard : session' = [session EXCEPT ![d][a] = "exited"]
      BY <3>1, <3>2
    <3>3. CASE session' = [d \in Dashboard |-> [session[d] EXCEPT ![a] =
                            IF @ = "tmux" THEN "exited" ELSE @]]
      BY <3>1, <3>3
    <3> QED
      BY <1>6, <3>2, <3>3 DEF Exit
  <2>3. owners' \in [Request -> SUBSET Dashboard]
    BY <1>6 DEF Exit, OwnersLeft, TypeOK
  <2> QED
    BY <1>6, <2>1, <2>2, <2>3 DEF Exit, TypeOK
<1>7. ASSUME NEW w \in Workspace, FlipFlag(w)
      PROVE  TypeOK'
  BY <1>7, CommittedType DEF FlipFlag, TypeOK
<1> QED
  BY <1>1, <1>2, <1>3, <1>4, <1>5, <1>6, <1>7

LEMMA TypeElapse ==
  ASSUME TypeOK, Elapse
  PROVE  TypeOK'
<1>1. age' \in [Request -> 0 .. Purge + 1]
  BY ShareAssumption DEF Elapse, TypeOK, Limit
<1>2. waited' \in [Request -> 0 .. FinishWait]
  BY ShareAssumption DEF Elapse, TypeOK
<1> QED
  BY <1>1, <1>2 DEF Elapse, TypeOK, agentVars, historyVars
-----------------------------------------------------------------------------
(* A request is in at most one pair of hands.                               *)

Hands == Down /\ Fresh /\ Held /\ Untouched /\ RefusedGone /\ ActedOnce

LEMMA HandsCheckLive ==
  ASSUME TypeOK, Hands, NEW r \in Request, CheckLive(r)
  PROVE  Hands'
<1>1. cli[r] = "checking" /\ cli \in [Request -> {"none"} \cup Waiting \cup Ended]
  BY DEF CheckLive, TypeOK
<1>2. PICK outcome \in {"live", "down"} : cli' = [cli EXCEPT ![r] = outcome]
  BY DEF CheckLive
<1>3. /\ \A q \in Request : cli'[q] = "refused" => cli[q] = "refused"
      /\ \A q \in Request : cli[q] = "none" => cli'[q] = "none"
  BY <1>1, <1>2
<1>4. UNCHANGED <<row, age, lastId, waited, up, pc, work, known, acts, steady, owners>>
  BY DEF CheckLive, dbVars, tickVars, agentVars, historyVars
<1>5. \A d \in Dashboard : work[d] \subseteq Request
  BY DEF TypeOK
<1>6. Held'
  BY <1>3, <1>4, <1>5 DEF Hands, Held, IsFirst
<1>7. Fresh'
  BY <1>3, <1>4 DEF Hands, Fresh
<1> QED
  BY <1>3, <1>4, <1>6, <1>7 DEF Hands, Down, Untouched, RefusedGone, ActedOnce

LEMMA HandsCliStep ==
  ASSUME TypeOK, Hands, NEW r \in Request, CliStep(r)
  PROVE  Hands'
<1> USE DEF Hands, Down, Fresh, Held, Untouched, RefusedGone, ActedOnce,
            dbVars, tickVars, agentVars, historyVars, TypeOK
<1>1. CASE Poll(r)
  <2>1. NextForCli(r) # "refused"
    BY DEF NextForCli
  <2> QED
    BY <1>1, <2>1 DEF Poll
<1>2. CASE withdraw_share_request(r)
  BY <1>2 DEF withdraw_share_request, Withdrawn
<1>3. CASE CheckLive(r)
  BY <1>3, HandsCheckLive
<1>4. CASE Kill(r)
  BY <1>4 DEF Kill, Waiting, Polling
<1>5. ASSUME NEW outcome \in {"failed", "checking"}, Collect(r, outcome)
      PROVE  Hands'
  BY <1>5 DEF Collect
<1> QED
  BY <1>1, <1>2, <1>3, <1>4, <1>5 DEF CliStep

LEMMA HandsEnqueue ==
  ASSUME TypeOK, Hands, NEW w \in Workspace, Enqueue(w)
  PROVE  Hands'
BY DEF Enqueue, Hands, Down, Fresh, Held, Untouched, RefusedGone, ActedOnce, agentVars,
       TypeOK, Request

LEMMA HandsClaim ==
  ASSUME TypeOK, Hands, NEW d \in Dashboard, claim_share_requests(d)
  PROVE  Hands'
<1> DEFINE claimed == {r \in Open : Due(d, r)}
<1>1. /\ \A r \in claimed : r \in Request /\ row[r] = "pending"
      /\ \A r \in Purged \cup Abandoned : r \in Request /\ row[r] # "none"
  BY DEF Open, Purged, Abandoned
<1>2. /\ \A r \in Request : row[r] \in {"none", "gone"} => row'[r] = row[r]
      /\ \A r \in Request : row'[r] \in {"none", "pending"} => row'[r] = row[r]
      /\ \A r \in claimed : row'[r] \notin {"none", "pending"}
      /\ \A r \in Request : row[r] = "none" => age'[r] = age[r]
  BY <1>1 DEF claim_share_requests, Purged, Abandoned, Open
<1>3. /\ work' = [work EXCEPT ![d] = claimed]
      /\ \A e \in Dashboard \ {d} : pc'[e] = pc[e] /\ work'[e] = work[e]
      /\ work'[d] = claimed /\ pc'[d] # "finish" /\ work[d] = {} /\ up[d]
      /\ UNCHANGED <<acts, lastId, cli, waited, up, known, steady, owners>>
  BY DEF claim_share_requests, TypeOK, AfterWork, cliVars, agentVars, historyVars
<1>4. \A e \in Dashboard : \A r \in work[e] : r \notin claimed
  BY <1>1 DEF Hands, Held
<1>5. Held'
  BY <1>1, <1>2, <1>3, <1>4 DEF Hands, Held, Untouched, RefusedGone, IsFirst, TypeOK
<1> QED
  BY <1>2, <1>3, <1>5 DEF Hands, Down, Fresh, Untouched, RefusedGone, ActedOnce, TypeOK

LEMMA HandsForce ==
  ASSUME TypeOK, Hands, NEW d \in Dashboard, NEW r \in Request, force_share_workspace(d, r)
  PROVE  Hands'
<1>1. /\ r \in work[d] /\ acts[r] = 0 /\ up[d]
      /\ row[r] \notin {"none", "pending"} /\ cli[r] # "refused"
      /\ \A e \in Dashboard : r \in work[e] => e = d
  BY DEF force_share_workspace, Hands, Held, IsFirst
<1>2. /\ acts' = [acts EXCEPT ![r] = 1]
      /\ pc' = [pc EXCEPT ![d] = "finish"]
      /\ UNCHANGED <<row, age, lastId, cli, waited, up, work, steady>>
  BY <1>1 DEF force_share_workspace, dbVars, cliVars, TypeOK
<1>3. IsFirst(r, work[d])
  BY DEF force_share_workspace
<1>4. \A e \in Dashboard \ {d} : known'[e] = known[e]
  BY DEF force_share_workspace, Share, Flagged, ShareRefused, TypeOK
<1>5. Held'
  BY <1>1, <1>2, <1>3 DEF Hands, Held, IsFirst, TypeOK
<1>6. Fresh'
  BY <1>2 DEF Hands, Fresh, OwnersLeft, force_share_workspace, TypeOK
<1> QED
  BY <1>1, <1>2, <1>4, <1>5, <1>6
     DEF Hands, Down, Untouched, RefusedGone, ActedOnce, TypeOK

LEMMA HandsFinish ==
  ASSUME TypeOK, Hands, NEW d \in Dashboard, NEW r \in Request, NEW recorded \in BOOLEAN,
         finish_share_request(d, r, recorded)
  PROVE  Hands'
<1>1. /\ r \in work[d] /\ IsFirst(r, work[d]) /\ up[d] /\ pc[d] = "finish"
      /\ row[r] \notin {"none", "pending"} /\ cli[r] # "refused"
  BY DEF finish_share_request, Hands, Held, IsFirst
<1>2. /\ \A q \in Request : q # r => row'[q] = row[q] /\ age'[q] = age[q]
      /\ row'[r] \notin {"none", "pending"}
      /\ row[r] = "gone" => row'[r] = "gone"
  <2>1. result[d] \in {"finished", "failed"}
    BY DEF TypeOK
  <2>2. CASE recorded
    BY <1>1, <2>1, <2>2 DEF finish_share_request, TypeOK
  <2>3. CASE ~recorded
    BY <1>1, <2>3 DEF finish_share_request, TypeOK
  <2> QED
    BY <2>2, <2>3
<1>3. /\ work' = [work EXCEPT ![d] = @ \ {r}]
      /\ pc' = [pc EXCEPT ![d] = AfterWork(work[d] \ {r})]
      /\ UNCHANGED <<acts, lastId, cli, waited, up, known, steady, owners>>
  BY DEF finish_share_request, cliVars, agentVars, historyVars
<1>4. pc'[d] # "finish"
  BY <1>3 DEF AfterWork, TypeOK
<1>5. \A q \in work[d] \ {r} : acts[q] = 0
  <2> SUFFICES ASSUME NEW q \in work[d] \ {r} PROVE acts[q] = 0
    OBVIOUS
  <2>1. q \in Nat /\ r \in Nat /\ r <= q
    BY <1>1 DEF IsFirst, TypeOK, Request
  <2>2. ~IsFirst(q, work[d])
    BY <1>1, <2>1 DEF IsFirst
  <2> QED
    BY <2>2 DEF Hands, Held
<1>6. Held'
  BY <1>1, <1>2, <1>3, <1>4, <1>5 DEF Hands, Held, IsFirst, TypeOK
<1>7. Down' /\ Fresh'
  BY <1>1, <1>2, <1>3 DEF Hands, Down, Fresh, TypeOK
<1> QED
  BY <1>1, <1>2, <1>3, <1>6, <1>7 DEF Hands, Untouched, RefusedGone, ActedOnce, TypeOK

\* What the other steps of dashboards, agents and the clock leave alone.
LEMMA HandsOther ==
  ASSUME TypeOK, Hands,
         \/ \E d \in Dashboard : \/ \E a \in Agent : Attach(d, a)
                                 \/ \E refreshed \in BOOLEAN : Look(d, refreshed)
                                 \/ ClaimBusy(d) \/ Refresh(d) \/ Crash(d) \/ Start(d)
         \/ \E a \in Agent : Exit(a)
         \/ \E w \in Workspace : FlipFlag(w)
         \/ Elapse
  PROVE  Hands'
<1> USE DEF Hands, Down, Fresh, Held, Untouched, RefusedGone, ActedOnce,
            dbVars, cliVars, tickVars, historyVars, TypeOK
<1>1. ASSUME NEW d \in Dashboard, NEW a \in Agent, Attach(d, a)
      PROVE  Hands'
  BY <1>1 DEF Attach
<1>2. ASSUME NEW d \in Dashboard, NEW refreshed \in BOOLEAN, Look(d, refreshed)
      PROVE  Hands'
  BY <1>2 DEF Look
<1>3. ASSUME NEW d \in Dashboard, ClaimBusy(d)
      PROVE  Hands'
  BY <1>3 DEF ClaimBusy, agentVars
<1>4. ASSUME NEW d \in Dashboard, Refresh(d)
      PROVE  Hands'
  BY <1>4 DEF Refresh
<1>5. ASSUME NEW d \in Dashboard, Crash(d)
      PROVE  Hands'
  BY <1>5 DEF Crash, OwnersLeft, IsFirst
<1>6. ASSUME NEW d \in Dashboard, Start(d)
      PROVE  Hands'
  BY <1>6 DEF Start
<1>7. ASSUME NEW a \in Agent, Exit(a)
      PROVE  Hands'
  BY <1>7 DEF Exit, OwnersLeft
<1>8. ASSUME NEW w \in Workspace, FlipFlag(w)
      PROVE  Hands'
  BY <1>8 DEF FlipFlag
<1>9. CASE Elapse
  BY <1>9 DEF Elapse, agentVars, Polling
<1> QED
  BY <1>1, <1>2, <1>3, <1>4, <1>5, <1>6, <1>7, <1>8, <1>9
-----------------------------------------------------------------------------
(* Where agents run, and what dashboards know of flags.                     *)

LEMMA SessionsForce ==
  ASSUME TypeOK, Sessions, NEW d \in Dashboard, NEW r \in Request,
         force_share_workspace(d, r)
  PROVE  Sessions'
<1>1. \A e \in Dashboard : unseen[e] => unseen'[e]
  BY DEF force_share_workspace, Committed, TypeOK
<1>2. ASSUME NEW down \in SUBSET Instances(of[r]), Share(d, of[r], down)
      PROVE  Sessions'
  <2>1. \A e \in Dashboard, a \in Agent : session'[e][a] = "tmux" => a \in tmux'
    <3>1. tmux \subseteq tmux'
      BY <1>2 DEF Share
    <3>2. \A e \in Dashboard, a \in Agent :
            session'[e][a] = "tmux" =>
              session[e][a] = "tmux" \/ a \in Instances(of[r]) \ (Kept(d, of[r]) \cup down)
      BY <1>2 DEF Share, TypeOK
    <3> QED
      BY <1>2, <3>1, <3>2 DEF Share, Sessions
  <2>2. \A e \in Dashboard : known'[e] \subseteq shared' \/ unseen'[e]
    BY <1>1, <1>2 DEF Share, Flagged, Sessions, TypeOK
  <2> QED
    BY <2>1, <2>2 DEF Sessions
<1>3. CASE ShareRefused(d, of[r])
  <2>1. \A e \in Dashboard : known'[e] \subseteq shared' \/ unseen'[e]
    BY <1>1, <1>3 DEF ShareRefused, Sessions, TypeOK
  <2> QED
    BY <1>3, <2>1 DEF ShareRefused, Sessions
<1> QED
  BY <1>2, <1>3 DEF force_share_workspace

LEMMA SessionsNext ==
  ASSUME TypeOK, Down, Sessions, Next
  PROVE  Sessions'
<1> USE DEF dbVars, cliVars, tickVars, agentVars, historyVars
<1>1. ASSUME UNCHANGED <<session, tmux, shared, known>>,
             \A d \in Dashboard : unseen[d] => unseen'[d]
      PROVE  Sessions'
  BY <1>1 DEF Sessions
<1>2. ASSUME NEW S
      PROVE  \A d \in Dashboard : unseen[d] => Committed(S)[d]
  BY DEF Committed
<1>3. ASSUME NEW w \in Workspace, Enqueue(w)
      PROVE  Sessions'
  BY <1>1, <1>2, <1>3 DEF Enqueue
<1>4. ASSUME NEW w \in Workspace, FlipFlag(w)
      PROVE  Sessions'
  BY <1>4 DEF FlipFlag, Committed, Sessions, Down, TypeOK
<1>5. ASSUME NEW r \in Request, CliStep(r)
      PROVE  Sessions'
  <2>1. UNCHANGED <<session, tmux, shared, known>>
    BY <1>5 DEF CliStep, Poll, withdraw_share_request, CheckLive, Kill, Collect
  <2>2. \A d \in Dashboard : unseen[d] => unseen'[d]
    <3>1. unseen' = unseen \/ unseen' = Committed({})
      BY <1>5 DEF CliStep, Poll, withdraw_share_request, CheckLive, Kill, Collect
    <3> QED
      BY <1>2, <3>1
  <2> QED
    BY <1>1, <2>1, <2>2
<1>6. ASSUME NEW d \in Dashboard, NEW refreshed \in BOOLEAN, Look(d, refreshed)
      PROVE  Sessions'
  BY <1>6 DEF Look, Sessions, TypeOK
<1>7. ASSUME NEW d \in Dashboard, claim_share_requests(d)
      PROVE  Sessions'
  BY <1>1, <1>2, <1>7 DEF claim_share_requests
<1>8. ASSUME NEW d \in Dashboard, ClaimBusy(d)
      PROVE  Sessions'
  BY <1>1, <1>8 DEF ClaimBusy
<1>9. ASSUME NEW d \in Dashboard, NEW r \in Request, NEW recorded \in BOOLEAN,
             finish_share_request(d, r, recorded)
      PROVE  Sessions'
  BY <1>1, <1>2, <1>9 DEF finish_share_request
<1>10. ASSUME NEW d \in Dashboard, NEW a \in Agent, Attach(d, a)
       PROVE  Sessions'
  BY <1>10 DEF Attach, Sessions, TypeOK
<1>11. ASSUME NEW d \in Dashboard, Refresh(d) \/ Start(d)
       PROVE  Sessions'
  BY <1>11 DEF Refresh, Start, Sessions, TypeOK
<1>12. ASSUME NEW d \in Dashboard, Crash(d)
       PROVE  Sessions'
  BY <1>12 DEF Crash, Sessions, TypeOK
<1>13. ASSUME NEW a \in Agent, Exit(a)
       PROVE  Sessions'
  <2>1. ASSUME NEW d \in Dashboard, session' = [session EXCEPT ![d][a] = "exited"],
               UNCHANGED tmux
        PROVE  \A e \in Dashboard, b \in Agent : session'[e][b] = "tmux" => b \in tmux'
    BY <2>1 DEF Sessions, TypeOK
  <2>2. ASSUME tmux' = tmux \ {a},
               session' = [d \in Dashboard |-> [session[d] EXCEPT ![a] =
                            IF @ = "tmux" THEN "exited" ELSE @]]
        PROVE  \A e \in Dashboard, b \in Agent : session'[e][b] = "tmux" => b \in tmux'
    BY <2>2 DEF Sessions, TypeOK
  <2> QED
    BY <1>13, <2>1, <2>2 DEF Exit, Sessions
<1>14. CASE Elapse
  BY <1>1, <1>14 DEF Elapse
<1> QED
  BY <1>3, <1>4, <1>5, <1>6, <1>7, <1>8, <1>9, <1>10, <1>11, <1>12, <1>13, <1>14,
     SessionsForce DEF Next, CliStep

-----------------------------------------------------------------------------
(* Time.                                                                    *)

LEMMA WaitsCliStep ==
  ASSUME TypeOK, Waits, NEW r \in Request, CliStep(r)
  PROVE  Waits'
<1> USE DEF Waits, TypeOK, dbVars, Polling, Waiting
<1>1. CASE Poll(r)
  BY <1>1, ShareAssumption DEF Poll, NextForCli
<1>2. CASE withdraw_share_request(r)
  BY <1>2 DEF withdraw_share_request, Withdrawn
<1>3. CASE CheckLive(r)
  BY <1>3 DEF CheckLive
<1>4. CASE Kill(r)
  BY <1>4 DEF Kill
<1>5. ASSUME NEW outcome \in {"failed", "checking"}, Collect(r, outcome)
      PROVE  Waits'
  BY <1>5 DEF Collect
<1> QED
  BY <1>1, <1>2, <1>3, <1>4, <1>5 DEF CliStep

LEMMA WaitsNext ==
  ASSUME TypeOK, Fresh, Held, Waits, Next
  PROVE  Waits'
<1> USE DEF dbVars, cliVars, historyVars
<1>1. ASSUME UNCHANGED cliVars,
             \A r \in Request : row'[r] = "pending" => row[r] = "pending" /\ age'[r] = age[r]
      PROVE  Waits'
  BY <1>1 DEF Waits
<1>2. ASSUME NEW w \in Workspace, Enqueue(w)
      PROVE  Waits'
  BY <1>2, ShareAssumption DEF Enqueue, Waits, Fresh, TypeOK, Request, Polling
<1>3. ASSUME NEW w \in Workspace, FlipFlag(w)
      PROVE  Waits'
  BY <1>1, <1>3 DEF FlipFlag
<1>4. ASSUME NEW d \in Dashboard, NEW refreshed \in BOOLEAN, Look(d, refreshed)
      PROVE  Waits'
  BY <1>1, <1>4 DEF Look
<1>5. ASSUME NEW d \in Dashboard, claim_share_requests(d)
      PROVE  Waits'
  <2>1. \A r \in Request : row'[r] = "pending" => row[r] = "pending" /\ age'[r] = age[r]
    BY <1>5 DEF claim_share_requests
  <2> QED
    BY <1>1, <1>5, <2>1 DEF claim_share_requests
<1>6. ASSUME NEW d \in Dashboard, ClaimBusy(d) \/ Refresh(d) \/ Crash(d) \/ Start(d)
      PROVE  Waits'
  BY <1>1, <1>6 DEF ClaimBusy, Refresh, Crash, Start
<1>7. ASSUME NEW d \in Dashboard, NEW r \in Request, force_share_workspace(d, r)
      PROVE  Waits'
  BY <1>1, <1>7 DEF force_share_workspace
<1>8. ASSUME NEW d \in Dashboard, NEW r \in Request, NEW recorded \in BOOLEAN,
             finish_share_request(d, r, recorded)
      PROVE  Waits'
  <2>1. result[d] # "pending"
    BY DEF TypeOK
  <2>2. \A q \in Request : row'[q] = "pending" => row[q] = "pending" /\ age'[q] = age[q]
    BY <1>8, <2>1 DEF finish_share_request, Held, IsFirst, TypeOK
  <2> QED
    BY <1>1, <1>8, <2>2 DEF finish_share_request
<1>9. ASSUME NEW d \in Dashboard, NEW a \in Agent, Attach(d, a)
      PROVE  Waits'
  BY <1>1, <1>9 DEF Attach
<1>10. ASSUME NEW a \in Agent, Exit(a)
       PROVE  Waits'
  BY <1>1, <1>10 DEF Exit
<1>11. CASE Elapse
  BY <1>11, ShareAssumption DEF Elapse, Waits, TypeOK, Limit, Polling
<1> QED
  BY <1>2, <1>3, <1>4, <1>5, <1>6, <1>7, <1>8, <1>9, <1>10, <1>11, WaitsCliStep
     DEF Next, CliStep
\* What a step must leave for d to be still about to look at r.
Lets(d, r) ==
  /\ row'[r] = "pending" => row[r] = "pending" /\ age'[r] = age[r]
  /\ unseen[d] => unseen'[d]
  /\ UNCHANGED <<again[d], pc[d], ticked[d]>>

LEMMA WatchedKept ==
  ASSUME NEW d, NEW r, NEW n, Watched(d, r, n), Lets(d, r)
  PROVE  Watched(d, r, n)'
BY DEF Watched, Lets

\* The tick of d itself.
LEMMA WatchedTick ==
  ASSUME TypeOK, Held, NEW d \in Dashboard, NEW r \in Request, NEW n \in Nat \ {0},
         n + 1 <= Stale, Prompt, Watched(d, r, n),
         age[r] >= n => Due(d, r),
         \/ \E refreshed \in BOOLEAN : Look(d, refreshed)
         \/ claim_share_requests(d) \/ ClaimBusy(d)
         \/ \E q \in Request : \/ force_share_workspace(d, q)
                               \/ \E recorded \in BOOLEAN : finish_share_request(d, q, recorded)
  PROVE  Watched(d, r, n)'
<1> SUFFICES ASSUME row'[r] = "pending"
             PROVE  /\ unseen'[d] \/ again'[d] \/ pc'[d] = "claim"
                    /\ age'[r] <= n + 1
                    /\ age'[r] = n /\ ticked'[d] => pc'[d] \notin {"act", "finish"}
                    /\ age'[r] = n + 1 => pc'[d] \notin {"act", "finish"} /\ ~ticked'[d]
  BY DEF Watched
<1> USE DEF Watched, TypeOK
<1>1. age[r] \in Nat /\ Stale \in Nat
  BY ShareAssumption
<1>2. ASSUME NEW refreshed \in BOOLEAN, Look(d, refreshed)
      PROVE  Watched(d, r, n)'
  BY <1>2 DEF Look, dbVars
<1>3. CASE claim_share_requests(d)
  <2>1. row[r] = "pending" /\ age'[r] = age[r] /\ r \notin Abandoned /\ ~(r \in Open /\ Due(d, r))
    BY <1>3 DEF claim_share_requests, Open, Abandoned, Purged
  <2>2. r \in Open
    BY <2>1 DEF Abandoned
  <2>3. again'[d] = TRUE /\ age[r] < n
    BY <1>1, <1>3, <2>1, <2>2 DEF claim_share_requests, LookAgain
  <2> QED
    BY <1>1, <2>1, <2>3
<1>4. CASE ClaimBusy(d)
  BY <1>4 DEF ClaimBusy, dbVars
<1>5. ASSUME NEW q \in Request, force_share_workspace(d, q)
      PROVE  Watched(d, r, n)'
  <2>1. unseen[d] => unseen'[d]
    BY <1>5 DEF force_share_workspace, Committed
  <2> QED
    BY <1>5, <2>1 DEF force_share_workspace, dbVars
<1>6. ASSUME NEW q \in Request, NEW recorded \in BOOLEAN, finish_share_request(d, q, recorded)
      PROVE  Watched(d, r, n)'
  <2>1. row[r] = "pending" /\ age'[r] = age[r]
    <3>1. row[q] # "pending" /\ result[d] # "pending"
      BY <1>6 DEF finish_share_request, Held, IsFirst
    <3> QED
      BY <1>6, <3>1 DEF finish_share_request
  <2>2. unseen[d] => unseen'[d]
    BY <1>6 DEF finish_share_request, Committed
  <2>3. ticked'[d] => ticked[d] \/ pc'[d] = "idle"
    BY <1>6 DEF finish_share_request, AfterWork
  <2>4. pc[d] = "finish" /\ again'[d] = again[d]
    BY <1>6 DEF finish_share_request
  <2> QED
    BY <2>1, <2>2, <2>3, <2>4, <1>1
<1> QED
  BY <1>2, <1>3, <1>4, <1>5, <1>6

\* Everything but the clock and what d itself does.
LEMMA OthersLet ==
  ASSUME TypeOK, Held, NEW d \in Dashboard, up[d], NEW r \in Request,
         \/ \E w \in Workspace : FlipFlag(w) \/ (Enqueue(w) /\ r # lastId + 1)
         \/ \E q \in Request : CliStep(q)
         \/ \E e \in Dashboard :
              \/ Refresh(e) \/ Start(e)
              \/ \E a \in Agent : Attach(e, a)
         \/ \E e \in Dashboard \ {d} :
              \/ \E refreshed \in BOOLEAN : Look(e, refreshed)
              \/ claim_share_requests(e) \/ ClaimBusy(e) \/ Crash(e)
              \/ \E q \in Request :
                   \/ force_share_workspace(e, q)
                   \/ \E recorded \in BOOLEAN : finish_share_request(e, q, recorded)
         \/ \E a \in Agent : Exit(a)
  PROVE  Lets(d, r)
<1> USE DEF Lets, dbVars, cliVars, tickVars, historyVars
<1>1. \A S : unseen[d] => Committed(S)[d]
  BY DEF Committed
<1>2. ASSUME NEW w \in Workspace, FlipFlag(w)
      PROVE  Lets(d, r)
  BY <1>1, <1>2 DEF FlipFlag
<1>3. ASSUME NEW w \in Workspace, Enqueue(w), r # lastId + 1
      PROVE  Lets(d, r)
  BY <1>1, <1>3 DEF Enqueue, TypeOK
<1>4. ASSUME NEW q \in Request, CliStep(q)
      PROVE  Lets(d, r)
  <2>1. CASE Poll(q) \/ CheckLive(q) \/ Kill(q)
    BY <2>1 DEF Poll, CheckLive, Kill
  <2>2. CASE withdraw_share_request(q)
    BY <1>1, <2>2 DEF withdraw_share_request, TypeOK
  <2>3. ASSUME NEW outcome \in {"failed", "checking"}, Collect(q, outcome)
        PROVE  Lets(d, r)
    BY <1>1, <2>3 DEF Collect, TypeOK
  <2> QED
    BY <1>4, <2>1, <2>2, <2>3 DEF CliStep
<1>5. ASSUME NEW e \in Dashboard, Refresh(e) \/ Start(e) \/ \E a \in Agent : Attach(e, a)
      PROVE  Lets(d, r)
  BY <1>5 DEF Refresh, Start, Attach
<1>6. ASSUME NEW e \in Dashboard \ {d}, NEW refreshed \in BOOLEAN, Look(e, refreshed)
      PROVE  Lets(d, r)
  BY <1>6 DEF Look, TypeOK
<1>7. ASSUME NEW e \in Dashboard \ {d}, claim_share_requests(e)
      PROVE  Lets(d, r)
  <2>1. row'[r] = "pending" => row[r] = "pending" /\ age'[r] = age[r]
    BY <1>7 DEF claim_share_requests
  <2>2. UNCHANGED <<again[d], pc[d], ticked[d]>>
    BY <1>7 DEF claim_share_requests, TypeOK
  <2>3. unseen[d] => unseen'[d]
    BY <1>1, <1>7 DEF claim_share_requests
  <2> QED
    BY <2>1, <2>2, <2>3
<1>8. ASSUME NEW e \in Dashboard \ {d}, ClaimBusy(e) \/ Crash(e)
      PROVE  Lets(d, r)
  BY <1>8 DEF ClaimBusy, Crash, TypeOK
<1>9. ASSUME NEW e \in Dashboard \ {d}, NEW q \in Request, force_share_workspace(e, q)
      PROVE  Lets(d, r)
  BY <1>1, <1>9 DEF force_share_workspace, TypeOK
<1>10. ASSUME NEW e \in Dashboard \ {d}, NEW q \in Request, NEW recorded \in BOOLEAN,
              finish_share_request(e, q, recorded)
       PROVE  Lets(d, r)
  <2>1. row[q] # "pending" /\ result[e] # "pending"
    BY <1>10 DEF finish_share_request, Held, IsFirst, TypeOK
  <2>2. row'[r] = "pending" => row[r] = "pending" /\ age'[r] = age[r]
    BY <1>10, <2>1 DEF finish_share_request, TypeOK
  <2>3. UNCHANGED <<again[d], pc[d], ticked[d]>>
    BY <1>10 DEF finish_share_request, TypeOK
  <2>4. unseen[d] => unseen'[d]
    BY <1>1, <1>10 DEF finish_share_request
  <2> QED
    BY <2>2, <2>3, <2>4
<1>11. ASSUME NEW a \in Agent, Exit(a)
       PROVE  Lets(d, r)
  BY <1>11 DEF Exit
<1> QED
  BY <1>2, <1>3, <1>4, <1>5, <1>6, <1>7, <1>8, <1>9, <1>10, <1>11

\* A unit of time, for which d had to tick.
LEMMA WatchedElapse ==
  ASSUME TypeOK, NEW d \in Dashboard, up[d], NEW r \in Request, NEW n \in Nat \ {0},
         n + 1 <= Stale, Prompt, Watched(d, r, n), Elapse
  PROVE  Watched(d, r, n)'
<1> SUFFICES ASSUME row[r] = "pending"
             PROVE  /\ unseen'[d] \/ again'[d] \/ pc'[d] = "claim"
                    /\ age'[r] <= n + 1
                    /\ age'[r] = n /\ ticked'[d] => pc'[d] \notin {"act", "finish"}
                    /\ age'[r] = n + 1 => pc'[d] \notin {"act", "finish"} /\ ~ticked'[d]
  BY DEF Watched, Elapse
<1>1. age[r] \in Nat /\ Stale \in Nat /\ age[r] <= n + 1
  BY ShareAssumption DEF TypeOK, Watched
<1>2. age'[r] = age[r] + 1 /\ ~ticked'[d] /\ ticked[d]
  BY <1>1 DEF Elapse, Limit
<1>3. age[r] # n + 1 /\ (age[r] = n => pc[d] \notin {"act", "finish"})
  BY <1>2 DEF Watched
<1>4. UNCHANGED <<unseen, again, pc>> /\ (unseen[d] \/ again[d] \/ pc[d] = "claim")
  BY DEF Elapse, Watched
<1> QED
  BY <1>1, <1>2, <1>3, <1>4

\* One step, for a dashboard that goes on running.
LEMMA WatchedNext ==
  ASSUME TypeOK, Held, Next, NEW d \in Dashboard, up[d], up'[d],
         NEW r \in Request, r <= lastId, NEW n \in Nat \ {0},
         n + 1 <= Stale, Prompt, age[r] >= n => Due(d, r),
         Watched(d, r, n)
  PROVE  Watched(d, r, n)'
<1>1. lastId \in Nat /\ r # lastId + 1
  BY ShareAssumption DEF TypeOK, Request
<1>2. CASE Elapse
  BY <1>2, WatchedElapse
<1>3. ASSUME \/ \E refreshed \in BOOLEAN : Look(d, refreshed)
             \/ claim_share_requests(d) \/ ClaimBusy(d)
             \/ \E q \in Request :
                  \/ force_share_workspace(d, q)
                  \/ \E recorded \in BOOLEAN : finish_share_request(d, q, recorded)
      PROVE  Watched(d, r, n)'
  BY <1>3, WatchedTick
<1>4. ASSUME Lets(d, r)
      PROVE  Watched(d, r, n)'
  BY <1>4, WatchedKept
<1>5. ~Crash(d)
  BY DEF Crash, TypeOK
<1> QED
  BY <1>1, <1>2, <1>3, <1>4, <1>5, OthersLet DEF Next, CliStep
LEMMA GraceType ==
  /\ Grace \in Nat \ {0} /\ Grace + 1 <= Stale
  /\ Defer <= Grace /\ 2 <= Stale
BY ShareAssumption DEF Grace

\* Who watched a request keeps watching it, as long as it is among those who did.
LEMMA WatchersKept ==
  ASSUME TypeOK, Held, Watchers, Next, NEW r \in Request, r <= lastId, UNCHANGED of[r],
         NEW d \in Dashboard, up[d], up'[d]
  PROVE  /\ d \in steady[r] => Watched(d, r, Grace)'
         /\ d \in owners[r] => Watched(d, r, 1)'
<1>1. Defer \in Nat /\ age[r] \in Nat
  BY ShareAssumption DEF TypeOK
<1>2. ASSUME d \in steady[r]
      PROVE  Watched(d, r, Grace)'
  <2>1. Prompt /\ Watched(d, r, Grace)
    BY <1>2 DEF Watchers
  <2>2. age[r] >= Grace => Due(d, r)
    BY <1>1, GraceType DEF Due
  <2> QED
    BY <2>1, <2>2, GraceType, WatchedNext
<1>3. ASSUME d \in owners[r]
      PROVE  Watched(d, r, 1)'
  <2>1. Prompt /\ Watched(d, r, 1) /\ Due(d, r)
    BY <1>3 DEF Watchers, Due
  <2>2. 1 \in Nat \ {0} /\ 1 + 1 <= Stale
    BY GraceType
  <2> QED
    BY <2>1, <2>2, WatchedNext
<1> QED
  BY <1>2, <1>3

\* What a step may do to the history.
LEMMA HistoryCases ==
  ASSUME Next
  PROVE  \/ \E w \in Workspace : Enqueue(w)
         \/ \E d \in Dashboard : Crash(d)
         \/ UNCHANGED <<steady, of>> /\ (OwnersLeft \/ UNCHANGED owners)
<1> USE DEF dbVars, historyVars
<1> DEFINE HistoryStays == UNCHANGED <<steady, of>> /\ (OwnersLeft \/ UNCHANGED owners)
<1>1. ASSUME NEW w \in Workspace, FlipFlag(w)
      PROVE  HistoryStays
  BY <1>1 DEF FlipFlag
<1>2. ASSUME NEW r \in Request, CliStep(r)
      PROVE  HistoryStays
  BY <1>2 DEF CliStep, Poll, withdraw_share_request, CheckLive, Kill, Collect
<1>3. ASSUME NEW d \in Dashboard, NEW refreshed \in BOOLEAN, Look(d, refreshed)
      PROVE  HistoryStays
  BY <1>3 DEF Look
<1>4. ASSUME NEW d \in Dashboard,
             claim_share_requests(d) \/ ClaimBusy(d) \/ Refresh(d) \/ Start(d)
      PROVE  HistoryStays
  BY <1>4 DEF claim_share_requests, ClaimBusy, Refresh, Start
<1>5. ASSUME NEW d \in Dashboard, NEW r \in Request,
             \/ force_share_workspace(d, r)
             \/ \E recorded \in BOOLEAN : finish_share_request(d, r, recorded)
      PROVE  HistoryStays
  BY <1>5 DEF force_share_workspace, finish_share_request
<1>6. ASSUME NEW d \in Dashboard, NEW a \in Agent, Attach(d, a)
      PROVE  HistoryStays
  BY <1>6 DEF Attach
<1>7. ASSUME NEW a \in Agent, Exit(a)
      PROVE  HistoryStays
  BY <1>7 DEF Exit
<1>8. CASE Elapse
  BY <1>8 DEF Elapse
<1> QED
  BY <1>1, <1>2, <1>3, <1>4, <1>5, <1>6, <1>7, <1>8 DEF Next, CliStep

\* A step makes nobody an owner, and nobody steady, of a request that is there.
LEMMA HistoryShrinks ==
  ASSUME TypeOK, Next, NEW r \in Request, r <= lastId
  PROVE  /\ steady'[r] \subseteq steady[r] /\ owners'[r] \subseteq owners[r]
         /\ of'[r] = of[r]
<1> USE DEF dbVars, historyVars
<1>1. r # lastId + 1
  BY ShareAssumption DEF TypeOK, Request
<1>2. ASSUME NEW w \in Workspace, Enqueue(w)
      PROVE  UNCHANGED <<steady[r], owners[r], of[r]>>
  BY <1>1, <1>2 DEF Enqueue, TypeOK
<1>3. ASSUME OwnersLeft
      PROVE  owners'[r] \subseteq owners[r]
  BY <1>3 DEF OwnersLeft
<1>4. ASSUME NEW d \in Dashboard, Crash(d)
      PROVE  steady'[r] \subseteq steady[r] /\ of'[r] = of[r] /\ OwnersLeft
  BY <1>4 DEF Crash
<1> QED
  BY <1>2, <1>3, <1>4, HistoryCases

\* Those who are left run, and own what they owned.
LEMMA HistoryHolds ==
  ASSUME TypeOK, Watchers, Next, NEW r \in Request, r <= lastId
  PROVE  /\ \A d \in steady'[r] : Prompt /\ up[d] /\ up'[d]
         /\ \A d \in owners'[r] : Prompt /\ up[d] /\ up'[d] /\ Owns(d, of[r])'
<1> USE DEF cliVars, dbVars, tickVars, agentVars, historyVars
<1>1. /\ steady'[r] \subseteq steady[r] /\ owners'[r] \subseteq owners[r]
      /\ of'[r] = of[r] /\ steady[r] \subseteq Dashboard /\ owners[r] \subseteq Dashboard
  BY HistoryShrinks DEF TypeOK
<1>2. /\ \A d \in steady[r] : Prompt /\ up[d]
      /\ \A d \in owners[r] : Prompt /\ up[d] /\ Owns(d, of[r])
  BY DEF Watchers
<1>3. ASSUME UNCHANGED <<up, session>>
      PROVE  /\ \A d \in steady'[r] : up'[d]
             /\ \A d \in owners'[r] : up'[d] /\ Owns(d, of[r])'
  BY <1>1, <1>2, <1>3 DEF Owns, Instances
<1>4. ASSUME OwnersLeft
      PROVE  \A d \in owners'[r] : up'[d] /\ Owns(d, of[r])'
  BY <1>1, <1>4 DEF OwnersLeft
<1>5. ASSUME NEW d \in Dashboard, Crash(d)
      PROVE  \A e \in steady'[r] : up'[e]
  BY <1>1, <1>2, <1>5 DEF Crash, TypeOK
<1>6. ASSUME NEW d \in Dashboard, Start(d)
      PROVE  /\ \A e \in steady'[r] : up'[e]
             /\ \A e \in owners'[r] : up'[e] /\ Owns(e, of[r])'
  BY <1>1, <1>2, <1>6 DEF Start, Owns, Instances, TypeOK
<1>7. ASSUME NEW d \in Dashboard, NEW a \in Agent, Attach(d, a)
      PROVE  /\ \A e \in steady'[r] : up'[e]
             /\ \A e \in owners'[r] : up'[e] /\ Owns(e, of[r])'
  BY <1>1, <1>2, <1>7 DEF Attach, Owns, Instances, TypeOK
<1>8. ASSUME NEW d \in Dashboard, NEW q \in Request, force_share_workspace(d, q)
      PROVE  OwnersLeft /\ UNCHANGED up
  BY <1>8 DEF force_share_workspace
<1>9. ASSUME NEW a \in Agent, Exit(a)
      PROVE  OwnersLeft /\ UNCHANGED up
  BY <1>9 DEF Exit
<1>10. CASE UNCHANGED <<up, session>>
  BY <1>1, <1>2, <1>3, <1>10
<1>11. CASE OwnersLeft /\ UNCHANGED up
  BY <1>1, <1>2, <1>4, <1>11
<1>12. CASE \E d \in Dashboard : Crash(d)
  <2>1. OwnersLeft
    BY <1>12 DEF Crash
  <2> QED
    BY <1>1, <1>2, <1>4, <1>5, <1>12, <2>1
<1>13. CASE \E d \in Dashboard : Start(d) \/ \E a \in Agent : Attach(d, a)
  BY <1>1, <1>2, <1>6, <1>7, <1>13
<1> QED
  BY <1>8, <1>9, <1>10, <1>11, <1>12, <1>13
     DEF Next, Enqueue, FlipFlag, Poll, withdraw_share_request, CheckLive, Kill, Collect, Look,
         claim_share_requests, ClaimBusy, finish_share_request, Refresh, Elapse

LEMMA WatchersNext ==
  ASSUME TypeOK, TypeOK', Fresh, Held, Watchers, Next
  PROVE  Watchers'
<1> SUFFICES ASSUME NEW r \in Request
             PROVE  /\ \A d \in steady'[r] : Prompt /\ up'[d] /\ Watched(d, r, Grace)'
                    /\ \A d \in owners'[r] :
                         Prompt /\ up'[d] /\ Owns(d, of[r])' /\ Watched(d, r, 1)'
  BY DEF Watchers, Grace
<1>1. /\ steady[r] \subseteq Dashboard /\ owners[r] \subseteq Dashboard
      /\ steady'[r] \subseteq Dashboard /\ owners'[r] \subseteq Dashboard
      /\ r \in Nat /\ lastId \in Nat
  <2>1. r \in Nat /\ lastId \in Nat
    BY ShareAssumption DEF TypeOK, Request
  <2> QED
    BY <2>1 DEF TypeOK
<1>2. CASE r <= lastId
  BY <1>1, <1>2, WatchersKept, HistoryShrinks, HistoryHolds
<1>3. CASE r > lastId /\ ~\E w \in Workspace : Enqueue(w)
  <2>1. steady[r] = {} /\ owners[r] = {}
    BY <1>3 DEF Fresh
  <2>2. steady'[r] = {} /\ owners'[r] = {}
    BY <1>3, <2>1, HistoryCases DEF Crash, OwnersLeft
  <2> QED
    BY <2>2
<1>4. CASE r > lastId /\ \E w \in Workspace : Enqueue(w)
  <2>1. PICK w \in Workspace : Enqueue(w)
    BY <1>4
  <2>2. CASE r = lastId + 1
    <3>1. /\ steady'[r] = {d \in Dashboard : Prompt /\ up[d]}
          /\ owners'[r] = {d \in Dashboard : Prompt /\ up[d] /\ Owns(d, w)}
          /\ age'[r] = 0 /\ of'[r] = w
          /\ UNCHANGED <<up, session>>
      BY <2>1, <2>2, <1>4 DEF Enqueue, Fresh, TypeOK, agentVars
    <3>2. \A d \in Dashboard : up[d] => unseen'[d]
      BY <2>1 DEF Enqueue, Committed
    <3>3. \A d \in Dashboard, n \in Nat \ {0} : up[d] => Watched(d, r, n)'
      BY <3>1, <3>2 DEF Watched
    <3> QED
      BY <3>1, <3>3, GraceType DEF Owns, Instances
  <2>3. CASE r # lastId + 1
    BY <1>4, <2>1, <2>3 DEF Enqueue, Fresh, TypeOK
  <2> QED
    BY <2>2, <2>3
<1> QED
  BY <1>1, <1>2, <1>3, <1>4
-----------------------------------------------------------------------------
(* The invariant is inductive.                                              *)

LEMMA Initially == Init => IInv
<1> SUFFICES ASSUME Init PROVE IInv
  OBVIOUS
<1>1. TypeOK
  BY ShareAssumption DEF Init, TypeOK, RowState
<1>2. Down /\ Fresh /\ Held /\ Untouched /\ RefusedGone /\ ActedOnce
  BY DEF Init, Down, Fresh, Held, Untouched, RefusedGone, ActedOnce
<1>3. Sessions /\ Watchers /\ Waits
  BY DEF Init, Sessions, Watchers, Waits, Polling
<1> QED
  BY <1>1, <1>2, <1>3 DEF IInv

LEMMA TypeNext ==
  ASSUME TypeOK, Next
  PROVE  TypeOK'
BY TypeCliStep, TypeEnqueue, TypeLook, TypeClaim, TypeForce, TypeFinish, TypeEnvironment,
   TypeElapse DEF Next, CliStep

LEMMA HandsNext ==
  ASSUME TypeOK, Hands, Next
  PROVE  Hands'
BY HandsCliStep, HandsEnqueue, HandsClaim, HandsForce, HandsFinish, HandsOther
   DEF Next, CliStep

LEMMA NextIInv == IInv /\ [Next]_vars => IInv'
<1>1. CASE IInv /\ Next
  <2>1. TypeOK /\ Hands /\ Down /\ Fresh /\ Held
    BY <1>1 DEF IInv, Hands
  <2>2. TypeOK' /\ Hands'
    BY <1>1, <2>1, TypeNext, HandsNext
  <2>3. Sessions' /\ Watchers' /\ Waits'
    BY <1>1, <2>1, <2>2, SessionsNext, WatchersNext, WaitsNext DEF IInv
  <2> QED
    BY <2>2, <2>3 DEF IInv, Hands
<1>2. CASE IInv /\ UNCHANGED vars
  BY <1>2 DEF vars, dbVars, cliVars, tickVars, agentVars, historyVars, IInv, TypeOK,
     Down, Fresh, Held, Untouched, RefusedGone, ActedOnce, Sessions, Watchers, Watched,
     Owns, Instances, Waits, IsFirst
<1> QED
  BY <1>1, <1>2

LEMMA Invariance == Spec => []IInv
BY Initially, NextIInv, PTL DEF Spec

-----------------------------------------------------------------------------
(* Theorems.                                                                *)

\* Every variable keeps its type: a dashboard that acts or records has a request
\* in its hands, and ages and waits stay within their bounds.
THEOREM ShareTypeCorrect == Spec => []TypeOK
<1>1. IInv => TypeOK
  BY DEF IInv
<1> QED
  BY <1>1, Invariance, PTL

\* A request is acted on at most once, by any number of dashboards that race
\* for it, crash and come back: what holds it was its only claimer.
THEOREM RequestsActedOnce == Spec => []ActedOnce
<1>1. IInv => ActedOnce
  BY DEF IInv
<1> QED
  BY <1>1, Invariance, PTL

\* Nobody acts on a request whose CLI was told that no dashboard picked it up,
\* before or after: withdraw_share_request and claim_share_requests exclude each
\* other.
THEOREM RefusalsAreFinal == Spec => []RefusedNeverActed
<1>1. IInv => RefusedNeverActed
  BY DEF IInv, RefusedNeverActed, Held, Untouched
<1> QED
  BY <1>1, Invariance, PTL

\* What a tick does goes by where it is.
LEMMA WhoTicked ==
  ASSUME TypeOK, Next, NEW d \in Dashboard
  PROVE  /\ pc[d] = "act" /\ pc'[d] = "finish" => \E r \in Request : force_share_workspace(d, r)
         /\ ~(work'[d] \subseteq work[d]) => claim_share_requests(d)
<1> USE DEF tickVars, TypeOK
<1> DEFINE Goal ==
      /\ pc[d] = "act" /\ pc'[d] = "finish" => \E r \in Request : force_share_workspace(d, r)
      /\ ~(work'[d] \subseteq work[d]) => claim_share_requests(d)
<1>1. ASSUME NEW w \in Workspace, Enqueue(w) \/ FlipFlag(w)
      PROVE  Goal
  BY <1>1 DEF Enqueue, FlipFlag
<1>2. ASSUME NEW r \in Request, CliStep(r)
      PROVE  Goal
  BY <1>2 DEF CliStep, Poll, withdraw_share_request, CheckLive, Kill, Collect
<1>3. ASSUME NEW e \in Dashboard, NEW refreshed \in BOOLEAN, Look(e, refreshed)
      PROVE  Goal
  BY <1>3 DEF Look
<1>4. ASSUME NEW e \in Dashboard, claim_share_requests(e)
      PROVE  Goal
  <2>1. CASE e = d
    BY <1>4, <2>1 DEF claim_share_requests
  <2>2. CASE e # d
    <3>1. work'[d] = work[d] /\ pc'[d] = pc[d]
      BY <1>4, <2>2 DEF claim_share_requests
    <3> QED
      BY <3>1
  <2> QED
    BY <2>1, <2>2
<1>5. ASSUME NEW e \in Dashboard, ClaimBusy(e) \/ Refresh(e) \/ Crash(e) \/ Start(e)
      PROVE  Goal
  <2>1. CASE Crash(e)
    <3>1. \/ work'[d] = work[d] /\ pc'[d] = pc[d]
          \/ work'[d] = {} /\ pc'[d] = "idle"
      BY <2>1 DEF Crash
    <3> QED
      BY <3>1
  <2> QED
    BY <1>5, <2>1 DEF ClaimBusy, Refresh, Start
<1>6. ASSUME NEW e \in Dashboard, NEW r \in Request, force_share_workspace(e, r)
      PROVE  Goal
  BY <1>6 DEF force_share_workspace
<1>7. ASSUME NEW e \in Dashboard, NEW r \in Request, NEW recorded \in BOOLEAN,
             finish_share_request(e, r, recorded)
      PROVE  Goal
  BY <1>7 DEF finish_share_request
<1>8. ASSUME NEW e \in Dashboard, NEW a \in Agent, Attach(e, a)
      PROVE  Goal
  BY <1>8 DEF Attach
<1>9. ASSUME NEW a \in Agent, Exit(a)
      PROVE  Goal
  BY <1>9 DEF Exit
<1>10. CASE Elapse
  BY <1>10 DEF Elapse
<1> QED
  BY <1>1, <1>2, <1>3, <1>4, <1>5, <1>6, <1>7, <1>8, <1>9, <1>10 DEF Next, CliStep

\* A share is reported as done only with every instance of the workspace in
\* tmux, its entry too, and the flag set but for a commit not looked at yet.
THEOREM DoneMeansInTmux == Spec => SharedMeansInTmux
<1>1. ASSUME IInv, Next, NEW d \in Dashboard, NEW r \in Request,
             pc[d] = "act", pc'[d] = "finish", IsFirst(r, work[d]), result'[d] = "finished"
      PROVE  /\ of[r] \in shared' \/ unseen[d]
             /\ \A a \in Instances(of[r]) : a \in tmux' /\ session'[d][a] = "tmux"
  <2>1. TypeOK /\ Sessions
    BY <1>1 DEF IInv
  <2>2. PICK q \in Request : force_share_workspace(d, q)
    BY <1>1, <2>1, WhoTicked
  <2>3. q = r
    <3>1. q <= r /\ r <= q
      BY <1>1, <2>2 DEF force_share_workspace, IsFirst
    <3> QED
      BY <3>1 DEF Request
  <2>4. ~ShareRefused(d, of[r])
    BY <1>1, <2>1 DEF ShareRefused, TypeOK
  <2>5. PICK down \in SUBSET Instances(of[r]) : Share(d, of[r], down)
    BY <2>2, <2>3, <2>4 DEF force_share_workspace
  <2>6. down = {}
    BY <1>1, <2>1, <2>5 DEF Share, TypeOK
  <2>7. of[r] \in shared' \/ unseen[d]
    BY <2>1, <2>5 DEF Share, Flagged, Sessions
  <2>8. ASSUME NEW a \in Instances(of[r])
        PROVE  a \in tmux' /\ session'[d][a] = "tmux"
    BY <2>1, <2>5, <2>6 DEF Share, Kept, Instances, Sessions, TypeOK
  <2> QED
    BY <2>7, <2>8
<1>2. IInv /\ [Next]_vars =>
        [\A d \in Dashboard, r \in Request :
           pc[d] = "act" /\ pc'[d] = "finish" /\ IsFirst(r, work[d]) /\ result'[d] = "finished" =>
             /\ of[r] \in shared' \/ unseen[d]
             /\ \A a \in Instances(of[r]) : a \in tmux' /\ session'[d][a] = "tmux"]_vars
  BY <1>1
<1> QED
  BY <1>2, Invariance, PTL DEF Spec, SharedMeansInTmux

\* While dashboards tick in every unit, a request that one of them owns all
\* along is claimed by nobody else, if the grace is at least three units: the
\* first may be half over when the request is made, in the second the owner may
\* still be at an earlier one, in the third it looks.
THEOREM OwnersClaimTheirs ==
  ASSUME Defer >= 3
  PROVE  Spec => OwnerClaims
<1>1. ASSUME IInv, Next, NEW d \in Dashboard, NEW r \in Request, r \in work'[d] \ work[d]
      PROVE  Owns(d, of[r]) \/ owners[r] = {}
  <2>1. claim_share_requests(d)
    BY <1>1, WhoTicked DEF IInv
  <2>2. r \in Open /\ Due(d, r)
    BY <1>1, <2>1 DEF claim_share_requests, IInv, TypeOK
  <2>3. owners[r] # {} => age[r] <= 2
    BY <2>2, <1>1 DEF Open, IInv, Watchers, Watched
  <2>4. age[r] >= Defer => age[r] >= 3
    BY <1>1, ShareAssumption DEF IInv, TypeOK
  <2>5. age[r] \in Nat
    BY <1>1, ShareAssumption DEF IInv, TypeOK
  <2> QED
    BY <2>2, <2>3, <2>4, <2>5 DEF Due
<1>2. IInv /\ [Next]_vars =>
        [\A d \in Dashboard, r \in Request :
           r \in work'[d] \ work[d] => Owns(d, of[r]) \/ owners[r] = {}]_vars
  BY <1>1
<1> QED
  BY <1>2, Invariance, PTL DEF Spec, OwnerClaims

\* A refusal is a withdrawal.
LEMMA WhoRefused ==
  ASSUME TypeOK, Next, NEW r \in Request, cli'[r] = "refused"
  PROVE  cli[r] = "refused" \/ (withdraw_share_request(r) /\ Withdrawn(r))
<1> USE DEF cliVars
<1>1. cli \in [Request -> {"none"} \cup Waiting \cup Ended]
  BY DEF TypeOK
<1>2. ASSUME NEW q \in Request, Poll(q)
      PROVE  cli[r] = "refused"
  <2>1. NextForCli(q) # "refused"
    BY DEF NextForCli
  <2> QED
    BY <1>1, <1>2, <2>1 DEF Poll
<1>3. ASSUME NEW q \in Request, withdraw_share_request(q)
      PROVE  cli[r] = "refused" \/ (withdraw_share_request(r) /\ Withdrawn(r))
  BY <1>1, <1>3 DEF withdraw_share_request
<1>4. ASSUME NEW q \in Request, CheckLive(q)
      PROVE  cli[r] = "refused"
  <2>1. PICK outcome \in {"live", "down"} : cli' = [cli EXCEPT ![q] = outcome]
    BY <1>4 DEF CheckLive
  <2> QED
    BY <1>1, <2>1
<1>5. ASSUME NEW q \in Request, Kill(q) \/ \E o \in {"failed", "checking"} : Collect(q, o)
      PROVE  cli[r] = "refused"
  BY <1>1, <1>5 DEF Kill, Collect
<1>6. ASSUME NEW w \in Workspace, Enqueue(w)
      PROVE  cli[r] = "refused"
  BY <1>1, <1>6 DEF Enqueue
<1>7. CASE UNCHANGED cli
  BY <1>7
<1>8. \/ UNCHANGED cli
      \/ \E w \in Workspace : Enqueue(w)
      \/ \E q \in Request :
           \/ Poll(q) \/ withdraw_share_request(q) \/ CheckLive(q) \/ Kill(q)
           \/ \E o \in {"failed", "checking"} : Collect(q, o)
  <2>1. ASSUME NEW d \in Dashboard,
               \/ \E refreshed \in BOOLEAN : Look(d, refreshed)
               \/ claim_share_requests(d) \/ ClaimBusy(d) \/ Refresh(d) \/ Crash(d) \/ Start(d)
        PROVE  UNCHANGED cli
    BY <2>1 DEF Look, claim_share_requests, ClaimBusy, Refresh, Crash, Start
  <2>2. ASSUME NEW d \in Dashboard, NEW q \in Request,
               \/ force_share_workspace(d, q)
               \/ \E recorded \in BOOLEAN : finish_share_request(d, q, recorded)
        PROVE  UNCHANGED cli
    BY <2>2 DEF force_share_workspace, finish_share_request
  <2>3. ASSUME NEW a \in Agent, Exit(a) \/ \E d \in Dashboard : Attach(d, a)
        PROVE  UNCHANGED cli
    BY <2>3 DEF Exit, Attach
  <2>4. ASSUME NEW w \in Workspace, FlipFlag(w)
        PROVE  UNCHANGED cli
    BY <2>4 DEF FlipFlag
  <2>5. CASE Elapse
    BY <2>5 DEF Elapse
  <2> QED
    BY <2>1, <2>2, <2>3, <2>4, <2>5 DEF Next
<1> QED
  BY <1>2, <1>3, <1>4, <1>5, <1>6, <1>7, <1>8

LEMMA RefusalNext ==
  ASSUME Defer >= 1, Defer + 2 <= ClaimWait, IInv, NoFalseRefusal, Next
  PROVE  NoFalseRefusal'
<1> SUFFICES ASSUME NEW r \in Request, cli'[r] = "refused"
             PROVE  steady'[r] = {}
  BY DEF NoFalseRefusal
<1>1. TypeOK
  BY DEF IInv
<1>2. CASE cli[r] = "refused"
  <2>1. steady[r] = {} /\ r <= lastId
    <3>1. ~(r > lastId) /\ r \in Nat /\ lastId \in Nat
      BY <1>1, <1>2, ShareAssumption DEF IInv, Fresh, TypeOK, Request
    <3> QED
      BY <1>2, <3>1 DEF NoFalseRefusal
  <2> QED
    BY <1>1, <2>1, HistoryShrinks
<1>3. CASE withdraw_share_request(r) /\ Withdrawn(r)
  <2>1. /\ row[r] = "pending" /\ cli[r] = "withdrawing"
        /\ steady' = steady /\ steady[r] \subseteq Dashboard
    BY <1>1, <1>3 DEF withdraw_share_request, Withdrawn, historyVars, TypeOK
  <2>2. ASSUME NEW d \in steady[r]
        PROVE  FALSE
    <3>1. age[r] <= Grace + 1
      BY <2>1, <2>2 DEF IInv, Watchers, Watched
    <3>2. /\ age[r] \in Nat /\ waited[r] \in Nat
          /\ {Defer, ClaimWait, Stale} \subseteq Nat /\ ClaimWait < Stale
      BY <1>1, ShareAssumption DEF TypeOK
    <3>3. age[r] <= Defer + 1
      BY <3>1, <3>2 DEF Grace
    <3>4. age[r] < ClaimWait /\ age[r] <= Stale
      BY <3>2, <3>3
    <3>5. waited[r] <= age[r] /\ waited[r] >= ClaimWait
      BY <2>1, <3>4 DEF IInv, Waits, Polling
    <3> QED
      BY <3>2, <3>4, <3>5
  <2> QED
    BY <2>1, <2>2
<1> QED
  BY <1>1, <1>2, <1>3, WhoRefused

\* While dashboards tick in every unit, "no dashboard picked it up" is said only
\* if none ran ever since the request was made, if the CLI waits for two units
\* more than the grace: that is how long one that was busy, and does not own the
\* workspace, may take to claim it.
THEOREM RefusalsAreTrue ==
  ASSUME Defer >= 1, Defer + 2 <= ClaimWait
  PROVE  Spec => []NoFalseRefusal
<1>1. Init => NoFalseRefusal
  BY DEF Init, NoFalseRefusal
<1>2. IInv /\ NoFalseRefusal /\ [Next]_vars => NoFalseRefusal'
  <2>1. CASE UNCHANGED vars
    BY <2>1 DEF vars, cliVars, historyVars, NoFalseRefusal
  <2> QED
    BY <2>1, RefusalNext
<1> QED
  BY <1>1, <1>2, Invariance, PTL DEF Spec
-----------------------------------------------------------------------------
(* The promise: ShareRequests implements RestartRequest.                     *)

\* Where a CLI is when there is an outcome for it.
Concluding == {"collecting", "checking", "live", "failed", "down"}

\* An outcome is there, or on its way to be told, only if somebody acted.
Outcomes ==
  \A r \in Request :
    row[r] \in {"finished", "failed"} \/ cli[r] \in Concluding => acts[r] = 1

\* A request in somebody's hands is claimed, or was cleared away since; one that
\* is being recorded was acted on.
InHand ==
  \A d \in Dashboard : \A r \in work[d] :
    /\ row[r] \in {"claimed", "gone"}
    /\ pc[d] = "finish" /\ IsFirst(r, work[d]) => acts[r] = 1

\* Every id up to the counter's has been a request.
Made == \A r \in Request : r <= lastId => row[r] # "none"

Promise == Outcomes /\ InHand /\ Made

\* What the promise is about, by its names there.
Requests == [r \in Request |-> Became(row[r])]
Holding == {r \in Request : \E d \in Dashboard : Holds(d, r)}
Acting == {r \in Request : acts[r] > 0}
Answers == [r \in Request |-> Told(cli[r])]

LEMMA BecameIs ==
  /\ Became("none") = "none" /\ Became("pending") = "open" /\ Became("claimed") = "taken"
  /\ Became("finished") = "answered" /\ Became("failed") = "answered"
  /\ Became("gone") = "closed"
BY Zenon DEF Became

LEMMA ToldIs ==
  /\ \A at \in {"none"} \cup Waiting : Told(at) = "nothing"
  /\ \A at \in {"failed", "live", "down"} : Told(at) = "outcome"
  /\ \A at \in {"vanished", "killed"} : Told(at) = "unknown"
  /\ Told("refused") = "refused" /\ Told("late") = "late"
BY DEF Told, Waiting, Polling

\* Where each of the promise's variables keeps its value.
LEMMA StaysRequests == row' = row => Requests' = Requests
BY DEF Requests
LEMMA StaysHolding == work' = work /\ pc' = pc => Holding' = Holding
BY DEF Holding, Holds, IsFirst
LEMMA StaysActing == acts' = acts => Acting' = Acting
BY DEF Acting
LEMMA StaysAnswers == cli' = cli => Answers' = Answers
BY DEF Answers

Idle == UNCHANGED <<Requests, Holding, Acting, Answers>>

\* An action of the promise, in these names.
LEMMA Unfold ==
  /\ Restart!Request = Request
  /\ Idle => UNCHANGED Restart!vars
BY DEF Restart!Request, Request, Idle, Restart!vars, Requests, Holding, Acting, Answers

\* The CLI's steps.
LEMMA PromiseCliStep ==
  ASSUME TypeOK, Hands, Promise, NEW r \in Request, CliStep(r)
  PROVE  Promise'
<1> USE DEF Promise, Outcomes, InHand, Made, IsFirst, TypeOK, dbVars, tickVars, historyVars
<1>1. CASE Poll(r)
  <2>1. NextForCli(r) \in Concluding
        => row[r] \in {"finished", "failed"}
    BY DEF NextForCli, Concluding
  <2> QED
    BY <1>1, <2>1 DEF Poll, Concluding
<1>2. CASE withdraw_share_request(r)
  BY <1>2 DEF withdraw_share_request, Withdrawn, Concluding
<1>3. CASE CheckLive(r)
  <2>1. UNCHANGED <<row, lastId, work, pc, acts>> /\ cli[r] = "checking"
        /\ \A q \in Request : q # r => cli'[q] = cli[q]
    BY <1>3 DEF CheckLive
  <2> QED
    BY <2>1 DEF Concluding
<1>4. CASE Kill(r)
  BY <1>4 DEF Kill, Concluding
<1>5. ASSUME NEW outcome \in {"failed", "checking"}, Collect(r, outcome)
      PROVE  Promise'
  BY <1>5 DEF Collect, Concluding
<1> QED
  BY <1>1, <1>2, <1>3, <1>4, <1>5 DEF CliStep

LEMMA PromiseEnqueue ==
  ASSUME TypeOK, Hands, Promise, NEW w \in Workspace, Enqueue(w)
  PROVE  Promise'
<1>1. row[lastId + 1] = "none"
  BY ShareAssumption DEF Enqueue, Hands, Fresh, TypeOK, Request
<1> QED
  BY <1>1 DEF Enqueue, Promise, Outcomes, Concluding, InHand, Made, IsFirst, TypeOK,
                Request

LEMMA PromiseClaim ==
  ASSUME TypeOK, Hands, Promise, NEW d \in Dashboard, claim_share_requests(d)
  PROVE  Promise'
<1> DEFINE claimed == {r \in Open : Due(d, r)}
<1>1. /\ \A r \in claimed : row'[r] = "claimed"
      /\ \A r \in Request : row'[r] \in {"finished", "failed"} => row'[r] = row[r]
      /\ \A r \in Request : row[r] = "claimed" => row'[r] \in {"claimed", "gone"}
      /\ \A r \in Request : row[r] = "gone" => row'[r] = "gone"
      /\ \A r \in Request : row'[r] = "none" => row[r] = "none"
  BY DEF claim_share_requests, Purged, Abandoned, Open
<1>2. /\ work' = [work EXCEPT ![d] = claimed]
      /\ \A e \in Dashboard \ {d} : pc'[e] = pc[e]
      /\ pc'[d] # "finish"
      /\ UNCHANGED <<acts, cli, lastId>>
  BY DEF claim_share_requests, TypeOK, AfterWork, cliVars, historyVars
<1> QED
  BY <1>1, <1>2 DEF Promise, Outcomes, InHand, Made, IsFirst, TypeOK

LEMMA PromiseForce ==
  ASSUME TypeOK, Hands, Promise, NEW d \in Dashboard, NEW r \in Request,
         force_share_workspace(d, r)
  PROVE  Promise'
<1>1. r \in work[d] /\ IsFirst(r, work[d]) /\ acts[r] = 0
  BY DEF force_share_workspace, Hands, Held, IsFirst
<1>2. /\ acts' = [acts EXCEPT ![r] = 1]
      /\ pc' = [pc EXCEPT ![d] = "finish"]
      /\ UNCHANGED <<row, lastId, cli, work>>
  BY <1>1 DEF force_share_workspace, dbVars, cliVars, TypeOK
<1>3. \A q \in work[d] : IsFirst(q, work[d]) => q = r
  BY <1>1 DEF IsFirst, TypeOK, Request
<1> QED
  BY <1>1, <1>2, <1>3 DEF Promise, Outcomes, InHand, Made, IsFirst, TypeOK

LEMMA PromiseFinish ==
  ASSUME TypeOK, Hands, Promise, NEW d \in Dashboard, NEW r \in Request,
         NEW recorded \in BOOLEAN, finish_share_request(d, r, recorded)
  PROVE  Promise'
<1>1. /\ r \in work[d] /\ acts[r] = 1
      /\ \A e \in Dashboard : r \in work[e] => e = d
  BY DEF finish_share_request, Promise, InHand, IsFirst, Hands, Held
<1>2. /\ \A q \in Request : q # r => row'[q] = row[q]
      /\ row'[r] = "none" => row[r] = "none"
  BY DEF finish_share_request, TypeOK
<1>3. /\ work' = [work EXCEPT ![d] = @ \ {r}]
      /\ pc' = [pc EXCEPT ![d] = AfterWork(work[d] \ {r})]
      /\ AfterWork(work[d] \ {r}) # "finish"
      /\ UNCHANGED <<acts, cli, lastId>>
  BY DEF finish_share_request, cliVars, historyVars, AfterWork
<1> QED
  BY <1>1, <1>2, <1>3 DEF Promise, Outcomes, InHand, Made, IsFirst, TypeOK

\* The steps that a waiting CLI and those who hold requests do not see.
Unseen ==
  \/ \E d \in Dashboard : \/ \E a \in Agent : Attach(d, a)
                          \/ \E refreshed \in BOOLEAN : Look(d, refreshed)
                          \/ ClaimBusy(d) \/ Refresh(d) \/ Start(d)
  \/ \E a \in Agent : Exit(a)
  \/ \E w \in Workspace : FlipFlag(w)
  \/ Elapse

LEMMA UnseenFrame ==
  ASSUME TypeOK, Unseen
  PROVE  /\ UNCHANGED <<row, lastId, cli, work, acts>>
         /\ \A d \in Dashboard : pc'[d] = pc[d] \/ work[d] = {}
<1> USE DEF dbVars, cliVars, tickVars, historyVars
<1>1. ASSUME NEW d \in Dashboard, NEW refreshed \in BOOLEAN,
             Look(d, refreshed) \/ ClaimBusy(d)
      PROVE  /\ UNCHANGED <<row, lastId, cli, work, acts>>
             /\ \A e \in Dashboard : pc'[e] = pc[e] \/ work[e] = {}
  BY <1>1 DEF Look, ClaimBusy, TypeOK
<1>2. ASSUME NEW d \in Dashboard, Refresh(d) \/ Start(d) \/ \E a \in Agent : Attach(d, a)
      PROVE  UNCHANGED <<row, lastId, cli, work, acts, pc>>
  BY <1>2 DEF Refresh, Start, Attach
<1>3. ASSUME \/ \E a \in Agent : Exit(a)
             \/ \E w \in Workspace : FlipFlag(w)
             \/ Elapse
      PROVE  UNCHANGED <<row, lastId, cli, work, acts, pc>>
  BY <1>3 DEF Exit, FlipFlag, Elapse
<1> QED
  BY <1>1, <1>2, <1>3 DEF Unseen

LEMMA PromiseNext ==
  ASSUME TypeOK, Hands, Promise, Next
  PROVE  Promise'
<1>1. CASE Unseen
  BY <1>1, UnseenFrame DEF Promise, Outcomes, InHand, Made
<1>2. ASSUME NEW d \in Dashboard, Crash(d)
      PROVE  Promise'
  BY <1>2 DEF Crash, dbVars, cliVars, Promise, Outcomes, InHand, Made, TypeOK
<1> QED
  BY <1>1, <1>2, PromiseCliStep, PromiseEnqueue, PromiseClaim, PromiseForce, PromiseFinish
     DEF Next, CliStep, Unseen

-----------------------------------------------------------------------------
(* Each step is a step of the promise, or none of its variables moves.       *)

\* What is held moves only with work, or with where in a request a tick is.
LEMMA HoldingMoves ==
  ASSUME TypeOK, NEW d \in Dashboard,
         \A e \in Dashboard \ {d} : work'[e] = work[e] /\ pc'[e] = pc[e]
  PROVE  \A r \in Request :
           /\ \A e \in Dashboard \ {d} : Holds(e, r)' <=> Holds(e, r)
           /\ r \in Holding' <=> \/ Holds(d, r)'
                                 \/ \E e \in Dashboard \ {d} : Holds(e, r)
BY DEF Holding, Holds, IsFirst

LEMMA EnqueueAsks ==
  ASSUME TypeOK, Hands, Promise, NEW w \in Workspace, Enqueue(w)
  PROVE  Restart!Ask(lastId + 1)
<1> DEFINE r == lastId + 1
<1>1. /\ r \in Request /\ row[r] = "none" /\ cli[r] = "none"
      /\ row' = [row EXCEPT ![r] = "pending"] /\ cli' = [cli EXCEPT ![r] = "polling"]
      /\ UNCHANGED <<work, pc, acts>>
  BY ShareAssumption DEF Enqueue, Hands, Fresh, TypeOK, Request
<1>2. Requests[r] = "none" /\ Requests' = [Requests EXCEPT ![r] = "open"]
  BY <1>1, BecameIs DEF Requests, TypeOK
<1>3. Answers' = Answers
  BY <1>1, ToldIs DEF Answers, TypeOK, Waiting, Polling
<1>4. Holding' = Holding /\ Acting' = Acting
  BY <1>1, StaysHolding, StaysActing
<1>5. \A q \in Request : q < r => Requests[q] # "none"
  <2> SUFFICES ASSUME NEW q \in Request, q < r
               PROVE  Requests[q] # "none"
    OBVIOUS
  <2>1. row[q] # "none" /\ row[q] \in RowState
    BY ShareAssumption DEF Promise, Made, TypeOK, Request
  <2> QED
    BY <2>1, BecameIs DEF Requests, RowState
<1> QED
  BY <1>2, <1>3, <1>4, <1>5
     DEF Restart!Ask, Restart!Request, Request, Requests, Holding, Acting, Answers

LEMMA CliStepTells ==
  ASSUME TypeOK, Hands, Promise, NEW r \in Request, CliStep(r)
  PROVE  \/ Restart!Collect(r) \/ Restart!Tell(r) \/ Restart!Refuse(r)
         \/ Restart!Late(r) \/ Restart!GiveUp(r) \/ Idle
<1> USE DEF TypeOK
<1>1. UNCHANGED <<work, pc, acts>>
  BY DEF CliStep, Poll, withdraw_share_request, CheckLive, Kill, Collect, tickVars, historyVars
<1>2. Holding' = Holding /\ Acting' = Acting
  BY <1>1, StaysHolding, StaysActing
<1>3. ASSUME NEW at, cli' = [cli EXCEPT ![r] = at]
      PROVE  Answers' = [Answers EXCEPT ![r] = Told(at)]
  BY <1>3 DEF Answers
<1>4. ASSUME NEW at, row' = [row EXCEPT ![r] = at]
      PROVE  Requests' = [Requests EXCEPT ![r] = Became(at)]
  BY <1>4 DEF Requests
<1>5. /\ cli[r] \in Waiting => Answers[r] = "nothing"
      /\ Requests[r] = Became(row[r])
      /\ Answers = [Answers EXCEPT ![r] = Answers[r]]
      /\ acts[r] = 1 => r \in Acting
  <2>1. cli[r] \in Waiting => Told(cli[r]) = "nothing"
    BY ToldIs
  <2>2. Answers[r] = Told(cli[r]) /\ Requests[r] = Became(row[r])
    BY DEF Answers, Requests
  <2>3. Answers = [Answers EXCEPT ![r] = Answers[r]]
    BY DEF Answers
  <2>4. acts[r] = 1 => r \in Acting
    BY DEF Acting
  <2> QED
    BY <2>1, <2>2, <2>3, <2>4
<1>6. cli[r] \in Waiting => Requests[r] # "none"
  <2> SUFFICES ASSUME cli[r] \in Waiting
               PROVE  Requests[r] # "none"
    OBVIOUS
  <2>1. cli[r] # "none"
    BY DEF Waiting, Polling
  <2>2. row[r] # "none" /\ row[r] \in RowState
    <3>1. r \in Nat /\ lastId \in Nat
      BY ShareAssumption DEF Request
    <3>2. ~(r > lastId)
      BY <2>1 DEF Hands, Fresh
    <3> QED
      BY <3>1, <3>2 DEF Promise, Made
  <2> QED
    BY <1>5, <2>2, BecameIs DEF RowState
<1> HIDE DEF TypeOK
<1> USE DEF Restart!Request, Request
<1>7. CASE Poll(r)
  <2>1. /\ cli[r] = "polling" /\ cli[r] \in Waiting /\ UNCHANGED row
        /\ cli' = [cli EXCEPT ![r] = NextForCli(r)]
    BY <1>7 DEF Poll, dbVars, Waiting, Polling
  <2>2. Requests' = Requests /\ Answers' = [Answers EXCEPT ![r] = Told(NextForCli(r))]
    BY <1>3, <2>1, StaysRequests
  <2>3. CASE NextForCli(r) \in {"polling", "withdrawing", "collecting"}
    <3>1. Told(NextForCli(r)) = "nothing"
      BY <2>3, ToldIs DEF Waiting, Polling
    <3> QED
      BY <1>2, <1>5, <2>1, <2>2, <3>1 DEF Idle
  <2>4. CASE NextForCli(r) = "late"
    <3>1. Requests[r] = "taken"
      BY <1>5, <2>4, BecameIs DEF NextForCli
    <3> QED
      BY <1>2, <1>5, <2>1, <2>2, <2>4, <3>1, ToldIs
         DEF Restart!Late, Requests, Holding, Acting, Answers
  <2>5. CASE NextForCli(r) = "vanished"
    BY <1>2, <1>5, <1>6, <2>1, <2>2, <2>5, ToldIs
       DEF Restart!GiveUp, Requests, Holding, Acting, Answers
  <2>6. NextForCli(r) \in {"polling", "withdrawing", "collecting", "late", "vanished"}
    BY DEF NextForCli
  <2> QED
    BY <2>3, <2>4, <2>5, <2>6
<1>8. CASE withdraw_share_request(r)
  <2>1. cli[r] = "withdrawing" /\ cli[r] \in Waiting
    BY <1>8 DEF withdraw_share_request, Waiting, Polling
  <2>2. CASE Withdrawn(r)
    <3>1. row[r] = "pending" /\ row' = [row EXCEPT ![r] = "gone"]
          /\ cli' = [cli EXCEPT ![r] = "refused"]
      BY <1>8, <2>2 DEF withdraw_share_request, Withdrawn
    <3>2. /\ Requests[r] = "open" /\ Requests' = [Requests EXCEPT ![r] = "closed"]
          /\ Answers' = [Answers EXCEPT ![r] = "refused"]
      <4>1. Requests[r] = "open" /\ Requests' = [Requests EXCEPT ![r] = "closed"]
        BY <1>4, <1>5, <3>1, BecameIs
      <4>2. Answers' = [Answers EXCEPT ![r] = "refused"]
        BY <1>3, <3>1, ToldIs
      <4> QED
        BY <4>1, <4>2
    <3> QED
      BY <1>2, <1>5, <2>1, <3>2 DEF Restart!Refuse, Requests, Holding, Acting, Answers
  <2>3. CASE ~Withdrawn(r)
    <3>1. UNCHANGED row /\ cli' = [cli EXCEPT ![r] = "polling"]
      BY <1>8, <2>3 DEF withdraw_share_request
    <3>2. Answers' = Answers
      <4>1. Told("polling") = "nothing"
        BY ToldIs DEF Waiting, Polling
      <4>2. Answers' = [Answers EXCEPT ![r] = Told("polling")]
        BY <1>3, <3>1
      <4> QED
        BY <1>5, <2>1, <4>1, <4>2
    <3> QED
      BY <1>2, <3>1, <3>2, StaysRequests DEF Idle
  <2> QED
    BY <2>2, <2>3
<1>9. CASE CheckLive(r)
  <2>1. PICK at \in {"live", "down"} : cli' = [cli EXCEPT ![r] = at]
    BY <1>9 DEF CheckLive
  <2>2. cli[r] = "checking" /\ cli[r] \in Waiting /\ UNCHANGED row
    BY <1>9 DEF CheckLive, dbVars, Waiting
  <2>3. r \in Acting
    BY <1>5, <2>2 DEF Promise, Outcomes, Concluding
  <2>4. Answers' = [Answers EXCEPT ![r] = "outcome"] /\ Requests' = Requests
    BY <1>3, <2>1, <2>2, ToldIs, StaysRequests
  <2> QED
    BY <1>2, <1>5, <2>2, <2>3, <2>4 DEF Restart!Tell, Requests, Holding, Acting, Answers
<1>10. CASE Kill(r)
  <2>1. cli[r] \in Waiting /\ UNCHANGED row /\ cli' = [cli EXCEPT ![r] = "killed"]
    BY <1>10 DEF Kill, dbVars
  <2>2. Answers' = [Answers EXCEPT ![r] = "unknown"] /\ Requests' = Requests
    BY <1>3, <2>1, ToldIs, StaysRequests
  <2> QED
    BY <1>2, <1>5, <1>6, <2>1, <2>2
       DEF Restart!GiveUp, Requests, Holding, Acting, Answers
<1>11. ASSUME NEW at \in {"failed", "checking"}, Collect(r, at)
       PROVE  Restart!Collect(r)
  <2>1. /\ cli[r] = "collecting" /\ cli[r] \in Waiting
        /\ row' = [row EXCEPT ![r] = "gone"] /\ cli' = [cli EXCEPT ![r] = at]
    BY <1>11 DEF Collect, Waiting
  <2>2. r \in Acting
    BY <1>5, <2>1 DEF Promise, Outcomes, Concluding
  <2>3. Requests' = [Requests EXCEPT ![r] = "closed"]
    BY <1>4, <2>1, BecameIs
  <2>4. Answers' = Answers \/ Answers' = [Answers EXCEPT ![r] = "outcome"]
    <3>1. Told("checking") = "nothing" /\ Told("failed") = "outcome"
      BY ToldIs DEF Waiting
    <3>2. Answers' = [Answers EXCEPT ![r] = Told(at)]
      BY <1>3, <2>1
    <3>3. CASE at = "checking"
      BY <1>5, <2>1, <3>1, <3>2, <3>3
    <3>4. CASE at = "failed"
      BY <3>1, <3>2, <3>4
    <3> QED
      BY <1>11, <3>3, <3>4
  <2> QED
    BY <1>2, <1>5, <2>1, <2>2, <2>3, <2>4
       DEF Restart!Collect, Requests, Holding, Acting, Answers
<1> QED
  BY <1>7, <1>8, <1>9, <1>10, <1>11 DEF CliStep

LEMMA ClaimTakes ==
  ASSUME TypeOK, Hands, NEW d \in Dashboard, claim_share_requests(d)
  PROVE  \E S, T \in SUBSET Restart!Request : Restart!Take(S, T)
<1> DEFINE claimed == {r \in Open : Due(d, r)}
           cleared == Purged \cup Abandoned
<1>1. /\ claimed \subseteq Request /\ cleared \subseteq Request
      /\ \A r \in claimed : row[r] = "pending"
      /\ \A r \in cleared : r \notin claimed /\ row[r] \in RowState \ {"none"}
  BY DEF Open, Purged, Abandoned, RowState
<1>2. /\ row' = [r \in Request |-> IF r \in cleared THEN "gone"
                                   ELSE IF r \in claimed THEN "claimed" ELSE row[r]]
      /\ work' = [work EXCEPT ![d] = claimed] /\ work'[d] = claimed /\ work[d] = {}
      /\ \A e \in Dashboard \ {d} : work'[e] = work[e] /\ pc'[e] = pc[e]
      /\ pc'[d] # "finish"
      /\ UNCHANGED <<acts, cli>>
  BY DEF claim_share_requests, TypeOK, AfterWork, cliVars, historyVars
<1> HIDE DEF claimed, cleared
<1>3. Requests' = [r \in Request |-> IF r \in claimed THEN "taken"
                     ELSE IF r \in cleared THEN "closed" ELSE Requests[r]]
  <2> SUFFICES ASSUME NEW r \in Request
               PROVE  Became(row'[r]) = IF r \in claimed THEN "taken"
                        ELSE IF r \in cleared THEN "closed" ELSE Became(row[r])
    BY DEF Requests
  <2> QED
    BY <1>1, <1>2, BecameIs
<1>4. Holding' = Holding \cup claimed
  <2>1. \A r \in Request : ~Holds(d, r) /\ (Holds(d, r)' <=> r \in claimed)
    BY <1>2 DEF Holds
  <2> QED
    BY <1>1, <1>2, <2>1, HoldingMoves DEF Holding
<1>5. Acting' = Acting /\ Answers' = Answers
  BY <1>2, StaysActing, StaysAnswers
<1>6. /\ \A r \in claimed : Requests[r] = "open"
      /\ \A r \in cleared : r \notin claimed /\ Requests[r] # "none"
  BY <1>1, BecameIs DEF Requests, RowState
<1>7. Restart!Take(claimed, cleared)
  BY <1>3, <1>4, <1>5, <1>6
     DEF Restart!Take, Restart!Request, Request, Requests, Holding, Acting, Answers
<1> QED
  BY <1>1, <1>7 DEF Restart!Request, Request

LEMMA ForceActs ==
  ASSUME TypeOK, Hands, NEW d \in Dashboard, NEW r \in Request, force_share_workspace(d, r)
  PROVE  Restart!Act(r)
<1>1. /\ r \in work[d] /\ IsFirst(r, work[d]) /\ pc[d] = "act" /\ acts[r] = 0
      /\ \A e \in Dashboard : r \in work[e] => e = d
  BY DEF force_share_workspace, Hands, Held, IsFirst
<1>2. /\ acts' = [acts EXCEPT ![r] = 1]
      /\ pc' = [pc EXCEPT ![d] = "finish"] /\ pc'[d] = "finish"
      /\ \A e \in Dashboard \ {d} : work'[e] = work[e] /\ pc'[e] = pc[e]
      /\ UNCHANGED <<row, cli, work>>
  BY <1>1 DEF force_share_workspace, dbVars, cliVars, TypeOK
<1>3. \A q \in work[d] : IsFirst(q, work[d]) => q = r
  BY <1>1 DEF IsFirst, TypeOK, Request
<1>4. \A q \in Request : /\ Holds(d, q) <=> q \in work[d]
                         /\ Holds(d, q)' <=> q \in work[d] /\ q # r
  BY <1>1, <1>2, <1>3 DEF Holds, IsFirst
<1>5. Holding' = Holding \ {r} /\ r \in Holding
  <2>1. \A e \in Dashboard \ {d} : ~Holds(e, r)
    BY <1>1 DEF Holds
  <2> QED
    BY <1>1, <1>2, <1>4, <2>1, HoldingMoves DEF Holding
<1>6. Acting' = Acting \cup {r}
  BY <1>2 DEF Acting, TypeOK
<1>7. Requests' = Requests /\ Answers' = Answers
  BY <1>2, StaysRequests, StaysAnswers
<1> QED
  BY <1>5, <1>6, <1>7
     DEF Restart!Act, Restart!Request, Request, Requests, Holding, Acting, Answers

LEMMA FinishAnswers ==
  ASSUME TypeOK, Hands, Promise, NEW d \in Dashboard, NEW r \in Request,
         NEW recorded \in BOOLEAN, finish_share_request(d, r, recorded)
  PROVE  Restart!Answer(r) \/ Idle
<1>1. /\ r \in work[d] /\ IsFirst(r, work[d]) /\ pc[d] = "finish" /\ acts[r] = 1
      /\ row[r] \in {"claimed", "gone"} /\ result[d] \in {"finished", "failed"}
  BY DEF finish_share_request, Promise, InHand, IsFirst, TypeOK
<1>2. /\ work' = [work EXCEPT ![d] = @ \ {r}] /\ work'[d] = work[d] \ {r}
      /\ pc'[d] # "finish"
      /\ \A e \in Dashboard \ {d} : work'[e] = work[e] /\ pc'[e] = pc[e]
      /\ UNCHANGED <<acts, cli>>
  BY DEF finish_share_request, cliVars, historyVars, AfterWork, TypeOK
<1>3. \A q \in work[d] : IsFirst(q, work[d]) => q = r
  BY <1>1 DEF IsFirst, TypeOK, Request
<1>4. Holding' = Holding
  <2>1. \A q \in Request : Holds(d, q)' <=> Holds(d, q)
    BY <1>1, <1>2, <1>3 DEF Holds
  <2> QED
    BY <1>2, <2>1, HoldingMoves DEF Holding
<1>5. Acting' = Acting /\ Answers' = Answers /\ r \in Acting
  BY <1>1, <1>2, StaysActing, StaysAnswers DEF Acting
<1>6. CASE recorded
  <2>1. row[r] = "claimed" /\ row' = [row EXCEPT ![r] = result[d]]
    BY <1>1, <1>6 DEF finish_share_request
  <2>2. Requests[r] = "taken" /\ Requests' = [Requests EXCEPT ![r] = "answered"]
    BY <1>1, <2>1, BecameIs DEF Requests, TypeOK
  <2> QED
    BY <1>4, <1>5, <2>2
       DEF Restart!Answer, Restart!Request, Request, Requests, Holding, Acting, Answers
<1>7. CASE ~recorded
  BY <1>4, <1>5, <1>7, StaysRequests DEF Idle, finish_share_request
<1> QED
  BY <1>6, <1>7

LEMMA CrashLoses ==
  ASSUME TypeOK, NEW d \in Dashboard, Crash(d)
  PROVE  \E S \in SUBSET Restart!Request : Restart!Lose(S)
<1> DEFINE S == Holding \ Holding'
<1>1. /\ \A e \in Dashboard \ {d} : work'[e] = work[e] /\ pc'[e] = pc[e]
      /\ work'[d] = {} /\ UNCHANGED <<row, cli, acts>>
  BY DEF Crash, dbVars, cliVars, TypeOK
<1>2. Holding' \subseteq Holding
  BY <1>1, HoldingMoves DEF Holding, Holds
<1>3. Holding' = Holding \ S
  BY <1>2
<1>4. UNCHANGED <<Requests, Acting, Answers>>
  BY <1>1, StaysRequests, StaysActing, StaysAnswers
<1>5. S \in SUBSET Restart!Request
  BY DEF Holding, Restart!Request, Request
<1> HIDE DEF S
<1>6. Restart!Lose(S)
  BY <1>3, <1>4 DEF Restart!Lose, Requests, Holding, Acting, Answers
<1> QED
  BY <1>5, <1>6

LEMMA UnseenIdles ==
  ASSUME TypeOK, Unseen
  PROVE  Idle
<1>1. /\ UNCHANGED <<row, cli, work, acts>>
      /\ \A d \in Dashboard : pc'[d] = pc[d] \/ work[d] = {}
  BY UnseenFrame
<1>2. Holding' = Holding
  BY <1>1 DEF Holding, Holds, IsFirst
<1> QED
  BY <1>1, <1>2, StaysRequests, StaysActing, StaysAnswers DEF Idle

LEMMA PromiseInit == Init => Restart!Init /\ Promise
<1> SUFFICES ASSUME Init PROVE Restart!Init /\ Promise
  OBVIOUS
<1>1. Requests = [r \in Request |-> "none"] /\ Answers = [r \in Request |-> "nothing"]
  BY BecameIs, ToldIs DEF Init, Requests, Answers
<1>2. Holding = {} /\ Acting = {}
  BY DEF Init, Holding, Holds, Acting
<1>3. Promise
  BY ShareAssumption DEF Init, Promise, Outcomes, Concluding, InHand, Made, Request
<1> QED
  BY <1>1, <1>2, <1>3
     DEF Restart!Init, Restart!Request, Request, Requests, Holding, Acting, Answers

LEMMA NextPromised ==
  ASSUME IInv, Promise, [Next]_vars
  PROVE  [Restart!Next]_(Restart!vars)
<1>1. TypeOK /\ Hands
  BY DEF IInv, Hands
<1>2. SUFFICES ASSUME ~Idle
               PROVE  Restart!Next
  BY Unfold
<1>3. Next
  <2>1. CASE UNCHANGED vars
    BY <1>2, <2>1, StaysRequests, StaysHolding, StaysActing, StaysAnswers
       DEF vars, dbVars, cliVars, tickVars, historyVars, Idle
  <2> QED
    BY <2>1
<1>4. ASSUME NEW w \in Workspace, Enqueue(w)
      PROVE  Restart!Next
  <2>1. Restart!Ask(lastId + 1)
    BY <1>1, <1>4, EnqueueAsks
  <2>2. lastId + 1 \in Restart!Request
    BY <1>4, Unfold DEF Enqueue
  <2> QED
    BY <2>1, <2>2 DEF Restart!Next
<1>5. ASSUME NEW r \in Request, CliStep(r)
      PROVE  Restart!Next
  BY <1>1, <1>2, <1>5, CliStepTells, Unfold DEF Restart!Next
<1>6. ASSUME NEW d \in Dashboard, claim_share_requests(d)
      PROVE  Restart!Next
  BY <1>1, <1>6, ClaimTakes DEF Restart!Next
<1>7. ASSUME NEW d \in Dashboard, NEW r \in Request,
             \/ force_share_workspace(d, r)
             \/ \E recorded \in BOOLEAN : finish_share_request(d, r, recorded)
      PROVE  Restart!Next
  BY <1>1, <1>2, <1>7, ForceActs, FinishAnswers, Unfold DEF Restart!Next
<1>8. ASSUME NEW d \in Dashboard, Crash(d)
      PROVE  Restart!Next
  BY <1>1, <1>8, CrashLoses DEF Restart!Next
<1> QED
  BY <1>1, <1>2, <1>3, <1>4, <1>5, <1>6, <1>7, <1>8, UnseenIdles DEF Next, CliStep, Unseen

\* Everything a waiting CLI and the dashboards do with a request is a behaviour of
\* RestartRequest: it is taken up once or never, whoever took it acts once or is
\* gone, an outcome is told only of what was done, a refusal only of what nobody
\* will do (share_requests' transactions, and share_and_restart's answers).
THEOREM PromiseKept == Spec => ImplementsRequest
<1>1. Init => Restart!Init /\ Promise
  BY PromiseInit
<1>2. IInv /\ Promise /\ [Next]_vars => Promise'
  <2>1. CASE UNCHANGED vars
    BY <2>1 DEF vars, dbVars, cliVars, tickVars, historyVars, Promise, Outcomes, InHand,
                Made, IsFirst
  <2>2. IInv => TypeOK /\ Hands
    BY DEF IInv, Hands
  <2> QED
    BY <2>1, <2>2, PromiseNext
<1>3. IInv /\ Promise /\ [Next]_vars => [Restart!Next]_(Restart!vars)
  BY NextPromised
<1> QED
  BY <1>1, <1>2, <1>3, Invariance, PTL DEF Spec, ImplementsRequest, Restart!Spec
=============================================================================
