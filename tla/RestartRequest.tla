--------------------------- MODULE RestartRequest ---------------------------
(***************************************************************************)
(* What `wsx workspace share --restart` promises whoever waits for it,     *)
(* with any number of dashboards about: a request is taken up once or not  *)
(* at all, whoever holds it restarts the agents once or dies with it, and  *)
(* what the waiting CLI is told is true of what was done.                  *)
(***************************************************************************)
EXTENDS Naturals

CONSTANT MaxRequest   \* how many requests a behaviour makes

VARIABLES
  request,  \* request id -> what became of it
  held,     \* the requests that somebody holds and has yet to act on
  acted,    \* those for which the agents were restarted, or an attempt failed
  told      \* request id -> what the CLI that made it was told

Request == 1 .. MaxRequest
vars == <<request, held, acted, told>>

Init ==
  /\ request = [r \in Request |-> "none"]
  /\ held = {} /\ acted = {}
  /\ told = [r \in Request |-> "nothing"]

\* Ids are handed out in order.
Ask(r) ==
  /\ request[r] = "none"
  /\ \A q \in Request : q < r => request[q] # "none"
  /\ request' = [request EXCEPT ![r] = "open"]
  /\ UNCHANGED <<held, acted, told>>

\* Open requests are taken up; others, answered or left by everybody, are
\* cleared away.  Taking one up is the only way to hold it.
Take(S, cleared) ==
  /\ \A r \in S : request[r] = "open"
  /\ \A r \in cleared : r \notin S /\ request[r] # "none"
  /\ request' = [r \in Request |-> IF r \in S THEN "taken"
                                   ELSE IF r \in cleared THEN "closed" ELSE request[r]]
  /\ held' = held \cup S
  /\ UNCHANGED <<acted, told>>

\* Whoever holds a request acts on it, and holds it no more.
Act(r) ==
  /\ r \in held
  /\ held' = held \ {r}
  /\ acted' = acted \cup {r}
  /\ UNCHANGED <<request, told>>

\* Those who held them are gone.
Lose(S) ==
  /\ held' = held \ S
  /\ UNCHANGED <<request, acted, told>>

\* The outcome of what was done is there to be collected.
Answer(r) ==
  /\ request[r] = "taken" /\ r \in acted
  /\ request' = [request EXCEPT ![r] = "answered"]
  /\ UNCHANGED <<held, acted, told>>

\* The CLI takes the outcome away.
Collect(r) ==
  /\ told[r] = "nothing" /\ r \in acted
  /\ request' = [request EXCEPT ![r] = "closed"]
  /\ told' \in {told, [told EXCEPT ![r] = "outcome"]}
  /\ UNCHANGED <<held, acted>>

\* It tells what came of it.
Tell(r) ==
  /\ told[r] = "nothing" /\ r \in acted
  /\ told' = [told EXCEPT ![r] = "outcome"]
  /\ UNCHANGED <<request, held, acted>>

\* "No dashboard picked it up": the request is taken back, and nobody will.
Refuse(r) ==
  /\ told[r] = "nothing" /\ request[r] = "open"
  /\ told' = [told EXCEPT ![r] = "refused"]
  /\ request' = [request EXCEPT ![r] = "closed"]
  /\ UNCHANGED <<held, acted>>

\* "A dashboard picked it up, but did not answer in time".
Late(r) ==
  /\ told[r] = "nothing" /\ request[r] = "taken"
  /\ told' = [told EXCEPT ![r] = "late"]
  /\ UNCHANGED <<request, held, acted>>

\* It ends and knows nothing: it was killed, or its request was cleared away.
GiveUp(r) ==
  /\ told[r] = "nothing" /\ request[r] # "none"
  /\ told' = [told EXCEPT ![r] = "unknown"]
  /\ UNCHANGED <<request, held, acted>>

Next ==
  \/ \E r \in Request : \/ Ask(r) \/ Act(r) \/ Answer(r) \/ Collect(r) \/ Tell(r)
                        \/ Refuse(r) \/ Late(r) \/ GiveUp(r)
  \/ \E S, T \in SUBSET Request : Take(S, T)
  \/ \E S \in SUBSET Request : Lose(S)

Spec == Init /\ [][Next]_vars
=============================================================================
