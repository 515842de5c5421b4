------------------------------ MODULE PtyWrites ------------------------------
(***************************************************************************)
(* What a dashboard writes to one agent's terminal, and through what.  All *)
(* writes go through a bounded channel to one writer task.  Keystrokes are *)
(* sent directly; a prompt tag is sent with an acknowledgement the user    *)
(* waits for; replies and chip commands (write_when_booted) are held while *)
(* the agent has no composer, and a drainer sends them when it has one; a  *)
(* message's injection task (send_text_when_settled) waits for the         *)
(* composer itself, and sends a body and then an acknowledged Enter.       *)
(*                                                                         *)
(* Input handlers run one at a time: they hold the App lock.  Injections   *)
(* of one session run one at a time (Mailbox).  A write is a value of its  *)
(* own, never bytes.                                                       *)
(***************************************************************************)
EXTENDS Naturals, Sequences

CONSTANTS
  Capacity,    \* requests in the channel (64) and in the writer's hand (1)
  MaxReply,    \* bound: calls of write_when_booted
  MaxDirect,   \* bound: keystrokes, wheel reports and pastes
  MaxInsert,   \* bound: calls of insert_text
  MaxInject,   \* bound: calls of send_text_when_settled
  MaxModal     \* bound: how often the agent's composer disappears

ASSUME WritesAssumption ==
  /\ Capacity \in Nat \ {0}
  /\ MaxReply \in Nat /\ MaxDirect \in Nat /\ MaxInsert \in Nat
  /\ MaxInject \in Nat /\ MaxModal \in Nat

\* A request to the writer, by who made it and which of its calls it is of.
Reply(n) == [kind |-> "reply", n |-> n]
Direct(n) == [kind |-> "direct", n |-> n]
Insert(n) == [kind |-> "insert", n |-> n]
Body(n) == [kind |-> "body", n |-> n]
Enter(n) == [kind |-> "enter", n |-> n]

WriteReq == [kind : {"reply", "direct", "insert", "body", "enter"}, n : Nat]

VARIABLES
  screen,    \* what the agent shows: nothing yet, a composer, or a modal
  modals,    \* how often its composer disappeared
  alive,     \* whether its process runs
  exited,    \* whether the reader thread noticed that it does not
  open,      \* whether the writer task runs
  chan,      \* the channel, the request in the writer's hand first
  tty,       \* history: what was written to the terminal
  fired,     \* the acknowledgements that fired
  held,      \* held_writes: numbers of replies
  lock,      \* who holds the lock of held_writes across a send
  drainer,   \* the task that waits to send them
  ui,        \* what the input handler is doing
  made,      \* the numbers of calls begun, by kind
  confirmed, \* the insertions reported as done
  inject,    \* what the injection task is doing
  outcome    \* what each injection answered

agent == <<screen, modals, alive, exited>>
wire == <<open, chan, tty, fired>>
queue == <<held, lock, drainer>>
user == <<ui, made, confirmed>>
mail == <<inject, outcome>>
vars == <<agent, wire, queue, user, mail>>

TypeOK ==
  /\ screen \in {"boot", "composer", "modal"} /\ modals \in 0 .. MaxModal
  /\ alive \in BOOLEAN /\ exited \in BOOLEAN /\ open \in BOOLEAN
  /\ chan \in Seq(WriteReq) /\ Len(chan) <= Capacity
  /\ tty \in Seq(WriteReq)
  /\ fired \subseteq WriteReq
  /\ held \in Seq(1 .. MaxReply)
  /\ lock \in {"free", "ui", "drainer"}
  /\ drainer \in {"none", "wait", "ready", "drain", "giveup"}
  /\ ui \in {"idle", "reply", "send", "direct", "insert", "ack"}
  /\ made \in [{"reply", "direct", "insert", "inject"} -> Nat]
  /\ made["reply"] <= MaxReply /\ made["direct"] <= MaxDirect
  /\ made["insert"] <= MaxInsert /\ made["inject"] <= MaxInject
  /\ confirmed \subseteq 1 .. MaxInsert
  /\ inject \in {"idle", "settle", "body", "enter", "ack"}
  /\ outcome \in [1 .. MaxInject -> {"none", "written", "failed"}]

Init ==
  /\ screen = "boot" /\ modals = 0
  /\ alive = TRUE /\ exited = FALSE /\ open = TRUE
  /\ chan = <<>> /\ tty = <<>> /\ fired = {}
  /\ held = <<>> /\ lock = "free" /\ drainer = "none"
  /\ ui = "idle" /\ made = [k \in {"reply", "direct", "insert", "inject"} |-> 0]
  /\ confirmed = {}
  /\ inject = "idle" /\ outcome = [k \in 1 .. MaxInject |-> "none"]

-----------------------------------------------------------------------------
(* The agent, and the reader thread that parses what it prints.            *)

\* It draws its composer, or comes back to it when a modal is answered.
Draw ==
  /\ alive /\ screen # "composer"
  /\ screen' = "composer"
  /\ UNCHANGED <<modals, alive, exited, wire, queue, user, mail>>

\* It puts a modal over its composer.
Cover ==
  /\ alive /\ screen = "composer" /\ modals < MaxModal
  /\ screen' = "modal" /\ modals' = modals + 1
  /\ UNCHANGED <<alive, exited, wire, queue, user, mail>>

Die ==
  /\ alive
  /\ alive' = FALSE
  /\ UNCHANGED <<screen, modals, exited, wire, queue, user, mail>>

\* The reader sees the end of its output and records its exit.
Reaped ==
  /\ ~alive /\ ~exited
  /\ exited' = TRUE
  /\ UNCHANGED <<screen, modals, alive, wire, queue, user, mail>>

\* The last screen of a dead agent is still looked at.
accepts_input_now == screen = "composer"

-----------------------------------------------------------------------------
(* The channel and the writer task.                                        *)

\* A bug: a channel without a bound.
Room_Always == TRUE

Room == Len(chan) < Capacity

\* A send waits for room, and fails when the writer is gone.
CanSend == ~open \/ Room

Sent(r) == chan' = IF open THEN Append(chan, r) ELSE chan

\* The oldest request is written, and acknowledged if it asked for that (the
\* process may be gone while another one keeps its terminal open).
Write ==
  /\ open /\ chan # <<>>
  /\ tty' = Append(tty, Head(chan))
  /\ fired' = IF Head(chan).kind \in {"insert", "enter"}
                 THEN fired \cup {Head(chan)} ELSE fired
  /\ chan' = Tail(chan)
  /\ UNCHANGED <<agent, open, queue, user, mail>>

\* A write fails: the writer ends, and with it all that is queued.
WriteFails ==
  /\ open /\ chan # <<>> /\ ~alive
  /\ open' = FALSE /\ chan' = <<>>
  /\ UNCHANGED <<agent, tty, fired, queue, user, mail>>

\* A bug: an acknowledgement that was dropped counts as one that fired.
Confirms_Dropped(r) == r \in fired \/ ~open

\* await_ack: whether the waiter is told that its bytes were written.
Confirms(r) == r \in fired

\* await_ack gives up: the acknowledgement was dropped, or 5 s have passed.
MayGiveUp(r) == r \notin fired

-----------------------------------------------------------------------------
(* Input handlers.                                                         *)

Begun(kind, max) ==
  /\ made[kind] < max
  /\ made' = [made EXCEPT ![kind] = @ + 1]

Handle(kind, max) ==
  /\ ui = "idle" /\ ui' = kind
  /\ Begun(kind, max)
  /\ UNCHANGED <<agent, wire, queue, confirmed, mail>>

\* A reply or chip command; a keystroke, wheel report or paste; a prompt tag.
BeginReply == Handle("reply", MaxReply)
BeginDirect == Handle("direct", MaxDirect)
BeginInsert == Handle("insert", MaxInsert)

\* A bug: a write goes to the channel as soon as the agent takes input.
GoesNow_IfReady == accepts_input_now

GoesNow == held = <<>> /\ accepts_input_now

\* write_when_booted, with the lock: the reply is sent, the lock kept until
\* there is room for it, or it is held, with a drainer for the first.
write_when_booted ==
  /\ ui = "reply" /\ lock = "free"
  /\ \/ /\ GoesNow
        /\ ui' = "send" /\ lock' = "ui"
        /\ UNCHANGED <<held, drainer>>
     \/ /\ ~GoesNow
        /\ ui' = "idle"
        /\ held' = Append(held, made["reply"])
        /\ drainer' = IF held = <<>> THEN "wait" ELSE drainer
        /\ UNCHANGED lock
  /\ UNCHANGED <<agent, wire, made, confirmed, mail>>

SendReply ==
  /\ ui = "send" /\ CanSend
  /\ Sent(Reply(made["reply"]))
  /\ ui' = "idle" /\ lock' = "free"
  /\ UNCHANGED <<agent, open, tty, fired, held, drainer, made, confirmed, mail>>

SendDirect ==
  /\ ui = "direct" /\ CanSend
  /\ Sent(Direct(made["direct"]))
  /\ ui' = "idle"
  /\ UNCHANGED <<agent, open, tty, fired, queue, made, confirmed, mail>>

\* insert_text: false at once if the writer is gone.
SendInsert ==
  /\ ui = "insert" /\ CanSend
  /\ Sent(Insert(made["insert"]))
  /\ ui' = IF open THEN "ack" ELSE "idle"
  /\ UNCHANGED <<agent, open, tty, fired, queue, made, confirmed, mail>>

InsertConfirmed ==
  /\ ui = "ack" /\ Confirms(Insert(made["insert"]))
  /\ ui' = "idle"
  /\ confirmed' = confirmed \cup {made["insert"]}
  /\ UNCHANGED <<agent, wire, queue, made, mail>>

InsertGivenUp ==
  /\ ui = "ack" /\ MayGiveUp(Insert(made["insert"]))
  /\ ui' = "idle"
  /\ UNCHANGED <<agent, wire, queue, made, confirmed, mail>>

-----------------------------------------------------------------------------
(* The drainer of held_writes.                                             *)

\* wait_until_settled answers true: a composer, and quiet for a while.
Settled == ~exited /\ accepts_input_now

Settle ==
  /\ drainer = "wait" /\ Settled
  /\ drainer' = "ready"
  /\ UNCHANGED <<agent, wire, held, lock, user, mail>>

\* A wait that timed out is begun again unless there is nobody to wait for.
GivesUp == exited \/ ~open

GiveUp ==
  /\ drainer = "wait" /\ GivesUp
  /\ drainer' = "giveup"
  /\ UNCHANGED <<agent, wire, held, lock, user, mail>>

\* With the lock, what is held is dropped.
Clear ==
  /\ drainer = "giveup" /\ lock = "free"
  /\ held' = <<>> /\ drainer' = "none"
  /\ UNCHANGED <<agent, wire, lock, user, mail>>

Drain ==
  /\ drainer = "ready" /\ lock = "free"
  /\ drainer' = "drain" /\ lock' = "drainer"
  /\ UNCHANGED <<agent, wire, held, user, mail>>

\* The oldest held write is sent; the lock is kept until none is left.
DrainOne ==
  /\ drainer = "drain" /\ held # <<>> /\ CanSend
  /\ Sent(Reply(Head(held)))
  /\ held' = Tail(held)
  /\ UNCHANGED <<agent, open, tty, fired, lock, drainer, user, mail>>

\* A bug: one write per settled agent.
Drained_AfterOne == TRUE

Drained == held = <<>>

DrainEnds ==
  /\ drainer = "drain" /\ Drained
  /\ drainer' = "none" /\ lock' = "free"
  /\ UNCHANGED <<agent, wire, held, user, mail>>

-----------------------------------------------------------------------------
(* The injection of a message.                                             *)

BeginInject ==
  /\ inject = "idle" /\ inject' = "settle"
  /\ Begun("inject", MaxInject)
  /\ UNCHANGED <<agent, wire, queue, ui, confirmed, outcome>>

Answer(o) ==
  /\ inject' = "idle"
  /\ outcome' = [outcome EXCEPT ![made["inject"]] = o]
  /\ UNCHANGED <<agent, queue, user>>

InjectSettle ==
  /\ inject = "settle" /\ Settled
  /\ inject' = "body"
  /\ UNCHANGED <<agent, wire, queue, user, outcome>>

\* The agent exits or the timeout passes first, and nothing is written.
NeverSettled ==
  /\ inject = "settle"
  /\ Answer("failed")
  /\ UNCHANGED wire

\* The body, and 80 ms later the Enter; a send to a writer that is gone ends it.
SendBody ==
  /\ inject = "body" /\ open /\ Room
  /\ Sent(Body(made["inject"]))
  /\ inject' = "enter"
  /\ UNCHANGED <<agent, open, tty, fired, queue, user, outcome>>

SendEnter ==
  /\ inject = "enter" /\ open /\ Room
  /\ Sent(Enter(made["inject"]))
  /\ inject' = "ack"
  /\ UNCHANGED <<agent, open, tty, fired, queue, user, outcome>>

SendRefused ==
  /\ inject \in {"body", "enter"} /\ ~open
  /\ Answer("failed")
  /\ UNCHANGED wire

InjectConfirmed ==
  /\ inject = "ack" /\ Confirms(Enter(made["inject"]))
  /\ Answer("written")
  /\ UNCHANGED wire

InjectGivenUp ==
  /\ inject = "ack" /\ MayGiveUp(Enter(made["inject"]))
  /\ Answer("failed")
  /\ UNCHANGED wire

-----------------------------------------------------------------------------
HandlerStep ==
  \/ write_when_booted \/ SendReply \/ SendDirect
  \/ SendInsert \/ InsertConfirmed \/ InsertGivenUp

DrainerStep == Settle \/ GiveUp \/ Clear \/ Drain \/ DrainOne \/ DrainEnds

InjectStep ==
  \/ InjectSettle \/ NeverSettled \/ SendBody \/ SendEnter
  \/ SendRefused \/ InjectConfirmed \/ InjectGivenUp

Next ==
  \/ Draw \/ Cover \/ Die \/ Reaped
  \/ Write \/ WriteFails
  \/ BeginReply \/ BeginDirect \/ BeginInsert \/ HandlerStep
  \/ DrainerStep
  \/ BeginInject \/ InjectStep

Spec == Init /\ [][Next]_vars

-----------------------------------------------------------------------------
(* Safety.                                                                 *)

\* Replies and chip commands reach the terminal in the order they were made,
\* none twice, whether they were held or not; and while the agent lives none is
\* left out: one that is written was preceded by all those made before it.
RepliesInOrder ==
  \A j \in DOMAIN tty : tty[j].kind = "reply" =>
    /\ \A i \in 1 .. j - 1 : tty[i].kind = "reply" => tty[i].n < tty[j].n
    /\ alive => \A m \in 1 .. tty[j].n - 1 : \E i \in 1 .. j - 1 : tty[i] = Reply(m)

\* An injection reported as written did write its body and then its Enter
\* ("the CR having been written proves the body ahead of it was too"), and a
\* prompt tag reported as inserted was: what marks mail as delivered is true.
AckedMeansWritten ==
  /\ \A k \in 1 .. MaxInject : outcome[k] = "written" =>
       \E i, j \in DOMAIN tty : i < j /\ tty[i] = Body(k) /\ tty[j] = Enter(k)
  /\ \A k \in confirmed : \E i \in DOMAIN tty : tty[i] = Insert(k)

-----------------------------------------------------------------------------
(***************************************************************************)
(* Liveness.  The agent reads its terminal or dies, draws its composer, and *)
(* its modals are answered; tasks run, and input handlers resume.          *)
(***************************************************************************)
Fairness ==
  /\ WF_vars(Draw) /\ WF_vars(Reaped)
  /\ WF_vars(Write \/ WriteFails)
  /\ WF_vars(HandlerStep) /\ WF_vars(DrainerStep) /\ WF_vars(InjectStep)

FairSpec == Spec /\ Fairness

\* Every input handler ends, so the dashboard does not stay frozen behind the
\* channel or the lock; every injection answers; and what is held is sent or
\* dropped: no write waits for a drainer that is not there.
WritesSettle ==
  /\ ui # "idle" ~> ui = "idle"
  /\ inject # "idle" ~> inject = "idle"
  /\ \A n \in 1 .. MaxReply :
       (\E i \in DOMAIN held : held[i] = n) ~> ~(\E i \in DOMAIN held : held[i] = n)
=============================================================================
