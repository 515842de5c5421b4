--------------------------- MODULE PtyWritesProofs ---------------------------
(***************************************************************************)
(* Proofs about PtyWrites: type correctness, that replies reach the        *)
(* terminal in order and without gaps, and that what is reported as        *)
(* written was, for any capacity of the channel and any number of calls.   *)
(***************************************************************************)
EXTENDS PtyWrites, SequenceTheorems, TLAPS

Has(s, r) == \E i \in DOMAIN s : s[i] = r
Holds(n) == \E i \in DOMAIN held : held[i] = n

\* The replies of a sequence of requests are those before number n, in order.
Below(s, n) == \A i \in DOMAIN s : s[i].kind = "reply" => s[i].n < n
Ascends(s) ==
  \A i, j \in DOMAIN s : i < j /\ s[i].kind = "reply" /\ s[j].kind = "reply" => s[i].n < s[j].n

\* A reply that was made and is in nobody's hands yet.
InHand == ui \in {"reply", "send"}

\* From the terminal to the hand, replies stand in the order they were made.
InLine ==
  /\ Ascends(tty) /\ Ascends(chan)
  /\ \A j \in DOMAIN chan : chan[j].kind = "reply" => Below(tty, chan[j].n)
  /\ \A i, j \in DOMAIN held : i < j => held[i] < held[j]
  /\ \A i \in DOMAIN held : Below(tty, held[i]) /\ Below(chan, held[i])
  /\ Below(tty, made["reply"] + 1) /\ Below(chan, made["reply"] + 1)
  /\ \A i \in DOMAIN held : held[i] <= made["reply"]
  /\ InHand =>
       /\ Below(tty, made["reply"]) /\ Below(chan, made["reply"])
       /\ \A i \in DOMAIN held : held[i] < made["reply"]

\* While the agent lives, every reply that was made is somewhere.
NoneLost ==
  alive => \A m \in 1 .. made["reply"] :
    \/ InHand /\ m = made["reply"]
    \/ Has(tty, Reply(m)) \/ Has(chan, Reply(m)) \/ Holds(m)

\* Who holds the lock, and what only a dead agent explains.
Control ==
  /\ ui = "send" => lock = "ui" /\ held = <<>>
  /\ lock = "ui" => ui = "send"
  /\ drainer = "drain" <=> lock = "drainer"
  /\ alive => open /\ ~exited /\ drainer # "giveup"
  /\ InHand => made["reply"] \in 1 .. MaxReply
  /\ ui \in {"insert", "ack"} => made["insert"] \in 1 .. MaxInsert
  /\ inject # "idle" => made["inject"] \in 1 .. MaxInject

\* An Enter is behind its body.
Bodies ==
  /\ \A k \in Nat, j \in DOMAIN tty : tty[j] = Enter(k) => \E i \in 1 .. j - 1 : tty[i] = Body(k)
  /\ \A k \in Nat, j \in DOMAIN chan : chan[j] = Enter(k) =>
       Has(tty, Body(k)) \/ \E i \in 1 .. j - 1 : chan[i] = Body(k)
  /\ inject = "enter" /\ open => Has(tty, Body(made["inject"])) \/ Has(chan, Body(made["inject"]))

\* What was acknowledged was written.
Acks ==
  /\ \A r \in fired : Has(tty, r)
  /\ AckedMeansWritten

\* The inductive invariant.
IInv == TypeOK /\ InLine /\ NoneLost /\ Control /\ Bodies /\ Acks

-----------------------------------------------------------------------------
(* The channel and the terminal.                                           *)

\* The requests are different from each other.
LEMMA Kinds ==
  ASSUME NEW m \in Nat, NEW n \in Nat
  PROVE  /\ Reply(m) \in WriteReq /\ Direct(m) \in WriteReq /\ Insert(m) \in WriteReq
         /\ Body(m) \in WriteReq /\ Enter(m) \in WriteReq
         /\ Reply(m).kind = "reply" /\ Reply(m).n = m
         /\ Direct(m).kind # "reply" /\ Insert(m).kind # "reply"
         /\ Body(m).kind # "reply" /\ Enter(m).kind # "reply"
         /\ Reply(m) # Enter(n) /\ Direct(m) # Enter(n) /\ Insert(m) # Enter(n)
         /\ Body(m) # Enter(n)
         /\ Enter(m) = Enter(n) => m = n
BY DEF Reply, Direct, Insert, Body, Enter, WriteReq

\* A reply is known by its number.
LEMMA ReplyIs ==
  ASSUME NEW r \in WriteReq, r.kind = "reply"
  PROVE  r.n \in Nat /\ r = Reply(r.n)
BY DEF Reply, WriteReq

\* What a request behind a sequence of them changes.
LEMMA Behind ==
  ASSUME NEW s \in Seq(WriteReq), NEW r \in WriteReq, NEW t, t = Append(s, r)
  PROVE  /\ t \in Seq(WriteReq) /\ Len(s) \in Nat /\ Len(t) = Len(s) + 1
         /\ DOMAIN s = 1 .. Len(s) /\ DOMAIN t = 1 .. Len(s) + 1
         /\ \A i \in 1 .. Len(s) : t[i] = s[i] /\ s[i] \in WriteReq
         /\ t[Len(s) + 1] = r
         /\ \A x : Has(s, x) => Has(t, x)
         /\ Has(t, r)
<1>1. /\ t \in Seq(WriteReq) /\ Len(s) \in Nat /\ Len(t) = Len(s) + 1
      /\ DOMAIN s = 1 .. Len(s) /\ DOMAIN t = 1 .. Len(s) + 1
      /\ \A i \in 1 .. Len(s) : t[i] = s[i] /\ s[i] \in WriteReq
      /\ t[Len(s) + 1] = r
  OBVIOUS
<1>2. QED
  BY <1>1 DEF Has

\* What is left behind the first request of a sequence.
LEMMA Rest ==
  ASSUME NEW S, NEW s \in Seq(S), s # <<>>, NEW t, t = Tail(s)
  PROVE  /\ t \in Seq(S) /\ Len(s) \in Nat \ {0} /\ Len(t) = Len(s) - 1
         /\ DOMAIN s = 1 .. Len(s) /\ DOMAIN t = 1 .. Len(s) - 1
         /\ \A i \in 1 .. Len(s) - 1 : t[i] = s[i + 1] /\ i + 1 \in 1 .. Len(s)
         /\ \A i \in 1 .. Len(s) : s[i] \in S
         /\ Head(s) = s[1] /\ Head(s) \in S /\ 1 \in DOMAIN s
         /\ \A x : Has(s, x) => x = Head(s) \/ Has(t, x)
<1>1. /\ t \in Seq(S) /\ Len(s) \in Nat \ {0} /\ Len(t) = Len(s) - 1
      /\ DOMAIN s = 1 .. Len(s) /\ DOMAIN t = 1 .. Len(s) - 1
      /\ \A i \in 1 .. Len(s) - 1 : t[i] = s[i + 1] /\ i + 1 \in 1 .. Len(s)
      /\ \A i \in 1 .. Len(s) : s[i] \in S
      /\ Head(s) = s[1] /\ Head(s) \in S /\ 1 \in DOMAIN s
  BY EmptySeq
<1>2. ASSUME NEW x, Has(s, x), x # Head(s)
      PROVE  Has(t, x)
  <2>1. PICK i \in 1 .. Len(s) : s[i] = x
    BY <1>1, <1>2 DEF Has
  <2>2. i - 1 \in 1 .. Len(s) - 1 /\ t[i - 1] = x
    BY <1>1, <1>2, <2>1
  <2>3. QED
    BY <1>1, <2>2 DEF Has
<1>3. QED
  BY <1>1, <1>2

\* Order survives a later reply behind, and the loss of the first request.
LEMMA OrderBehind ==
  ASSUME NEW s \in Seq(WriteReq), NEW r \in WriteReq, NEW t, t = Append(s, r),
         Ascends(s), r.kind = "reply" => Below(s, r.n)
  PROVE  /\ Ascends(t)
         /\ \A n \in Nat : Below(s, n) /\ (r.kind = "reply" => r.n < n) => Below(t, n)
BY Behind DEF Ascends, Below

LEMMA OrderRest ==
  ASSUME NEW s \in Seq(WriteReq), s # <<>>, NEW t, t = Tail(s), Ascends(s)
  PROVE  /\ Ascends(t)
         /\ \A n \in Nat : Below(s, n) => Below(t, n)
         /\ Head(s).kind = "reply" =>
              \A i \in DOMAIN t : t[i].kind = "reply" => Head(s).n < t[i].n
<1>1. /\ t \in Seq(WriteReq) /\ Len(s) \in Nat \ {0} /\ Len(t) = Len(s) - 1
      /\ DOMAIN s = 1 .. Len(s) /\ DOMAIN t = 1 .. Len(s) - 1
      /\ \A i \in 1 .. Len(s) - 1 : t[i] = s[i + 1] /\ i + 1 \in 1 .. Len(s)
      /\ Head(s) = s[1] /\ 1 \in DOMAIN s
  BY Rest
<1>2. QED
  BY <1>1 DEF Ascends, Below

-----------------------------------------------------------------------------
(* A request enters the channel.                                           *)

\* What the senders share: a request that is no reply but perhaps an Enter
\* whose body went before it.
LEMMA Enqueue ==
  ASSUME IInv, NEW r \in WriteReq, Sent(r), CanSend, UNCHANGED <<tty, fired, open, agent>>,
         r.kind = "reply" => Below(tty, r.n) /\ Below(chan, r.n) /\ r.n <= made["reply"],
         \A k \in Nat : r = Enter(k) => ~open \/ Has(tty, Body(k)) \/ Has(chan, Body(k))
  PROVE  /\ chan' \in Seq(WriteReq) /\ Len(chan') <= Capacity
         /\ Ascends(chan')
         /\ \A j \in DOMAIN chan' : chan'[j].kind = "reply" => Below(tty, chan'[j].n)
         /\ Below(chan', made["reply"] + 1)
         /\ \A n \in Nat : Below(chan, n) /\ (r.kind = "reply" => r.n < n) => Below(chan', n)
         /\ \A x : Has(chan, x) => Has(chan', x)
         /\ open => Has(chan', r)
         /\ \A k \in Nat, j \in DOMAIN chan' : chan'[j] = Enter(k) =>
              Has(tty, Body(k)) \/ \E i \in 1 .. j - 1 : chan'[i] = Body(k)
<1>1. /\ chan \in Seq(WriteReq) /\ Len(chan) \in Nat /\ made["reply"] \in Nat
      /\ Len(chan) <= Capacity /\ Capacity \in Nat /\ DOMAIN chan = 1 .. Len(chan)
      /\ Ascends(chan) /\ Below(chan, made["reply"] + 1)
      /\ \A j \in DOMAIN chan : chan[j].kind = "reply" => Below(tty, chan[j].n)
      /\ \A k \in Nat, j \in DOMAIN chan : chan[j] = Enter(k) =>
           Has(tty, Body(k)) \/ \E i \in 1 .. j - 1 : chan[i] = Body(k)
  BY WritesAssumption DEF IInv, TypeOK, InLine, Bodies
<1>2. CASE ~open
  BY <1>1, <1>2 DEF Sent
<1>3. CASE open
  <2>1. chan' = Append(chan, r) /\ Len(chan) < Capacity
    BY <1>3 DEF Sent, CanSend, Room
  <2>2. /\ chan' \in Seq(WriteReq) /\ Len(chan') = Len(chan) + 1
        /\ DOMAIN chan' = 1 .. Len(chan) + 1
        /\ \A i \in 1 .. Len(chan) : chan'[i] = chan[i]
        /\ chan'[Len(chan) + 1] = r
    BY <1>1, <2>1
  <2>9. Has(chan', r) /\ \A x : Has(chan, x) => Has(chan', x)
    BY <1>1, <2>2 DEF Has
  <2>3. /\ Ascends(chan')
        /\ \A n \in Nat : Below(chan, n) /\ (r.kind = "reply" => r.n < n) => Below(chan', n)
    BY <1>1, <2>1, OrderBehind
  <2>4. r.kind = "reply" => r.n \in Nat
    BY DEF WriteReq
  <2>5. Below(chan', made["reply"] + 1)
    BY <1>1, <2>3, <2>4
  <2>6. \A j \in DOMAIN chan' : chan'[j].kind = "reply" => Below(tty, chan'[j].n)
    BY <1>1, <2>2
  <2>7. ASSUME NEW k \in Nat, NEW j \in DOMAIN chan', chan'[j] = Enter(k)
        PROVE  Has(tty, Body(k)) \/ \E i \in 1 .. j - 1 : chan'[i] = Body(k)
    <3>1. CASE j \in 1 .. Len(chan)
      BY <1>1, <2>2, <2>7, <3>1
    <3>2. CASE j = Len(chan) + 1
      BY <1>1, <1>3, <2>2, <2>7, <3>2 DEF Has
    <3>3. QED
      BY <2>2, <3>1, <3>2
  <2>8. QED
    BY <1>1, <2>1, <2>2, <2>3, <2>5, <2>6, <2>7, <2>9
<1>4. open \in BOOLEAN
  BY DEF IInv, TypeOK
<1>5. QED
  BY <1>2, <1>3, <1>4

-----------------------------------------------------------------------------
(* Every step preserves the invariant.                                     *)

LEMMA AgentSteps == ASSUME IInv, Draw \/ Cover \/ Die \/ Reaped PROVE IInv'
<1>1. UNCHANGED <<wire, queue, user, mail>>
  BY DEF Draw, Cover, Die, Reaped
<1>3. /\ (alive' => alive) /\ (exited' => exited \/ ~alive)
      /\ alive' \in BOOLEAN /\ exited' \in BOOLEAN
  <2>1. alive \in BOOLEAN /\ exited \in BOOLEAN
    BY DEF IInv, TypeOK
  <2>2. \/ alive' = alive /\ exited' = exited
        \/ alive' = FALSE /\ exited' = exited
        \/ alive' = alive /\ exited' = TRUE /\ ~alive
    BY DEF Draw, Cover, Die, Reaped
  <2>3. alive' \in BOOLEAN /\ exited' \in BOOLEAN
    <3>1. alive' \in BOOLEAN
      BY <2>1, <2>2
    <3>2. exited' \in BOOLEAN
      BY <2>1, <2>2
    <3>3. QED
      BY <3>1, <3>2
  <2>4. alive' => alive
    BY <2>1, <2>2
  <2>5. exited' => exited \/ ~alive
    BY <2>1, <2>2
  <2>6. QED
    BY <2>3, <2>4, <2>5
<1>9. screen' \in {"boot", "composer", "modal"} /\ modals' \in 0 .. MaxModal
  BY WritesAssumption DEF IInv, TypeOK, Draw, Cover, Die, Reaped
<1>2. TypeOK'
  BY <1>1, <1>3, <1>9 DEF IInv, TypeOK, wire, queue, user, mail
<1>4. InLine' /\ Bodies'
  BY <1>1 DEF IInv, InLine, Bodies, InHand, Below, Ascends, Has, wire, queue, user, mail
<1>5. NoneLost'
  BY <1>1, <1>3 DEF IInv, NoneLost, InHand, Has, Holds, wire, queue, user, mail
<1>6. Control'
  BY <1>1, <1>3 DEF IInv, Control, InHand, wire, queue, user, mail
<1>7. Acks'
  BY <1>1 DEF IInv, Acks, AckedMeansWritten, Has, wire, queue, user, mail
<1>8. QED
  BY <1>2, <1>4, <1>5, <1>6, <1>7 DEF IInv

LEMMA WriteStep == ASSUME IInv, Write PROVE IInv'
<1>1. /\ chan \in Seq(WriteReq) /\ chan # <<>> /\ tty \in Seq(WriteReq)
      /\ tty' = Append(tty, Head(chan)) /\ chan' = Tail(chan)
      /\ UNCHANGED <<agent, open, queue, user, mail>>
      /\ Ascends(tty) /\ Ascends(chan) /\ made["reply"] \in Nat
      /\ \A j \in DOMAIN chan : chan[j].kind = "reply" => Below(tty, chan[j].n)
  BY DEF IInv, TypeOK, Write, InLine
<1>2. /\ chan' \in Seq(WriteReq) /\ Len(chan) \in Nat \ {0} /\ Len(chan') = Len(chan) - 1
      /\ DOMAIN chan = 1 .. Len(chan) /\ DOMAIN chan' = 1 .. Len(chan) - 1
      /\ \A i \in 1 .. Len(chan) - 1 : chan'[i] = chan[i + 1] /\ i + 1 \in 1 .. Len(chan)
      /\ Head(chan) = chan[1] /\ Head(chan) \in WriteReq /\ 1 \in DOMAIN chan
  BY <1>1, Rest
<1>3. /\ tty' \in Seq(WriteReq) /\ Len(tty) \in Nat /\ Len(tty') = Len(tty) + 1
      /\ DOMAIN tty = 1 .. Len(tty) /\ DOMAIN tty' = 1 .. Len(tty) + 1
      /\ \A i \in 1 .. Len(tty) : tty'[i] = tty[i]
      /\ tty'[Len(tty) + 1] = Head(chan)
  BY <1>1, <1>2, Behind
<1>4. /\ \A x : Has(tty, x) => Has(tty', x)
      /\ Has(tty', Head(chan))
  BY <1>3 DEF Has
<1>5. \A x : Has(chan, x) => Has(tty', x) \/ Has(chan', x)
  <2>1. ASSUME NEW x, Has(chan, x), x # Head(chan)
        PROVE  Has(chan', x)
    <3>1. PICK i \in 1 .. Len(chan) : chan[i] = x
      BY <1>2, <2>1 DEF Has
    <3>2. i - 1 \in 1 .. Len(chan) - 1 /\ chan'[i - 1] = x
      BY <1>2, <2>1, <3>1
    <3>3. QED
      BY <1>2, <3>2 DEF Has
  <2>2. QED
    BY <1>4, <2>1
<1>6. TypeOK'
  <2>1. Len(chan') <= Capacity
    BY <1>2, WritesAssumption DEF IInv, TypeOK
  <2>2. fired' \subseteq WriteReq
    <3>1. fired' = fired \/ fired' = fired \cup {Head(chan)}
      BY DEF Write
    <3>2. QED
      BY <1>2, <3>1 DEF IInv, TypeOK
  <2>3. QED
    BY <1>1, <1>2, <1>3, <2>1, <2>2 DEF IInv, TypeOK, agent, queue, user, mail
<1>7. /\ Ascends(tty')
      /\ \A n \in Nat : Below(tty, n) /\ (Head(chan).kind = "reply" => Head(chan).n < n) => Below(tty', n)
  BY <1>1, <1>2, OrderBehind
<1>8. /\ Ascends(chan')
      /\ \A n \in Nat : Below(chan, n) => Below(chan', n)
      /\ Head(chan).kind = "reply" =>
           \A i \in DOMAIN chan' : chan'[i].kind = "reply" => Head(chan).n < chan'[i].n
  BY <1>1, OrderRest
<1>9. \A n \in Nat : Below(tty, n) /\ Below(chan, n) => Below(tty', n) /\ Below(chan', n)
  <2>1. \A n \in Nat : Below(chan, n) /\ Head(chan).kind = "reply" => Head(chan).n < n
    BY <1>2 DEF Below
  <2>2. QED
    BY <1>7, <1>8, <2>1
<1>10. InLine'
  <2>1. ASSUME NEW j \in DOMAIN chan', chan'[j].kind = "reply"
        PROVE  Below(tty', chan'[j].n)
    <3>1. j + 1 \in DOMAIN chan /\ chan'[j] = chan[j + 1]
      BY <1>2
    <3>2. Below(tty, chan'[j].n) /\ chan'[j].n \in Nat
      <4>1. chan'[j] \in WriteReq
        BY <1>2
      <4>2. Below(tty, chan[j + 1].n)
        BY <1>1, <2>1, <3>1
      <4>3. QED
        BY <3>1, <4>1, <4>2 DEF WriteReq
    <3>3. Head(chan).kind = "reply" => Head(chan).n < chan'[j].n
      BY <1>8, <2>1
    <3>4. QED
      BY <1>7, <3>2, <3>3
  <2>2. ASSUME NEW i \in DOMAIN held
        PROVE  Below(tty', held[i]) /\ Below(chan', held[i])
    <3>1. held[i] \in Nat
      BY WritesAssumption DEF IInv, TypeOK
    <3>2. QED
      BY <1>9, <3>1 DEF IInv, InLine
  <2>3. /\ Below(tty', made["reply"] + 1) /\ Below(chan', made["reply"] + 1)
        /\ InHand => Below(tty', made["reply"]) /\ Below(chan', made["reply"])
    BY <1>1, <1>9 DEF IInv, InLine
  <2>4. held' = held /\ made' = made /\ (InHand' <=> InHand)
    BY <1>1 DEF queue, user, InHand
  <2>5. QED
    BY <1>7, <1>8, <2>1, <2>2, <2>3, <2>4 DEF IInv, InLine
<1>11. NoneLost'
  <2>1. held' = held /\ made' = made /\ alive' = alive /\ (InHand' <=> InHand)
    BY <1>1 DEF queue, user, agent, InHand
  <2>2. QED
    BY <1>4, <1>5, <2>1 DEF IInv, NoneLost, Holds
<1>12. Control'
  BY <1>1 DEF IInv, Control, InHand, agent, queue, user, mail
<1>13. Bodies'
  <2>1. ASSUME NEW k \in Nat, NEW j \in DOMAIN tty', tty'[j] = Enter(k)
        PROVE  \E i \in 1 .. j - 1 : tty'[i] = Body(k)
    <3>1. CASE j \in 1 .. Len(tty)
      BY <1>3, <2>1, <3>1 DEF IInv, Bodies
    <3>2. CASE j = Len(tty) + 1
      <4>1. Has(tty, Body(k))
        BY <1>2, <1>3, <2>1, <3>2 DEF IInv, Bodies
      <4>2. QED
        BY <1>3, <3>2, <4>1 DEF Has
    <3>3. QED
      BY <1>3, <3>1, <3>2
  <2>2. ASSUME NEW k \in Nat, NEW j \in DOMAIN chan', chan'[j] = Enter(k)
        PROVE  Has(tty', Body(k)) \/ \E i \in 1 .. j - 1 : chan'[i] = Body(k)
    <3>1. j \in Nat /\ j + 1 \in DOMAIN chan /\ chan[j + 1] = Enter(k)
      BY <1>2, <2>2
    <3>2. CASE Has(tty, Body(k))
      BY <1>4, <3>2
    <3>3. CASE ~Has(tty, Body(k))
      <4>1. PICK i \in 1 .. j : chan[i] = Body(k)
        <5>1. \E i \in 1 .. (j + 1) - 1 : chan[i] = Body(k)
          BY <3>1, <3>3 DEF IInv, Bodies
        <5>2. QED
          BY <3>1, <5>1
      <4>2. CASE i = 1
        BY <1>2, <1>4, <4>1, <4>2
      <4>3. CASE i # 1
        <5>1. i - 1 \in 1 .. j - 1 /\ i - 1 \in 1 .. Len(chan) - 1
          BY <1>2, <2>2, <4>1, <4>3
        <5>2. chan'[i - 1] = Body(k)
          BY <1>2, <4>1, <5>1
        <5>3. QED
          BY <5>1, <5>2
      <4>4. QED
        BY <4>2, <4>3
    <3>4. QED
      BY <3>2, <3>3
  <2>3. inject' = "enter" /\ open' =>
          Has(tty', Body(made["inject"]')) \/ Has(chan', Body(made["inject"]'))
    <3>1. inject' = inject /\ open' = open /\ made' = made
      BY <1>1 DEF mail, user
    <3>2. QED
      BY <1>4, <1>5, <3>1 DEF IInv, Bodies
  <2>4. QED
    BY <2>1, <2>2, <2>3 DEF Bodies
<1>14. Acks'
  <2>1. \A r \in fired' : Has(tty', r)
    BY <1>4 DEF IInv, Acks, Write
  <2>2. outcome' = outcome /\ confirmed' = confirmed
    BY <1>1 DEF mail, user
  <2>3. AckedMeansWritten'
    <3>1. \A k \in 1 .. MaxInject : outcome[k] = "written" =>
            \E i, j \in DOMAIN tty' : i < j /\ tty'[i] = Body(k) /\ tty'[j] = Enter(k)
      BY <1>3 DEF IInv, Acks, AckedMeansWritten
    <3>2. \A k \in confirmed : \E i \in DOMAIN tty' : tty'[i] = Insert(k)
      BY <1>3 DEF IInv, Acks, AckedMeansWritten
    <3>3. QED
      BY <2>2, <3>1, <3>2 DEF AckedMeansWritten
  <2>4. QED
    BY <2>1, <2>3 DEF Acks
<1>15. QED
  BY <1>6, <1>10, <1>11, <1>12, <1>13, <1>14 DEF IInv

LEMMA WriteFailsStep == ASSUME IInv, WriteFails PROVE IInv'
<1>1. /\ open' = FALSE /\ chan' = <<>> /\ ~alive
      /\ UNCHANGED <<agent, tty, fired, queue, user, mail>>
  BY DEF WriteFails
<1>2. chan' \in Seq(WriteReq) /\ Len(chan') = 0 /\ DOMAIN chan' = {}
  BY <1>1
<1>8. Len(chan') <= Capacity
  BY <1>2, WritesAssumption
<1>3. TypeOK'
  BY <1>1, <1>2, <1>8 DEF IInv, TypeOK, agent, queue, user, mail
<1>4. InLine' /\ Bodies'
  BY <1>1, <1>2 DEF IInv, InLine, Bodies, InHand, Below, Ascends, Has, queue, user, mail
<1>5. NoneLost' /\ Control'
  BY <1>1 DEF IInv, NoneLost, Control, InHand, agent, queue, user, mail
<1>6. Acks'
  BY <1>1 DEF IInv, Acks, AckedMeansWritten, Has, user, mail
<1>7. QED
  BY <1>3, <1>4, <1>5, <1>6 DEF IInv

\* A number below which the replies of a sequence are, and one above it.
LEMMA BelowMore ==
  ASSUME NEW s \in Seq(WriteReq), NEW n \in Nat, Below(s, n)
  PROVE  Below(s, n + 1)
<1>1. \A i \in DOMAIN s : s[i] \in WriteReq
  OBVIOUS
<1>2. QED
  BY <1>1 DEF Below, WriteReq

LEMMA BeginSteps ==
  ASSUME IInv, BeginReply \/ BeginDirect \/ BeginInsert \/ BeginInject
  PROVE  IInv'
<1>1. /\ UNCHANGED <<agent, wire, queue, confirmed, outcome>>
      /\ made \in [{"reply", "direct", "insert", "inject"} -> Nat]
  BY DEF IInv, TypeOK, BeginReply, BeginDirect, BeginInsert, BeginInject, Handle, mail
<1>2. \/ /\ ui = "idle" /\ ui' = "reply" /\ made["reply"] < MaxReply /\ inject' = inject
         /\ made' = [made EXCEPT !["reply"] = @ + 1]
      \/ /\ ui = "idle" /\ ui' = "direct" /\ made["direct"] < MaxDirect /\ inject' = inject
         /\ made' = [made EXCEPT !["direct"] = @ + 1]
      \/ /\ ui = "idle" /\ ui' = "insert" /\ made["insert"] < MaxInsert /\ inject' = inject
         /\ made' = [made EXCEPT !["insert"] = @ + 1]
      \/ /\ ui' = ui /\ inject = "idle" /\ inject' = "settle" /\ made["inject"] < MaxInject
         /\ made' = [made EXCEPT !["inject"] = @ + 1]
  BY DEF BeginReply, BeginDirect, BeginInsert, BeginInject, Handle, Begun, mail
<1>3. /\ made' \in [{"reply", "direct", "insert", "inject"} -> Nat]
      /\ made'["reply"] \in {made["reply"], made["reply"] + 1}
      /\ made'["reply"] = made["reply"] => ui' \in {"direct", "insert"} \/ ui' = ui
  <2>1. made["reply"] \in Nat
    BY <1>1
  <2>2. made' \in [{"reply", "direct", "insert", "inject"} -> Nat]
    BY <1>1, <1>2
  <2>3. made'["reply"] \in {made["reply"], made["reply"] + 1}
    BY <1>1, <1>2
  <2>4. made'["reply"] = made["reply"] => ui' \in {"direct", "insert"} \/ ui' = ui
    BY <1>1, <1>2, <2>1
  <2>5. QED
    BY <2>2, <2>3, <2>4
<1>4. TypeOK'
  <2>1. /\ made'["reply"] <= MaxReply /\ made'["direct"] <= MaxDirect
        /\ made'["insert"] <= MaxInsert /\ made'["inject"] <= MaxInject
    BY <1>1, <1>2, WritesAssumption DEF IInv, TypeOK
  <2>2. /\ ui' \in {"idle", "reply", "send", "direct", "insert", "ack"}
        /\ inject' \in {"idle", "settle", "body", "enter", "ack"}
    BY <1>2 DEF IInv, TypeOK
  <2>3. QED
    BY <1>1, <1>3, <2>1, <2>2 DEF IInv, TypeOK, agent, wire, queue
<1>5. InLine'
  <2>1. chan' = chan /\ tty' = tty /\ held' = held
    BY <1>1 DEF wire, queue
  <2>2. made["reply"] \in Nat /\ tty \in Seq(WriteReq) /\ chan \in Seq(WriteReq)
        /\ \A i \in DOMAIN held : held[i] \in Nat
    BY WritesAssumption DEF IInv, TypeOK
  <2>3. CASE made'["reply"] = made["reply"]
    <3>1. InHand' => InHand
      BY <1>3, <2>3 DEF InHand
    <3>2. QED
      BY <2>1, <2>3, <3>1 DEF IInv, InLine, Below, Ascends
  <2>4. CASE made'["reply"] = made["reply"] + 1
    <3>1. /\ Below(tty, made["reply"] + 1) /\ Below(chan, made["reply"] + 1)
          /\ Below(tty, (made["reply"] + 1) + 1) /\ Below(chan, (made["reply"] + 1) + 1)
      BY <2>2, BelowMore DEF IInv, InLine
    <3>2. \A i \in DOMAIN held : held[i] < made["reply"] + 1 /\ held[i] <= made["reply"] + 1
      BY <2>2 DEF IInv, InLine
    <3>3. QED
      BY <2>1, <2>4, <3>1, <3>2 DEF IInv, InLine
  <2>5. QED
    BY <1>3, <2>3, <2>4
<1>6. NoneLost'
  <2>1. chan' = chan /\ tty' = tty /\ held' = held /\ alive' = alive
    BY <1>1 DEF wire, queue, agent
  <2>2. CASE made'["reply"] = made["reply"]
    <3>1. InHand => InHand'
      BY <1>2, <2>2 DEF InHand
    <3>2. QED
      BY <2>1, <2>2, <3>1 DEF IInv, NoneLost, Holds, Has
  <2>3. CASE made'["reply"] = made["reply"] + 1
    <3>1. InHand' /\ ~InHand
      BY <1>1, <1>2, <2>3 DEF InHand
    <3>2. \A m \in 1 .. made["reply"] + 1 : m = made["reply"] + 1 \/ m \in 1 .. made["reply"]
      BY <1>1
    <3>3. QED
      BY <2>1, <2>3, <3>1, <3>2 DEF IInv, NoneLost, Holds, Has
  <2>4. QED
    BY <1>3, <2>2, <2>3
<1>7. Control'
  <2>1. /\ InHand' => made'["reply"] \in 1 .. MaxReply
        /\ ui' \in {"insert", "ack"} => made'["insert"] \in 1 .. MaxInsert
        /\ inject' # "idle" => made'["inject"] \in 1 .. MaxInject
    BY <1>1, <1>2, WritesAssumption DEF IInv, Control, InHand
  <2>2. (ui' = "send" <=> ui = "send")
    BY <1>2
  <2>3. QED
    BY <1>1, <2>1, <2>2 DEF IInv, Control, agent, wire, queue
<1>8. Bodies'
  <2>1. inject' = "enter" => inject = "enter" /\ made'["inject"] = made["inject"]
    BY <1>1, <1>2
  <2>2. QED
    BY <1>1, <2>1 DEF IInv, Bodies, Has, wire
<1>9. Acks'
  BY <1>1 DEF IInv, Acks, AckedMeansWritten, Has, wire
<1>10. QED
  BY <1>4, <1>5, <1>6, <1>7, <1>8, <1>9 DEF IInv

\* Steps of a handler, the drainer or an injection that send nothing and touch
\* neither what is held nor what was made.
LEMMA QuietSteps ==
  ASSUME IInv,
         \/ InsertConfirmed \/ InsertGivenUp \/ Settle \/ GiveUp \/ Drain \/ DrainEnds
         \/ InjectSettle \/ NeverSettled \/ SendRefused \/ InjectConfirmed \/ InjectGivenUp
  PROVE  IInv'
<1>1. UNCHANGED <<agent, wire, held, made>>
  BY DEF InsertConfirmed, InsertGivenUp, Settle, GiveUp, Drain, DrainEnds, InjectSettle,
     NeverSettled, SendRefused, InjectConfirmed, InjectGivenUp, Answer, queue, user
<1>2. /\ InHand' <=> InHand
      /\ ui' = "send" <=> ui = "send"
      /\ ui' \in {"insert", "ack"} => ui \in {"insert", "ack"}
      /\ inject' # "idle" => inject # "idle"
      /\ inject' = "enter" => inject = "enter"
  BY DEF InHand, InsertConfirmed, InsertGivenUp, Settle, GiveUp, Drain, DrainEnds, InjectSettle,
     NeverSettled, SendRefused, InjectConfirmed, InjectGivenUp, Answer, queue, user, mail
<1>3. InLine' /\ NoneLost' /\ Bodies'
  <2>1. InLine'
    BY <1>1, <1>2 DEF IInv, InLine, Below, Ascends, wire
  <2>2. NoneLost'
    BY <1>1, <1>2 DEF IInv, NoneLost, Has, Holds, wire, agent
  <2>3. Bodies'
    BY <1>1, <1>2 DEF IInv, Bodies, Has, wire
  <2>4. QED
    BY <2>1, <2>2, <2>3
<1>4. /\ ui' \in {"idle", "reply", "send", "direct", "insert", "ack"}
      /\ inject' \in {"idle", "settle", "body", "enter", "ack"}
      /\ lock' \in {"free", "ui", "drainer"}
      /\ drainer' \in {"none", "wait", "ready", "drain", "giveup"}
  BY DEF IInv, TypeOK, InsertConfirmed, InsertGivenUp, Settle, GiveUp, Drain, DrainEnds,
     InjectSettle, NeverSettled, SendRefused, InjectConfirmed, InjectGivenUp, Answer, queue,
     user, mail
<1>5. \/ confirmed' = confirmed
      \/ ui = "ack" /\ confirmed' = confirmed \cup {made["insert"]} /\ Insert(made["insert"]) \in fired
  BY DEF InsertConfirmed, InsertGivenUp, Settle, GiveUp, Drain, DrainEnds, InjectSettle, Confirms,
     NeverSettled, SendRefused, InjectConfirmed, InjectGivenUp, Answer, queue, user, mail
<1>6. \/ outcome' = outcome
      \/ /\ inject # "idle"
         /\ \/ outcome' = [outcome EXCEPT ![made["inject"]] = "failed"]
            \/ /\ outcome' = [outcome EXCEPT ![made["inject"]] = "written"]
               /\ Enter(made["inject"]) \in fired
  BY DEF InsertConfirmed, InsertGivenUp, Settle, GiveUp, Drain, DrainEnds, InjectSettle, Confirms,
     NeverSettled, SendRefused, InjectConfirmed, InjectGivenUp, Answer, queue, user, mail
<1>7. TypeOK'
  <2>1. confirmed' \subseteq 1 .. MaxInsert
    BY <1>5 DEF IInv, TypeOK, Control
  <2>2. outcome' \in [1 .. MaxInject -> {"none", "written", "failed"}]
    BY <1>6 DEF IInv, TypeOK
  <2>3. QED
    BY <1>1, <1>4, <2>1, <2>2 DEF IInv, TypeOK, agent, wire
<1>8. Control'
  <2>1. \/ lock' = lock /\ drainer' = drainer
        \/ lock' = lock /\ drainer = "wait" /\ drainer' = "ready"
        \/ lock' = lock /\ drainer = "wait" /\ drainer' = "giveup" /\ (exited \/ ~open)
        \/ drainer = "ready" /\ lock = "free" /\ drainer' = "drain" /\ lock' = "drainer"
        \/ drainer = "drain" /\ drainer' = "none" /\ lock' = "free"
    BY DEF InsertConfirmed, InsertGivenUp, Settle, GiveUp, GivesUp, Drain, DrainEnds, InjectSettle,
       NeverSettled, SendRefused, InjectConfirmed, InjectGivenUp, Answer, queue, user, mail
  <2>2. /\ ui' = "send" => lock' = "ui"
        /\ lock' = "ui" => ui' = "send"
        /\ drainer' = "drain" <=> lock' = "drainer"
    BY <1>2, <2>1 DEF IInv, Control
  <2>3. alive' => open' /\ ~exited' /\ drainer' # "giveup"
    <3>1. alive' = alive /\ open' = open /\ exited' = exited
      BY <1>1 DEF agent, wire
    <3>2. alive => open /\ ~exited /\ drainer # "giveup"
      BY DEF IInv, Control
    <3>3. QED
      BY <2>1, <3>1, <3>2
  <2>4. QED
    BY <1>1, <1>2, <2>2, <2>3 DEF IInv, Control
<1>9. Acks'
  <2>1. tty' = tty /\ fired' = fired /\ \A r \in fired : Has(tty, r)
    BY <1>1 DEF wire, IInv, Acks
  <2>2. \A k \in confirmed' : \E i \in DOMAIN tty : tty[i] = Insert(k)
    BY <1>5, <2>1 DEF IInv, Acks, AckedMeansWritten, Has
  <2>3. ASSUME NEW k \in 1 .. MaxInject, outcome'[k] = "written"
        PROVE  \E i, j \in DOMAIN tty : i < j /\ tty[i] = Body(k) /\ tty[j] = Enter(k)
    <3>1. outcome[k] = "written" \/ Enter(k) \in fired
      BY <1>6, <2>3 DEF IInv, TypeOK
    <3>2. CASE outcome[k] = "written"
      BY <3>2 DEF IInv, Acks, AckedMeansWritten
    <3>3. CASE Enter(k) \in fired
      <4>1. PICK j \in DOMAIN tty : tty[j] = Enter(k)
        BY <2>1, <3>3 DEF Has
      <4>2. PICK i \in 1 .. j - 1 : tty[i] = Body(k)
        BY <4>1, WritesAssumption DEF IInv, Bodies
      <4>3. DOMAIN tty = 1 .. Len(tty) /\ Len(tty) \in Nat
        BY DEF IInv, TypeOK
      <4>4. i \in DOMAIN tty /\ i < j
        BY <4>3
      <4>5. QED
        BY <4>1, <4>2, <4>4
    <3>4. QED
      BY <3>1, <3>2, <3>3
  <2>4. QED
    BY <2>1, <2>2, <2>3 DEF Acks, AckedMeansWritten, Has
<1>10. QED
  BY <1>3, <1>7, <1>8, <1>9 DEF IInv

LEMMA HoldStep == ASSUME IInv, write_when_booted PROVE IInv'
<1>1. /\ ui = "reply" /\ lock = "free" /\ UNCHANGED <<agent, wire, made, confirmed, mail>>
      /\ \/ ui' = "send" /\ lock' = "ui" /\ held = <<>> /\ UNCHANGED <<held, drainer>>
         \/ /\ ui' = "idle" /\ held' = Append(held, made["reply"]) /\ lock' = lock
            /\ drainer' \in {"wait", drainer}
  BY DEF write_when_booted, GoesNow
<1>2. /\ held \in Seq(1 .. MaxReply) /\ Len(held) \in Nat /\ DOMAIN held = 1 .. Len(held)
      /\ InHand /\ made["reply"] \in 1 .. MaxReply /\ MaxReply \in Nat
      /\ lock # "drainer" /\ drainer # "drain"
  BY <1>1, WritesAssumption DEF IInv, TypeOK, Control, InHand
<1>3. Bodies' /\ Acks'
  BY <1>1 DEF IInv, Bodies, Acks, AckedMeansWritten, Has, wire, mail
<1>4. CASE ui' = "send" /\ lock' = "ui" /\ held = <<>> /\ UNCHANGED <<held, drainer>>
  <2>1. TypeOK'
    BY <1>1, <1>4 DEF IInv, TypeOK, agent, wire, mail
  <2>2. InLine' /\ NoneLost'
    BY <1>1, <1>4 DEF IInv, InLine, NoneLost, InHand, Below, Ascends, Has, Holds, agent, wire
  <2>3. Control'
    BY <1>1, <1>2, <1>4 DEF IInv, Control, InHand, agent, wire, mail
  <2>4. QED
    BY <1>3, <2>1, <2>2, <2>3 DEF IInv
<1>5. CASE /\ ui' = "idle" /\ held' = Append(held, made["reply"]) /\ lock' = lock
           /\ drainer' \in {"wait", drainer}
  <2>1. /\ held' \in Seq(1 .. MaxReply) /\ DOMAIN held' = 1 .. Len(held) + 1
        /\ \A i \in 1 .. Len(held) : held'[i] = held[i] /\ held[i] \in Nat
        /\ held'[Len(held) + 1] = made["reply"]
    BY <1>2, <1>5
  <2>2. TypeOK'
    BY <1>1, <1>5, <2>1 DEF IInv, TypeOK, agent, wire, mail
  <2>3. InLine'
    <3>1. /\ Below(tty, made["reply"]) /\ Below(chan, made["reply"])
          /\ \A i \in DOMAIN held : held[i] < made["reply"]
      BY <1>2 DEF IInv, InLine
    <3>2. ~InHand' /\ chan' = chan /\ tty' = tty /\ made' = made
      BY <1>1, <1>5 DEF InHand, wire
    <3>3. \A i, j \in DOMAIN held' : i < j => held'[i] < held'[j]
      <4>1. ASSUME NEW i \in DOMAIN held', NEW j \in DOMAIN held', i < j
            PROVE  held'[i] < held'[j]
        <5>1. i \in 1 .. Len(held) /\ (j \in 1 .. Len(held) \/ j = Len(held) + 1)
          BY <1>2, <2>1, <4>1
        <5>2. QED
          BY <1>2, <2>1, <3>1, <4>1, <5>1 DEF IInv, InLine
      <4>2. QED
        BY <4>1
    <3>4. ASSUME NEW i \in DOMAIN held'
          PROVE  Below(tty, held'[i]) /\ Below(chan, held'[i]) /\ held'[i] <= made["reply"]
      BY <1>2, <2>1, <3>1 DEF IInv, InLine
    <3>5. QED
      BY <3>2, <3>3, <3>4 DEF IInv, InLine
  <2>4. NoneLost'
    <3>1. \A m : Holds(m) => \E i \in DOMAIN held' : held'[i] = m
      BY <1>2, <2>1 DEF Holds
    <3>2. \E i \in DOMAIN held' : held'[i] = made["reply"]
      BY <1>2, <2>1
    <3>3. chan' = chan /\ tty' = tty /\ made' = made /\ alive' = alive
      BY <1>1 DEF wire, agent
    <3>4. QED
      BY <3>1, <3>2, <3>3 DEF IInv, NoneLost, Holds
  <2>5. Control'
    BY <1>1, <1>2, <1>5 DEF IInv, Control, InHand, agent, wire, mail
  <2>6. QED
    BY <1>3, <2>2, <2>3, <2>4, <2>5 DEF IInv
<1>6. QED
  BY <1>1, <1>4, <1>5

LEMMA ClearStep == ASSUME IInv, Clear PROVE IInv'
<1>1. /\ drainer = "giveup" /\ lock = "free" /\ held' = <<>> /\ drainer' = "none"
      /\ UNCHANGED <<agent, wire, lock, user, mail>>
  BY DEF Clear
<1>2. ~alive /\ held' \in Seq(1 .. MaxReply) /\ DOMAIN held' = {}
  BY <1>1 DEF IInv, Control
<1>3. TypeOK'
  BY <1>1, <1>2 DEF IInv, TypeOK, agent, wire, user, mail
<1>4. InLine'
  BY <1>1, <1>2 DEF IInv, InLine, InHand, Below, Ascends, wire, user
<1>5. NoneLost' /\ Control'
  BY <1>1, <1>2 DEF IInv, NoneLost, Control, InHand, agent, wire, user, mail
<1>6. Bodies' /\ Acks'
  BY <1>1 DEF IInv, Bodies, Acks, AckedMeansWritten, Has, wire, user, mail
<1>7. QED
  BY <1>3, <1>4, <1>5, <1>6 DEF IInv

\* What the steps that send have in common.
Sends(r) ==
  /\ r \in WriteReq /\ CanSend /\ Sent(r)
  /\ UNCHANGED <<agent, open, tty, fired, made, confirmed, outcome>>

LEMMA SendSteps ==
  ASSUME IInv, SendDirect \/ SendInsert \/ SendBody \/ SendEnter
  PROVE  IInv'
<1>1. PICK r \in WriteReq :
        /\ Sends(r) /\ UNCHANGED queue
        /\ \/ r = Direct(made["direct"]) /\ ui = "direct" /\ ui' = "idle" /\ inject' = inject
           \/ r = Insert(made["insert"]) /\ ui = "insert" /\ ui' \in {"ack", "idle"} /\ inject' = inject
           \/ r = Body(made["inject"]) /\ ui' = ui /\ inject = "body" /\ inject' = "enter"
           \/ r = Enter(made["inject"]) /\ ui' = ui /\ inject = "enter" /\ inject' = "ack"
  <2>1. /\ made["direct"] \in Nat /\ made["insert"] \in Nat /\ made["inject"] \in Nat
    BY DEF IInv, TypeOK
  <2>2. CASE SendDirect
    BY <2>1, <2>2, Kinds DEF SendDirect, Sends, mail
  <2>3. CASE SendInsert
    BY <2>1, <2>3, Kinds DEF SendInsert, Sends, mail
  <2>4. CASE SendBody
    BY <2>1, <2>4, Kinds DEF SendBody, Sends, CanSend, user
  <2>5. CASE SendEnter
    BY <2>1, <2>5, Kinds DEF SendEnter, Sends, CanSend, user
  <2>6. QED
    BY <2>2, <2>3, <2>4, <2>5
<1>2. r.kind # "reply" /\ made["inject"] \in Nat
  BY <1>1 DEF Direct, Insert, Body, Enter, IInv, TypeOK
<1>3. ASSUME NEW k \in Nat, r = Enter(k)
      PROVE  ~open \/ Has(tty, Body(k)) \/ Has(chan, Body(k))
  <2>1. inject = "enter" /\ r = Enter(made["inject"])
    BY <1>1, <1>3 DEF Direct, Insert, Body, Enter
  <2>2. k = made["inject"]
    BY <1>2, <1>3, <2>1 DEF Enter
  <2>3. QED
    BY <2>1, <2>2 DEF IInv, Bodies
<1>4. /\ chan' \in Seq(WriteReq) /\ Len(chan') <= Capacity
      /\ Ascends(chan')
      /\ \A j \in DOMAIN chan' : chan'[j].kind = "reply" => Below(tty, chan'[j].n)
      /\ Below(chan', made["reply"] + 1)
      /\ \A n \in Nat : Below(chan, n) => Below(chan', n)
      /\ \A x : Has(chan, x) => Has(chan', x)
      /\ open => Has(chan', r)
      /\ \A k \in Nat, j \in DOMAIN chan' : chan'[j] = Enter(k) =>
           Has(tty, Body(k)) \/ \E i \in 1 .. j - 1 : chan'[i] = Body(k)
  BY <1>1, <1>2, <1>3, Enqueue DEF Sends
<1>5. UNCHANGED <<agent, open, tty, fired, made, confirmed, outcome, held, lock, drainer>>
  BY <1>1 DEF Sends, queue
<1>6. /\ ui' \in {"idle", "reply", "send", "direct", "insert", "ack"}
      /\ inject' \in {"idle", "settle", "body", "enter", "ack"}
      /\ InHand' <=> InHand
      /\ ui' = "send" <=> ui = "send"
      /\ ui' \in {"insert", "ack"} => ui \in {"insert", "ack"}
      /\ inject' # "idle" => inject # "idle"
  BY <1>1 DEF InHand, IInv, TypeOK
<1>7. TypeOK'
  BY <1>4, <1>5, <1>6 DEF IInv, TypeOK, agent
<1>8. InLine'
  <2>1. \A i \in DOMAIN held : Below(chan', held[i])
    BY <1>4, WritesAssumption DEF IInv, InLine, TypeOK
  <2>2. InHand => Below(chan', made["reply"])
    BY <1>4 DEF IInv, InLine, TypeOK
  <2>3. QED
    BY <1>4, <1>5, <1>6, <2>1, <2>2 DEF IInv, InLine
<1>9. NoneLost'
  BY <1>4, <1>5, <1>6 DEF IInv, NoneLost, Holds, agent
<1>10. Control'
  BY <1>5, <1>6 DEF IInv, Control, agent
<1>11. Bodies'
  <2>1. ASSUME inject' = "enter", open
        PROVE  Has(chan', Body(made["inject"])) \/ inject = "enter"
    <3>1. inject = "enter" \/ r = Body(made["inject"])
      BY <1>1, <2>1
    <3>2. Has(chan', r)
      BY <1>4, <2>1
    <3>3. QED
      BY <3>1, <3>2
  <2>2. QED
    BY <1>4, <1>5, <2>1 DEF IInv, Bodies
<1>12. Acks'
  BY <1>5 DEF IInv, Acks, AckedMeansWritten, Has
<1>13. QED
  BY <1>7, <1>8, <1>9, <1>10, <1>11, <1>12 DEF IInv

LEMMA SendReplyStep == ASSUME IInv, SendReply PROVE IInv'
<1>1. /\ ui = "send" /\ CanSend /\ Sent(Reply(made["reply"])) /\ ui' = "idle" /\ lock' = "free"
      /\ UNCHANGED <<agent, open, tty, fired, held, drainer, made, confirmed, mail>>
  BY DEF SendReply
<1>2. /\ made["reply"] \in Nat /\ made["reply"] <= made["reply"]
      /\ Below(tty, made["reply"]) /\ Below(chan, made["reply"])
      /\ held = <<>> /\ lock = "ui" /\ drainer # "drain" /\ InHand /\ ~InHand'
  BY <1>1 DEF IInv, TypeOK, InLine, Control, InHand
<1>3. /\ chan' \in Seq(WriteReq) /\ Len(chan') <= Capacity
      /\ Ascends(chan')
      /\ \A j \in DOMAIN chan' : chan'[j].kind = "reply" => Below(tty, chan'[j].n)
      /\ Below(chan', made["reply"] + 1)
      /\ \A n \in Nat : Below(chan, n) /\ made["reply"] < n => Below(chan', n)
      /\ \A x : Has(chan, x) => Has(chan', x)
      /\ open => Has(chan', Reply(made["reply"]))
      /\ \A k \in Nat, j \in DOMAIN chan' : chan'[j] = Enter(k) =>
           Has(tty, Body(k)) \/ \E i \in 1 .. j - 1 : chan'[i] = Body(k)
  <2>1. /\ Reply(made["reply"]) \in WriteReq /\ Reply(made["reply"]).kind = "reply" /\ Reply(made["reply"]).n = made["reply"]
        /\ \A k \in Nat : Reply(made["reply"]) # Enter(k)
    BY <1>2, Kinds
  <2>2. QED
    BY <1>1, <1>2, <2>1, Enqueue
<1>4. TypeOK'
  BY <1>1, <1>3 DEF IInv, TypeOK, agent, mail
<1>5. InLine'
  BY <1>1, <1>2, <1>3 DEF IInv, InLine
<1>6. NoneLost'
  <2>1. alive => open
    BY DEF IInv, Control
  <2>2. alive' = alive /\ tty' = tty /\ held' = held /\ made' = made
    BY <1>1 DEF agent
  <2>3. QED
    BY <1>2, <1>3, <2>1, <2>2 DEF IInv, NoneLost, Holds
<1>7. Control'
  BY <1>1, <1>2 DEF IInv, Control, InHand, agent, mail
<1>8. Bodies'
  <2>1. inject' = inject /\ open' = open /\ tty' = tty /\ made' = made
    BY <1>1 DEF mail
  <2>2. QED
    BY <1>3, <2>1 DEF IInv, Bodies
<1>9. Acks'
  BY <1>1 DEF IInv, Acks, AckedMeansWritten, Has, mail
<1>10. QED
  BY <1>4, <1>5, <1>6, <1>7, <1>8, <1>9 DEF IInv

LEMMA DrainStep == ASSUME IInv, DrainOne PROVE IInv'
<1>1. /\ drainer = "drain" /\ held # <<>> /\ CanSend /\ Sent(Reply(Head(held))) /\ held' = Tail(held)
      /\ UNCHANGED <<agent, open, tty, fired, lock, drainer, user, mail>>
  BY DEF DrainOne
<1>2. /\ Head(held) \in Nat /\ Head(held) <= made["reply"]
      /\ Below(tty, Head(held)) /\ Below(chan, Head(held))
      /\ held' \in Seq(1 .. MaxReply) /\ DOMAIN held' = 1 .. Len(held) - 1
      /\ Len(held) \in Nat /\ DOMAIN held = 1 .. Len(held)
      /\ \A i \in 1 .. Len(held) - 1 : held'[i] = held[i + 1] /\ i + 1 \in 1 .. Len(held)
      /\ \A i \in 1 .. Len(held) : held[i] \in Nat
      /\ Head(held) = held[1] /\ 1 \in DOMAIN held
  <2>1. held \in Seq(1 .. MaxReply) /\ MaxReply \in Nat
    BY WritesAssumption DEF IInv, TypeOK
  <2>2. /\ held' \in Seq(1 .. MaxReply) /\ DOMAIN held' = 1 .. Len(held) - 1
        /\ Len(held) \in Nat /\ DOMAIN held = 1 .. Len(held)
        /\ \A i \in 1 .. Len(held) - 1 : held'[i] = held[i + 1] /\ i + 1 \in 1 .. Len(held)
        /\ \A i \in 1 .. Len(held) : held[i] \in 1 .. MaxReply
        /\ Head(held) = held[1] /\ 1 \in DOMAIN held
    BY <1>1, <2>1, Rest
  <2>3. \A i \in 1 .. Len(held) : held[i] \in Nat
    BY <2>1, <2>2
  <2>4. Head(held) \in Nat /\ Head(held) <= made["reply"]
    BY <2>2, <2>3 DEF IInv, InLine
  <2>5. Below(tty, Head(held)) /\ Below(chan, Head(held))
    BY <2>2 DEF IInv, InLine
  <2>6. QED
    BY <2>2, <2>3, <2>4, <2>5
<1>3. /\ chan' \in Seq(WriteReq) /\ Len(chan') <= Capacity
      /\ Ascends(chan')
      /\ \A j \in DOMAIN chan' : chan'[j].kind = "reply" => Below(tty, chan'[j].n)
      /\ Below(chan', made["reply"] + 1)
      /\ \A n \in Nat : Below(chan, n) /\ Head(held) < n => Below(chan', n)
      /\ \A x : Has(chan, x) => Has(chan', x)
      /\ open => Has(chan', Reply(Head(held)))
      /\ \A k \in Nat, j \in DOMAIN chan' : chan'[j] = Enter(k) =>
           Has(tty, Body(k)) \/ \E i \in 1 .. j - 1 : chan'[i] = Body(k)
  <2>1. /\ Reply(Head(held)) \in WriteReq /\ Reply(Head(held)).kind = "reply" /\ Reply(Head(held)).n = Head(held)
        /\ \A k \in Nat : Reply(Head(held)) # Enter(k)
    BY <1>2, Kinds
  <2>2. QED
    BY <1>1, <1>2, <2>1, Enqueue
<1>4. lock = "drainer" /\ ui # "send"
  BY <1>1 DEF IInv, Control
<1>5. TypeOK'
  BY <1>1, <1>2, <1>3 DEF IInv, TypeOK, agent, user, mail
<1>6. InLine'
  <2>1. ASSUME NEW i \in DOMAIN held'
        PROVE  /\ Head(held) < held'[i] /\ held'[i] \in Nat /\ held'[i] <= made["reply"]
               /\ Below(tty, held'[i]) /\ Below(chan, held'[i])
               /\ InHand => held'[i] < made["reply"]
    <3>1. /\ i + 1 \in DOMAIN held /\ held'[i] = held[i + 1] /\ 1 < i + 1
          /\ Head(held) = held[1] /\ 1 \in DOMAIN held
      BY <1>2
    <3>2. QED
      BY <1>2, <3>1 DEF IInv, InLine
  <2>2. \A i, j \in DOMAIN held' : i < j => held'[i] < held'[j]
    <3>1. ASSUME NEW i \in DOMAIN held', NEW j \in DOMAIN held', i < j
          PROVE  held'[i] < held'[j]
      <4>1. /\ i + 1 \in DOMAIN held /\ held'[i] = held[i + 1]
            /\ j + 1 \in DOMAIN held /\ held'[j] = held[j + 1] /\ i + 1 < j + 1
        BY <1>2, <3>1
      <4>2. QED
        BY <4>1 DEF IInv, InLine
    <3>2. QED
      BY <3>1
  <2>3. \A i \in DOMAIN held' : Below(chan', held'[i])
    BY <1>3, <2>1
  <2>4. InHand => Below(chan', made["reply"])
    <3>1. made["reply"] \in Nat
      BY DEF IInv, TypeOK
    <3>2. InHand => Below(chan, made["reply"]) /\ Head(held) < made["reply"]
      BY <1>2 DEF IInv, InLine
    <3>3. QED
      BY <1>3, <3>1, <3>2
  <2>5. tty' = tty /\ made' = made /\ (InHand' <=> InHand)
    BY <1>1 DEF user, InHand
  <2>6. QED
    BY <1>3, <2>1, <2>2, <2>3, <2>4, <2>5 DEF IInv, InLine
<1>7. NoneLost'
  <2>1. alive => open
    BY DEF IInv, Control
  <2>2. alive' = alive /\ tty' = tty /\ made' = made /\ (InHand' <=> InHand)
    BY <1>1 DEF agent, user, InHand
  <2>3. \A m : Holds(m) => m = Head(held) \/ \E i \in DOMAIN held' : held'[i] = m
    <3>1. ASSUME NEW m, Holds(m), m # Head(held)
          PROVE  \E i \in DOMAIN held' : held'[i] = m
      <4>1. PICK i \in DOMAIN held : held[i] = m
        BY <3>1 DEF Holds
      <4>2. i - 1 \in DOMAIN held' /\ held'[i - 1] = m
        BY <1>2, <3>1, <4>1
      <4>3. QED
        BY <4>2
    <3>2. QED
      BY <3>1
  <2>4. QED
    BY <1>3, <2>1, <2>2, <2>3 DEF IInv, NoneLost, Holds
<1>8. Control'
  BY <1>1, <1>4 DEF IInv, Control, InHand, agent, user, mail
<1>9. Bodies'
  <2>1. inject' = inject /\ open' = open /\ tty' = tty /\ made' = made
    BY <1>1 DEF mail, user
  <2>2. QED
    BY <1>3, <2>1 DEF IInv, Bodies
<1>10. Acks'
  BY <1>1 DEF IInv, Acks, AckedMeansWritten, Has, user, mail
<1>11. QED
  BY <1>5, <1>6, <1>7, <1>8, <1>9, <1>10 DEF IInv

-----------------------------------------------------------------------------
LEMMA Initially == Init => IInv
<1>1. SUFFICES ASSUME Init PROVE IInv
  OBVIOUS
<1>2. /\ tty = <<>> /\ chan = <<>> /\ held = <<>> /\ DOMAIN tty = {} /\ DOMAIN chan = {}
      /\ DOMAIN held = {} /\ ui = "idle" /\ inject = "idle" /\ fired = {} /\ confirmed = {}
      /\ made["reply"] = 0 /\ \A k \in 1 .. MaxInject : outcome[k] = "none"
  BY <1>1 DEF Init
<1>3. TypeOK
  <2>1. alive \in BOOLEAN /\ exited \in BOOLEAN /\ open \in BOOLEAN
    BY <1>1 DEF Init
  <2>2. /\ made \in [{"reply", "direct", "insert", "inject"} -> Nat]
        /\ made["reply"] <= MaxReply /\ made["direct"] <= MaxDirect
        /\ made["insert"] <= MaxInsert /\ made["inject"] <= MaxInject
        /\ modals \in 0 .. MaxModal /\ Len(chan) <= Capacity
    BY <1>1, WritesAssumption DEF Init
  <2>3. /\ chan \in Seq(WriteReq) /\ tty \in Seq(WriteReq) /\ held \in Seq(1 .. MaxReply)
        /\ fired \subseteq WriteReq /\ confirmed \subseteq 1 .. MaxInsert
        /\ outcome \in [1 .. MaxInject -> {"none", "written", "failed"}]
    BY <1>1 DEF Init
  <2>4. QED
    BY <1>1, <2>1, <2>2, <2>3 DEF Init, TypeOK
<1>4. InLine /\ NoneLost /\ Control
  BY <1>1, <1>2 DEF Init, InLine, NoneLost, Control, InHand, Below, Ascends
<1>5. Bodies /\ Acks
  BY <1>2 DEF Bodies, Acks, AckedMeansWritten
<1>6. QED
  BY <1>3, <1>4, <1>5 DEF IInv

LEMMA Step == IInv /\ [Next]_vars => IInv'
<1>1. SUFFICES ASSUME IInv, [Next]_vars PROVE IInv'
  OBVIOUS
<1>2. CASE UNCHANGED vars
  <2>1. UNCHANGED <<agent, wire, queue, user, mail>>
    BY <1>2 DEF vars
  <2>2. TypeOK'
    BY <1>1, <2>1 DEF IInv, TypeOK, agent, wire, queue, user, mail
  <2>3. InLine' /\ NoneLost' /\ Control'
    BY <1>1, <2>1 DEF IInv, InLine, NoneLost, Control, InHand, Below, Ascends, Has, Holds,
       agent, wire, queue, user, mail
  <2>4. Bodies' /\ Acks'
    BY <1>1, <2>1 DEF IInv, Bodies, Acks, AckedMeansWritten, Has, wire, user, mail
  <2>5. QED
    BY <2>2, <2>3, <2>4 DEF IInv
<1>3. CASE Next
  <2>1. CASE Draw \/ Cover \/ Die \/ Reaped
    BY <1>1, <2>1, AgentSteps
  <2>2. CASE Write \/ WriteFails
    BY <1>1, <2>2, WriteStep, WriteFailsStep
  <2>3. CASE BeginReply \/ BeginDirect \/ BeginInsert \/ BeginInject
    BY <1>1, <2>3, BeginSteps
  <2>4. CASE HandlerStep
    BY <1>1, <2>4, HoldStep, SendReplyStep, SendSteps, QuietSteps DEF HandlerStep
  <2>5. CASE DrainerStep
    BY <1>1, <2>5, ClearStep, DrainStep, QuietSteps DEF DrainerStep
  <2>6. CASE InjectStep
    BY <1>1, <2>6, SendSteps, QuietSteps DEF InjectStep
  <2>7. QED
    BY <1>3, <2>1, <2>2, <2>3, <2>4, <2>5, <2>6 DEF Next
<1>4. QED
  BY <1>1, <1>2, <1>3

LEMMA Invariant == Spec => []IInv
BY Initially, Step, PTL DEF Spec

\* Every variable has its type: the channel never holds more than its capacity,
\* whoever sends at once.
THEOREM WritesTypeCorrect == Spec => []TypeOK
<1>1. IInv => TypeOK
  BY DEF IInv
<1>2. QED
  BY Invariant, <1>1, PTL

\* Held or not, replies reach the terminal in the order they were made, none
\* twice, and none is left out while the agent lives.
THEOREM RepliesArriveInOrder == Spec => []RepliesInOrder
<1>1. IInv => RepliesInOrder
  <2>1. SUFFICES ASSUME IInv, NEW j \in DOMAIN tty, tty[j].kind = "reply"
                 PROVE  /\ \A i \in 1 .. j - 1 : tty[i].kind = "reply" => tty[i].n < tty[j].n
                        /\ alive => \A m \in 1 .. tty[j].n - 1 :
                                      \E i \in 1 .. j - 1 : tty[i] = Reply(m)
    BY DEF RepliesInOrder
  <2>2. /\ tty \in Seq(WriteReq) /\ Len(tty) \in Nat /\ DOMAIN tty = 1 .. Len(tty)
        /\ tty[j] \in WriteReq /\ made["reply"] \in Nat
        /\ \A i \in DOMAIN held : held[i] \in Nat
    BY <2>1, WritesAssumption DEF IInv, TypeOK
  <2>3. tty[j].n \in Nat /\ tty[j].n <= made["reply"]
    BY <2>1, <2>2 DEF WriteReq, IInv, InLine, Below
  <2>4. \A i \in 1 .. j - 1 : tty[i].kind = "reply" => tty[i].n < tty[j].n
    BY <2>1, <2>2 DEF IInv, InLine, Ascends
  <2>5. ASSUME alive, NEW m \in 1 .. tty[j].n - 1
        PROVE  \E i \in 1 .. j - 1 : tty[i] = Reply(m)
    <3>1. m \in 1 .. made["reply"] /\ m # made["reply"] /\ m < tty[j].n /\ m \in Nat
      BY <2>2, <2>3
    <3>2. Reply(m).kind = "reply" /\ Reply(m).n = m
      BY <3>1, Kinds
    <3>3. ~Has(chan, Reply(m))
      <4>1. SUFFICES ASSUME NEW i \in DOMAIN chan, chan[i] = Reply(m) PROVE FALSE
        BY DEF Has
      <4>2. Below(tty, m)
        BY <2>1, <3>2, <4>1 DEF IInv, InLine
      <4>3. QED
        BY <2>1, <2>3, <3>1, <4>2 DEF Below
    <3>4. ~Holds(m)
      <4>1. SUFFICES ASSUME NEW i \in DOMAIN held, held[i] = m PROVE FALSE
        BY DEF Holds
      <4>2. Below(tty, m)
        BY <2>1, <4>1 DEF IInv, InLine
      <4>3. QED
        BY <2>1, <2>3, <3>1, <4>2 DEF Below
    <3>5. PICK i \in DOMAIN tty : tty[i] = Reply(m)
      BY <2>1, <2>5, <3>1, <3>3, <3>4 DEF IInv, NoneLost, Has
    <3>6. i < j
      <4>1. CASE j < i
        BY <2>1, <2>2, <2>3, <3>1, <3>2, <3>5, <4>1 DEF IInv, InLine, Ascends
      <4>2. CASE i = j
        BY <2>3, <3>1, <3>2, <3>5, <4>2
      <4>3. QED
        BY <2>2, <4>1, <4>2
    <3>7. QED
      BY <2>2, <3>5, <3>6
  <2>6. QED
    BY <2>4, <2>5
<1>2. QED
  BY Invariant, <1>1, PTL

\* What send_text_when_settled and insert_text report as written was written,
\* the body before its Enter.
THEOREM ReportsAreTrue == Spec => []AckedMeansWritten
<1>1. IInv => AckedMeansWritten
  BY DEF IInv, Acks
<1>2. QED
  BY Invariant, <1>1, PTL
=============================================================================
