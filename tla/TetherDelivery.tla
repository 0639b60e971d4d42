--------------------------- MODULE TetherDelivery ---------------------------
(***************************************************************************)
(* The Tether delivery bridge of one durable actor: the watch and sweep    *)
(* goroutines of tetherbridge.Loop, the tether_deliveries ledger, the      *)
(* mailbox injector and the claim/receipt cycle with the Tether daemon.    *)
(*                                                                         *)
(* Every call to the daemon, to the database and to the chat service is a  *)
(* step of its own, may fail, and the process may crash between any two.   *)
(* A call to the daemon that fails may have been carried out: the answer   *)
(* was lost.  MaxFaults bounds failures, crashes and foreign turns.        *)
(***************************************************************************)
EXTENDS Naturals, Sequences, FiniteSets

CONSTANTS
    Msgs,         \* the messages Tether may hold for the actor
    Rejected,     \* those whose sender AllowSender refuses
    Reactive,     \* sessions whose wake policy is auto_summarize: the reactor wakes them
    MaxAttempts,  \* LoopConfig.MaxAttempts
    GiveUpAfter,  \* failed attempts at which softFail closes a row (4 * MaxAttempts)
    MayCrash,     \* the process may die and restart
    MaxFaults     \* bound on what goes wrong

ASSUME BridgeAssumption ==
    /\ IsFiniteSet(Msgs)
    /\ Rejected \subseteq Msgs
    /\ Reactive \subseteq Nat
    /\ MaxAttempts \in Nat \ {0}
    /\ GiveUpAfter \in Nat \ {0}
    /\ MayCrash \in BOOLEAN
    /\ MaxFaults \in Nat

Threads == {"watch", "sweep"}
NoMsg == "none"
\* A session is lost only to a fault, so the waker never needs more.
Sessions == 1..(MaxFaults + 1)
Unbound == 0

VARIABLES
    sent,     \* Tether: the actor's messages in stream order
    unread,   \* Tether: those not marked read
    receipt,  \* Tether: the last receipt of a delivery
    ledger,   \* tether_deliveries
    cursor,   \* tether_watch_cursors.after_seq
    stream,   \* the watch goroutine: connection, position, listed mail to handle
    h,        \* Loop.Handle in the watch and in the sweep goroutine
    bound,    \* actor_instances.current_session_id
    started,  \* sessions the waker created
    ended,    \* archived sessions
    busy,     \* sessions with a turn in flight
    inbox,    \* agent_messages: rows per message and session
    react,    \* wake reactions the mailbox has started
    woken,    \* history: turns started for a message
    faults

tether == <<sent, unread, receipt>>
host == <<bound, started, ended, busy, inbox, react, woken>>
vars == <<sent, unread, receipt, ledger, cursor, stream, h, bound, started,
          ended, busy, inbox, react, woken, faults>>

States == {"absent", "received", "accepted", "submitted", "consumed", "failed"}
Row == [state : States, local : BOOLEAN, attempts : Nat, due : BOOLEAN]
NoRow == [state |-> "absent", local |-> FALSE, attempts |-> 0, due |-> TRUE]
NewRow == [NoRow EXCEPT !.state = "received"]

Steps == {"idle", "cursor", "resolve", "start", "claim", "accept", "accepted", "inject",
          "write", "wake", "submitted", "submit", "consume", "consumed", "soft", "retry",
          "undeliverable", "reject", "close"}
Handler == [at : Steps, msg : Msgs \cup {NoMsg}, row : Row,
            sess : Sessions \cup {Unbound}, event : BOOLEAN]
Idle == [at |-> "idle", msg |-> NoMsg, row |-> NoRow, sess |-> Unbound, event |-> FALSE]

TypeOK ==
    /\ sent \in Seq(Msgs)
    /\ unread \subseteq Msgs
    /\ receipt \in [Msgs -> {"none", "accepted", "submitted", "consumed", "dead"}]
    /\ ledger \in [Msgs -> Row]
    /\ cursor \in 0..Len(sent)
    /\ stream \in [on : {"off", "listed", "follow"}, pos : 0..Len(sent),
                   todo : SUBSET Msgs]
    /\ h \in [Threads -> Handler]
    /\ bound \in Sessions \cup {Unbound}
    /\ started \in Nat
    /\ ended \subseteq Sessions
    /\ busy \subseteq Sessions
    /\ inbox \in [Msgs -> [Sessions -> Nat]]
    /\ react \subseteq Msgs \X Sessions
    /\ woken \in [Msgs -> Nat]
    /\ faults \in 0..MaxFaults

Init ==
    /\ sent = <<>>
    /\ unread = {}
    /\ receipt = [m \in Msgs |-> "none"]
    /\ ledger = [m \in Msgs |-> NoRow]
    /\ cursor = 0
    /\ stream = [on |-> "off", pos |-> 0, todo |-> {}]
    /\ h = [t \in Threads |-> Idle]
    /\ bound = Unbound
    /\ started = 0
    /\ ended = {}
    /\ busy = {}
    /\ inbox = [m \in Msgs |-> [s \in Sessions |-> 0]]
    /\ react = {}
    /\ woken = [m \in Msgs |-> 0]
    /\ faults = 0

Fault == faults < MaxFaults /\ faults' = faults + 1
NoFault == UNCHANGED faults

-----------------------------------------------------------------------------
(* The ledger. *)

Terminal(row) == row.state \in {"consumed", "failed"}
Open(row) == row.state # "absent" /\ ~Terminal(row)

Rank(state) ==
    CASE state = "received" -> 0
      [] state = "accepted" -> 1
      [] state = "submitted" -> 2
      [] OTHER -> 3

\* AdvanceTetherDelivery: never out of a terminal state, never backward, and due
\* again at once.
Advanced(row, state, local) ==
    IF Open(row) /\ Rank(row.state) <= Rank(state)
    THEN [row EXCEPT !.state = state, !.local = @ \/ local, !.due = TRUE]
    ELSE row

\* DeferTetherDelivery.
Deferred(row, bump) ==
    IF Open(row) THEN [row EXCEPT !.due = FALSE, !.attempts = @ + bump] ELSE row

Advance(m, state, local) == ledger' = [ledger EXCEPT ![m] = Advanced(@, state, local)]
Defer(m, bump) == ledger' = [ledger EXCEPT ![m] = Deferred(@, bump)]

-----------------------------------------------------------------------------
(* Handle: control. *)

Msg(t) == h[t].msg
At(t, p) == h[t].at = p

\* The steps before which drive still reads the session, and the row.  A step
\* forgets the locals that are not read again.
Routed == {"claim", "accept", "accepted", "inject", "write", "wake"}
Goto(t, p) ==
    h' = [h EXCEPT ![t].at = p,
                   ![t].sess = IF p \in Routed THEN @ ELSE Unbound,
                   ![t].row = IF p \in Routed \cup {"retry"} THEN @ ELSE NoRow]

\* Handle returns; the watch then stores the cursor of a stream event.
Returned(event) == IF event THEN [Idle EXCEPT !.at = "cursor"] ELSE Idle
Return(t) == h' = [h EXCEPT ![t] = Returned(@.event)]

\* Two handlers of one message: begin does not look at inflight.
BeginsAlways(t, m) == t \in Threads

\* begin: no other goroutine is handling m.
Begins(t, m) == \A u \in Threads \ {t} : Msg(u) # m

\* The row that RecordTetherDelivery returns.
Recorded(m) == IF ledger[m].state = "absent" THEN NewRow ELSE ledger[m]

\* Where Handle goes with the row it read: a finished or deferred row is left.
Opened(m, event) ==
    LET row == Recorded(m) IN
    IF Terminal(row) \/ ~row.due THEN Returned(event)
    ELSE [Idle EXCEPT !.at = "resolve", !.msg = m, !.row = row, !.event = event]

\* Handle up to and including the ledger write.  A message in the hands of the
\* other goroutine is skipped, a finished one is marked read (best effort), and
\* after a failed write the cursor stays.
Handle(t, m, event) ==
    \/ /\ ~Begins(t, m)
       /\ h' = [h EXCEPT ![t] = Returned(event)]
       /\ NoFault
       /\ UNCHANGED <<ledger, unread>>
    \/ /\ Begins(t, m)
       /\ ledger' = [ledger EXCEPT ![m] = Recorded(m)]
       /\ h' = [h EXCEPT ![t] = Opened(m, event)]
       /\ \/ NoFault /\ unread' = IF Terminal(ledger[m]) THEN unread \ {m} ELSE unread
          \/ Terminal(ledger[m]) /\ Fault /\ UNCHANGED unread
    \/ /\ Begins(t, m)
       /\ Fault
       /\ UNCHANGED <<ledger, unread, h>>

-----------------------------------------------------------------------------
(* The watch goroutine: list catch-up, then the stream. *)

\* catchUp lists the unread mail; a failed list is skipped.
List ==
    /\ At("watch", "idle")
    /\ stream.todo = {}
    /\ stream.on # "listed"
    /\ \/ NoFault /\ stream' = [stream EXCEPT !.todo = unread, !.on = IF @ = "off" THEN "listed" ELSE @]
       \/ Fault /\ stream' = [stream EXCEPT !.on = IF @ = "off" THEN "listed" ELSE @]
    /\ UNCHANGED <<tether, ledger, cursor, h, host>>

\* catchUp hands one listed envelope to Handle.
Take(m) ==
    /\ At("watch", "idle")
    /\ m \in stream.todo
    /\ stream' = [stream EXCEPT !.todo = @ \ {m}]
    /\ Handle("watch", m, FALSE)
    /\ UNCHANGED <<sent, receipt, cursor, host>>

\* watch opens the stream at the stored cursor, or from now when there is none.
Connect ==
    /\ At("watch", "idle")
    /\ stream.on = "listed"
    /\ stream.todo = {}
    /\ \/ /\ NoFault
          /\ stream' = [stream EXCEPT !.on = "follow",
                                      !.pos = IF cursor = 0 THEN Len(sent) ELSE cursor]
       \/ /\ Fault
          /\ stream' = [stream EXCEPT !.on = "off"]
    /\ UNCHANGED <<tether, ledger, cursor, h, host>>

\* follow takes the next message event.
Event ==
    /\ At("watch", "idle")
    /\ stream.on = "follow"
    /\ stream.todo = {}
    /\ stream.pos < Len(sent)
    /\ stream' = [stream EXCEPT !.pos = @ + 1]
    /\ Handle("watch", sent[stream.pos + 1], TRUE)
    /\ UNCHANGED <<sent, receipt, cursor, host>>

\* follow stores the position after the event; a failed write is ignored.
StoreCursor ==
    /\ At("watch", "cursor")
    /\ \/ NoFault /\ cursor' = IF stream.pos > cursor THEN stream.pos ELSE cursor
       \/ Fault /\ UNCHANGED cursor
    /\ Goto("watch", "idle")
    /\ UNCHANGED <<tether, ledger, stream, host>>

\* The stream ends, by itself or with a gap event that resets the cursor.
StreamEnds ==
    /\ At("watch", "idle")
    /\ stream.on = "follow"
    /\ stream.todo = {}
    /\ Fault
    /\ stream' = [stream EXCEPT !.on = "off", !.pos = 0]
    /\ cursor' \in {cursor, 0}
    /\ UNCHANGED <<tether, ledger, h, host>>

\* Sweep resumes an open row that is due.
Resume(m) ==
    /\ At("sweep", "idle")
    /\ Open(ledger[m]) /\ ledger[m].due
    /\ Handle("sweep", m, FALSE)
    /\ UNCHANGED <<sent, receipt, cursor, stream, host>>

-----------------------------------------------------------------------------
(* Handle: the route. *)

\* postpone, whose own failure is only logged, and the return of Handle.
Postpone(t, bump) ==
    /\ \/ NoFault /\ Defer(Msg(t), bump)
       \/ Fault /\ UNCHANGED ledger
    /\ Return(t)

\* ResolveActorRoute; an error postpones the row without counting.
Resolve(t) ==
    /\ At(t, "resolve")
    /\ \/ /\ NoFault
          /\ h' = [h EXCEPT ![t].at = IF bound = Unbound THEN "start" ELSE "claim",
                            ![t].sess = bound]
          /\ UNCHANGED ledger
       \/ /\ Fault
          /\ Defer(Msg(t), 0) \/ UNCHANGED ledger
          /\ Return(t)
    /\ UNCHANGED <<tether, cursor, stream, host>>

\* tetherWaker.Wake: the actor's session, or a new one attached to it; a failed
\* wake postpones the row and counts.
StartSession(t) ==
    /\ At(t, "start")
    /\ \/ /\ NoFault
          /\ started' = IF bound = Unbound THEN started + 1 ELSE started
          /\ bound' = IF bound = Unbound THEN started + 1 ELSE bound
          /\ h' = [h EXCEPT ![t].at = "claim", ![t].sess = bound']
          /\ UNCHANGED ledger
       \/ /\ Fault
          /\ Defer(Msg(t), 1) \/ UNCHANGED ledger
          /\ Return(t)
          /\ UNCHANGED <<bound, started>>
    /\ UNCHANGED <<tether, cursor, stream, ended, busy, inbox, react, woken>>

-----------------------------------------------------------------------------
(* drive: claim, accept, inject, receipts. *)

\* ClaimMessage: a delivery that is over cannot be leased; another lease on it,
\* or a lost answer, is a fault.
Over(m) == receipt[m] \in {"consumed", "dead"}

\* The sender policy is not consulted.
ClaimUnvetted(t) ==
    /\ At(t, "claim")
    /\ NoFault
    /\ Goto(t, IF Over(Msg(t)) THEN "soft" ELSE "accept")
    /\ UNCHANGED <<tether, ledger, cursor, stream, host>>

Claim(t) ==
    LET m == Msg(t) IN
    /\ At(t, "claim")
    /\ \/ ~Over(m) /\ NoFault /\ Goto(t, IF m \in Rejected THEN "reject" ELSE "accept")
       \/ Over(m) /\ NoFault /\ Goto(t, "soft")
       \/ ~Over(m) /\ Fault /\ Goto(t, "soft")
    /\ UNCHANGED <<tether, ledger, cursor, stream, host>>

\* ackStage.  A lease that ran out and a lost request leave no receipt, a lost
\* answer leaves one.
Ack(t, from, stage, next) ==
    LET acked == [receipt EXCEPT ![Msg(t)] = stage] IN
    /\ At(t, from)
    /\ \/ NoFault /\ receipt' = acked /\ Goto(t, next)
       \/ Fault /\ receipt' \in {acked, receipt} /\ Goto(t, "soft")
    /\ UNCHANGED <<sent, unread, ledger, cursor, stream, host>>

Accept(t) == Ack(t, "accept", "accepted", "accepted")
Submit(t) == Ack(t, "submit", "submitted", "consume")
Consume(t) == Ack(t, "consume", "consumed", "consumed")

\* The accepted receipt is recorded for a row that was only received; a row
\* whose message is in the mailbox goes on to its receipts.
RecordAccepted(t) ==
    LET m == Msg(t)
        next == IF h[t].row.local THEN "submit" ELSE "inject"
    IN
    /\ At(t, "accepted")
    /\ \/ h[t].row.state # "received" /\ NoFault /\ UNCHANGED ledger /\ Goto(t, next)
       \/ h[t].row.state = "received" /\ NoFault /\ Advance(m, "accepted", FALSE) /\ Goto(t, next)
       \/ h[t].row.state = "received" /\ Fault /\ UNCHANGED ledger /\ Goto(t, "soft")
    /\ UNCHANGED <<tether, cursor, stream, host>>

\* busy: a retryable nack, then the row is deferred without being counted.
Busy(t) == Postpone(t, 0)

\* The busy check, then the injector's look for a row it wrote before.
Inject(t) ==
    LET s == h[t].sess IN
    /\ At(t, "inject")
    /\ \/ s \in busy /\ Busy(t)
       \/ s \notin busy /\ NoFault /\ UNCHANGED ledger
          /\ Goto(t, IF inbox[Msg(t)][s] > 0 THEN "wake" ELSE "write")
       \/ s \notin busy /\ Fault /\ UNCHANGED ledger /\ Goto(t, "retry")
    /\ UNCHANGED <<tether, cursor, stream, host>>

\* SendMessage writes the mailbox row and starts the wake reactor.
SendMessage(m, s) ==
    /\ inbox' = [inbox EXCEPT ![m][s] = @ + 1]
    /\ react' = IF s \in Reactive THEN react \cup {<<m, s>>} ELSE react

Write(t) ==
    /\ At(t, "write")
    /\ \/ NoFault /\ SendMessage(Msg(t), h[t].sess) /\ Goto(t, "wake")
       \/ Fault /\ Goto(t, "retry") /\ UNCHANGED <<inbox, react>>
    /\ UNCHANGED <<tether, ledger, cursor, stream, bound, started, ended, busy, woken>>

\* TriggerMessageWake on a session that lives and is idle.
Turn(m, s) ==
    /\ busy' = busy \cup {s}
    /\ woken' = [woken EXCEPT ![m] = @ + 1]

\* A failed wake is swallowed and the delivery goes on to its receipts.
WakeSwallowed(t) ==
    /\ At(t, "wake")
    /\ NoFault
    /\ Goto(t, "submitted")
    /\ UNCHANGED <<tether, ledger, cursor, stream, host>>

\* tetherInjector.wake.
Wake(t) ==
    LET m == Msg(t)  s == h[t].sess IN
    /\ At(t, "wake")
    /\ \/ /\ s \in Reactive /\ NoFault
          /\ Goto(t, "submitted")
          /\ UNCHANGED <<ledger, bound, busy, woken>>
       \/ /\ s \notin Reactive /\ NoFault /\ s \in ended
          /\ bound' = IF bound = s THEN Unbound ELSE bound
          /\ Goto(t, "retry")
          /\ UNCHANGED <<ledger, busy, woken>>
       \/ /\ s \notin Reactive /\ s \in busy \ ended
          /\ Busy(t)
          /\ UNCHANGED <<bound, busy, woken>>
       \/ /\ s \notin Reactive /\ NoFault /\ s \notin busy \cup ended
          /\ Turn(m, s)
          /\ Goto(t, "submitted")
          /\ UNCHANGED <<ledger, bound>>
       \/ /\ s \notin Reactive /\ Fault
          /\ \E p \in {"retry", "undeliverable"} : Goto(t, p)
          /\ UNCHANGED <<ledger, bound, busy, woken>>
    /\ UNCHANGED <<tether, cursor, stream, started, ended, inbox, react>>

\* The local message id is recorded.
RecordSubmitted(t) ==
    /\ At(t, "submitted")
    /\ \/ NoFault /\ Advance(Msg(t), "submitted", TRUE) /\ Goto(t, "submit")
       \/ Fault /\ UNCHANGED ledger /\ Goto(t, "soft")
    /\ UNCHANGED <<tether, cursor, stream, host>>

\* The message is marked read although the row may not be closed.
CloseRowReads(t) ==
    /\ At(t, "consumed") \/ At(t, "close")
    /\ \/ NoFault /\ Advance(Msg(t), IF At(t, "consumed") THEN "consumed" ELSE "failed", FALSE)
       \/ Fault /\ UNCHANGED ledger
    /\ unread' = unread \ {Msg(t)}
    /\ Return(t)
    /\ UNCHANGED <<sent, receipt, cursor, stream, host>>

\* The ledger row is closed: consumed, or failed after a dead letter, and the
\* message marked read, best effort.  A failed write leaves it open and due.
CloseRow(t) ==
    /\ At(t, "consumed") \/ At(t, "close")
    /\ \/ /\ Advance(Msg(t), IF At(t, "consumed") THEN "consumed" ELSE "failed", FALSE)
          /\ \/ NoFault /\ unread' = unread \ {Msg(t)}
             \/ Fault /\ UNCHANGED unread
       \/ Fault /\ UNCHANGED <<ledger, unread>>
    /\ Return(t)
    /\ UNCHANGED <<sent, receipt, cursor, stream, host>>

-----------------------------------------------------------------------------
(* drive: failures. *)

\* A failed receipt is not counted as an attempt.
SoftFailUncounted(t) ==
    /\ At(t, "soft")
    /\ Postpone(t, 0)
    /\ UNCHANGED <<tether, cursor, stream, host>>

\* softFail counts the attempt and closes the row when there were too many.
SoftFail(t) ==
    LET m == Msg(t)
        deferred == Deferred(ledger[m], 1)
        over == Open(deferred) /\ deferred.attempts >= GiveUpAfter
    IN
    /\ At(t, "soft")
    /\ \/ /\ NoFault
          /\ ledger' = [ledger EXCEPT ![m] = IF over THEN Advanced(deferred, "failed", FALSE)
                                                     ELSE deferred]
       \/ Fault /\ over /\ ledger' = [ledger EXCEPT ![m] = deferred]
       \/ Fault /\ UNCHANGED ledger
    /\ Return(t)
    /\ UNCHANGED <<tether, cursor, stream, host>>

\* injectFailed with attempts left: a retryable nack, deferred and counted.
Retries(t) == At(t, "retry") /\ h[t].row.attempts + 1 < MaxAttempts

InjectRetry(t) ==
    /\ Retries(t)
    /\ Postpone(t, 1)
    /\ UNCHANGED <<tether, cursor, stream, host>>

\* Without attempts left, for an undeliverable message and for a refused sender:
\* the non-retryable nack dead-letters the delivery and the row is closed,
\* whether the nack succeeds or not.
DeadLetter(t) ==
    /\ \/ At(t, "retry") /\ ~Retries(t)
       \/ At(t, "undeliverable")
       \/ At(t, "reject")
    /\ \/ NoFault /\ receipt' = [receipt EXCEPT ![Msg(t)] = "dead"]
       \/ Fault /\ UNCHANGED receipt
    /\ Goto(t, "close")
    /\ UNCHANGED <<sent, unread, ledger, cursor, stream, host>>

-----------------------------------------------------------------------------
(* The environment. *)

Send(m) ==
    /\ m \notin unread
    /\ \A i \in DOMAIN sent : sent[i] # m
    /\ sent' = Append(sent, m)
    /\ unread' = unread \cup {m}
    /\ UNCHANGED <<receipt, ledger, cursor, stream, h, host, faults>>

\* The time a row was deferred to has come.
Due(m) ==
    /\ ~ledger[m].due
    /\ ledger' = [ledger EXCEPT ![m].due = TRUE]
    /\ UNCHANGED <<tether, cursor, stream, h, host, faults>>

\* messagingWakeReactor.ReactToMessage: skipped when the session is busy.
React(m, s) ==
    /\ <<m, s>> \in react
    /\ react' = react \ {<<m, s>>}
    /\ IF s \in busy \cup ended THEN UNCHANGED <<busy, woken>> ELSE Turn(m, s)
    /\ UNCHANGED <<tether, ledger, cursor, stream, h, bound, started, ended, inbox, faults>>

TurnEnds(s) ==
    /\ s \in busy
    /\ busy' = busy \ {s}
    /\ UNCHANGED <<tether, ledger, cursor, stream, h, bound, started, ended, inbox,
                   react, woken, faults>>

\* Another caller's turn on the actor's session.
OtherTurn ==
    /\ bound \in Sessions \ busy
    /\ Fault
    /\ busy' = busy \cup {bound}
    /\ UNCHANGED <<tether, ledger, cursor, stream, h, bound, started, ended, inbox,
                   react, woken>>

\* The session is archived and the actor detached.
SessionEnds ==
    /\ bound # Unbound
    /\ Fault
    /\ ended' = ended \cup {bound}
    /\ busy' = busy \ {bound}
    /\ bound' = Unbound
    /\ UNCHANGED <<tether, ledger, cursor, stream, h, started, inbox, react, woken>>

\* The process dies and restarts: the stores and Tether remain.
Crash ==
    /\ MayCrash
    /\ Fault
    /\ h' = [t \in Threads |-> Idle]
    /\ stream' = [on |-> "off", pos |-> 0, todo |-> {}]
    /\ busy' = {}
    /\ react' = {}
    /\ UNCHANGED <<tether, ledger, cursor, bound, started, ended, inbox, woken>>

-----------------------------------------------------------------------------
Watch ==
    List \/ (\E m \in Msgs : Take(m)) \/ Connect \/ Event \/ StoreCursor

HandlerStep(t) ==
    \/ Resolve(t) \/ StartSession(t) \/ Claim(t) \/ Accept(t) \/ RecordAccepted(t)
    \/ Inject(t) \/ Write(t) \/ Wake(t) \/ RecordSubmitted(t) \/ Submit(t)
    \/ Consume(t) \/ CloseRow(t) \/ SoftFail(t) \/ InjectRetry(t) \/ DeadLetter(t)

Environment ==
    \/ \E m \in Msgs : Send(m) \/ Due(m)
    \/ \E m \in Msgs, s \in Sessions : React(m, s)
    \/ \E s \in Sessions : TurnEnds(s)
    \/ StreamEnds \/ OtherTurn \/ SessionEnds \/ Crash

Next ==
    \/ Watch
    \/ \E m \in Msgs : Resume(m)
    \/ \E t \in Threads : HandlerStep(t)
    \/ Environment

Spec == Init /\ [][Next]_vars

\* The goroutines run, the sweep visits every due row, deferrals run out and
\* turns end.
Fairness ==
    /\ WF_vars(Watch)
    /\ WF_vars(List)
    /\ \A t \in Threads : WF_vars(HandlerStep(t))
    /\ \A m \in Msgs : SF_vars(Resume(m)) /\ WF_vars(Due(m))
    /\ \A s \in Sessions : WF_vars(TurnEnds(s))

FairSpec == Spec /\ Fairness

-----------------------------------------------------------------------------
(* Properties. *)

Sent(m) == \E i \in DOMAIN sent : sent[i] = m

\* No mail is lost: whatever fails, a message is unread in Tether, where the next
\* catch-up lists it, until its ledger row is terminal.
NothingLost == \A m \in Msgs : Sent(m) => m \in unread \/ Terminal(ledger[m])

\* "Consumed" means that "the message reached the agent's mailbox and its wake
\* was handed to the harness": a consumed receipt or row is never ahead of the
\* mailbox row, of its wake and of the record of the local id.
ConsumedMeansDelivered ==
    \A m \in Msgs :
        receipt[m] \in {"submitted", "consumed"} \/ ledger[m].state = "consumed" =>
            /\ \E s \in Sessions : inbox[m][s] > 0
            /\ woken[m] > 0 \/ \E s \in Sessions \cap Reactive : inbox[m][s] > 0
            /\ ledger[m].local

\* Inject is idempotent: however often a delivery is retried or handled by two
\* goroutines, a session's mailbox holds at most one row for a Tether message.
OneMailboxRow == \A m \in Msgs, s \in Sessions : inbox[m][s] <= 1

\* A refused sender "is dead-lettered and never wakes the actor": no receipt tells
\* it that its message was accepted, and unless something failed the row is closed
\* only once the delivery is dead-lettered.
RejectedNeverWakes ==
    \A m \in Rejected :
        /\ woken[m] = 0 /\ \A s \in Sessions : inbox[m][s] = 0
        /\ receipt[m] \in {"none", "dead"}
        /\ Terminal(ledger[m]) /\ faults = 0 => receipt[m] = "dead"

\* A session is lost only to a fault, and the bound one is the last one started.
SessionsOK ==
    /\ started <= faults + 1
    /\ bound = Unbound => started <= faults
    /\ bound # Unbound => bound = started
    /\ bound \notin ended
    /\ \A s \in ended : s <= started

\* The message is in a mailbox, and a turn was started for it or will be.
Carried(m) ==
    /\ \E s \in Sessions : inbox[m][s] > 0
    /\ woken[m] > 0 \/ \E s \in Sessions \cap Reactive : inbox[m][s] > 0

Handling(t) == h[t].at \notin {"idle", "cursor"}

\* The steps that drive reaches only for a sender AllowSender accepts.
Vetted == {"accept", "accepted", "inject", "write", "wake", "submitted", "submit",
           "consume", "consumed", "retry", "undeliverable"}

\* The delivery of m, if it is refused, is dead-lettered unless something failed.
Buried(m) == m \in Rejected /\ faults = 0 => receipt[m] = "dead"

\* A goroutine in Handle works on a row that stays open until it closes it, and
\* what it decided before a call still holds when it acts on it.
HandlerOK(t) ==
    /\ ~Handling(t) => Msg(t) = NoMsg
    /\ Handling(t) =>
           /\ Msg(t) \in Msgs
           /\ Open(ledger[Msg(t)])
           /\ h[t].row.local => ledger[Msg(t)].local
           /\ h[t].at \in Routed => h[t].sess \in Sessions
           /\ At(t, "write") => inbox[Msg(t)][h[t].sess] = 0
           /\ At(t, "wake") => inbox[Msg(t)][h[t].sess] > 0
           /\ At(t, "submitted") => Carried(Msg(t))
           /\ h[t].at \in {"submit", "consume", "consumed"} => ledger[Msg(t)].local
           /\ h[t].at \in Vetted => Msg(t) \notin Rejected
           /\ h[t].at \in {"soft", "close"} => Buried(Msg(t))

\* Receipts, ledger, mailbox and wakes of a message agree.
MessageOK(m) ==
    /\ Sent(m) => m \in unread \/ Terminal(ledger[m])
    /\ ledger[m].local => ledger[m].state # "absent" /\ Carried(m)
    /\ receipt[m] \in {"submitted", "consumed"} \/ ledger[m].state = "consumed" => ledger[m].local
    /\ \A s \in Sessions : inbox[m][s] <= 1
    /\ m \in Rejected => woken[m] = 0 /\ \A s \in Sessions : inbox[m][s] = 0 /\ <<m, s>> \notin react
    /\ m \in Rejected => receipt[m] \in {"none", "dead"}
    /\ Terminal(ledger[m]) => Buried(m)

\* The bridge's inductive invariant: begin keeps two goroutines off one message, so
\* the ledger row, the mailbox and the receipts a goroutine relies on change under it
\* only in ways that do not matter, whatever fails or crashes.
BridgeInv ==
    /\ TypeOK
    /\ SessionsOK
    /\ \A t \in Threads : HandlerOK(t)
    /\ \A t, u \in Threads : t # u /\ Handling(t) /\ Handling(u) => Msg(t) # Msg(u)
    /\ \A m \in Msgs : MessageOK(m)

\* Every message is settled: a deferred, failed or interrupted delivery is
\* resumed until it is consumed or closed.
Settled == \A m \in Msgs : []<>(Sent(m) => Terminal(ledger[m]))

\* A message "reaches the actor's session as one turn".
OneTurn == \A m \in Msgs : woken[m] <= 1
=============================================================================
