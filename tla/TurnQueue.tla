------------------------------ MODULE TurnQueue ------------------------------
(***************************************************************************)
(* What the generation registry of a chat session promises its callers:    *)
(* turns are accepted one after the other, at most one of them is in its   *)
(* loop, and they start, or are given up, in the order of acceptance.      *)
(***************************************************************************)
EXTENDS Naturals

CONSTANT N  \* how many turns may be accepted

Turns == 1..N

VARIABLE phase  \* phase[t] for every turn t

\* The turn needs nothing any more.
Settled(t) == phase[t] \in {"over", "withdrawn"}

\* Every turn accepted before t is settled.
First(t) == \A u \in Turns : u < t => Settled(u)

Init == phase = [t \in Turns |-> "new"]

\* t is the next turn to be accepted.
Fresh(t) ==
    /\ phase[t] = "new"
    /\ \A u \in Turns : u < t => phase[u] # "new"

\* HandleMessage and the other senders: the turn queues.
Submit(t) == Fresh(t) /\ phase' = [phase EXCEPT ![t] = "queued"]

\* A wake that could not store its message leaves no turn behind.
Withdraw(t) == Fresh(t) /\ phase' = [phase EXCEPT ![t] = "withdrawn"]

Start(t) ==
    /\ phase[t] = "queued"
    /\ First(t)
    /\ phase' = [phase EXCEPT ![t] = "running"]

\* Cancelled while queued, or refused behind an unsafe boundary.
Skip(t) ==
    /\ phase[t] = "queued"
    /\ First(t)
    /\ phase' = [phase EXCEPT ![t] = "over"]

End(t) ==
    /\ phase[t] = "running"
    /\ phase' = [phase EXCEPT ![t] = "over"]

Next == \E t \in Turns : Submit(t) \/ Withdraw(t) \/ Start(t) \/ Skip(t) \/ End(t)

Spec == Init /\ [][Next]_phase
=============================================================================
