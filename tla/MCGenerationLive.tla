-------------------------- MODULE MCGenerationLive --------------------------
(* Two scenarios side by side: three API turns without a timeout, and two  *)
(* turns, one of them on the runtime, with every timeout.  `part` never    *)
(* changes, so that being fair to the step of whichever scenario is on is  *)
(* being fair to both.                                                     *)
EXTENDS GenerationQueue

VARIABLE part

Slow == INSTANCE GenerationQueue WITH
    N <- 2, CliGens <- {1}, StopOps <- {"turn"}, SlowTurns <- TRUE, SlowRuntime <- TRUE

OnQueue == part = "queue" /\ UNCHANGED part
OnSlow(g) == part = "slow" /\ g \in Slow!Gens /\ UNCHANGED part

MCInit ==
    \/ part = "queue" /\ Init
    \/ part = "slow" /\ Slow!Init

MCNext ==
    \/ OnQueue /\ Next
    \/ part = "slow" /\ Slow!Next /\ UNCHANGED part

mcVars == <<part, vars>>

MCFairness ==
    \A g \in Gens :
        /\ WF_mcVars((OnQueue /\ Goroutine(g)) \/ (OnSlow(g) /\ Slow!Goroutine(g)))
        /\ WF_mcVars((OnQueue /\ SenderMoves(g)) \/ (OnSlow(g) /\ Slow!SenderMoves(g)))
        /\ WF_mcVars((OnQueue /\ SendSettles(g)) \/ (OnSlow(g) /\ Slow!SendSettles(g)))
        /\ WF_mcVars((OnQueue /\ StoppedExits(g)) \/ (OnSlow(g) /\ Slow!StoppedExits(g)))
        /\ WF_mcVars((OnQueue /\ CancelWorker(g)) \/ (OnSlow(g) /\ Slow!CancelWorker(g)))
        /\ WF_mcVars((OnQueue /\ ObserverMoves(g)) \/ (OnSlow(g) /\ Slow!ObserverMoves(g)))
        /\ WF_mcVars((OnQueue /\ ReleaseSafe(g)) \/ (OnSlow(g) /\ Slow!ReleaseSafe(g)))
        /\ WF_mcVars((OnQueue /\ Bridge(g)) \/ (OnSlow(g) /\ Slow!Bridge(g)))

MCSpec == MCInit /\ [][MCNext]_mcVars /\ MCFairness

-----------------------------------------------------------------------------
(* The slot is released once every generation has ended, where no wait     *)
(* times out.                                                              *)
SlotFrees == []<>(part = "queue" => Freed)

(* Every generation that queued or started closes its done channel,        *)
(* however its runtime, its predecessor and the stops behave.              *)
EveryTurnEnds == \A g \in Gens : []<>(g \in DOMAIN done => ~Unfinished(g))

(* A claimed cancellation is answered: cancelIssued closes.                *)
CancelAnswered == \A g \in Gens : []<>(g \in DOMAIN bnd /\ bnd[g].asked => bnd[g].issued)
=============================================================================
