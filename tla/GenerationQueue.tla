--------------------------- MODULE GenerationQueue ---------------------------
(***************************************************************************)
(* The generation registry of one chat session (service/chat.go) with the  *)
(* runtime turn each generation may drive (service/chat_boot_drive.go).    *)
(*                                                                         *)
(* A generation is one assistant turn.  Generations are numbered in the    *)
(* order they register; the registry slot holds the newest one and every   *)
(* generation waits for the boundary of the one it queued behind.  The     *)
(* actors are the generation goroutines, the goroutine that sends the      *)
(* prompt into the CLI runtime, one cancellation worker per cancelled      *)
(* generation, the watchers that recover an unsafe boundary, user stops,   *)
(* the runtime process, and process shutdown.  A step is what the code     *)
(* does while it holds activeGenMu or turnMu, or between two waits.        *)
(***************************************************************************)
EXTENDS Naturals, FiniteSets

CONSTANTS
    N,               \* how many generations may register
    CliGens,         \* generations whose provider is a CLI runtime, not an HTTP API
    StopOps,         \* cancellation entry points in use: subset of {"chat", "turn"}
    SlowTurns,       \* a wait on another generation may reach its time limit
    SlowRuntime,     \* a wait on the runtime may reach its time limit
    MayFailHistory,  \* completeWorkingHistory may fail
    MayShutDown      \* the process may shut down

ASSUME NAssumption == N \in Nat \ {0}
ASSUME SwitchAssumption ==
    /\ CliGens \subseteq Nat
    /\ StopOps \subseteq {"chat", "turn"}
    /\ SlowTurns \in BOOLEAN
    /\ SlowRuntime \in BOOLEAN
    /\ MayFailHistory \in BOOLEAN
    /\ MayShutDown \in BOOLEAN

Gens == 1..N
NoGen == 0
GenOrNone == 0..N
ShutdownClaim == N + 1

VARIABLES
    count,     \* generations registered so far
    slot,      \* activeGen[session]
    pc,        \* the generation goroutine
    prev,      \* runGeneration's predecessor argument
    done,      \* inFlightGen.done is closed
    ctxDone,   \* genCtx is cancelled
    bnd,       \* the boundary fields of inFlightGen
    obs,       \* watchOnce and releaseOnce, and what their watchers await
    cw,        \* the cancellation worker and what its claim captured
    turn,      \* runtimeTurnBinding and the goroutine that sends the prompt
    live,      \* runtime sessions whose Wrapper.Run has not returned
    stopping,  \* runtime sessions Stop was called on
    entry,     \* SessionManager's session for this chat session
    router,    \* agentEventBridge.routers[session]
    stop,      \* the generation CancelActiveGeneration read from the slot
    hit,       \* history: unclaimed generations a cancellation interrupted
    life       \* the lifecycle manager

genVars == <<count, slot, pc, prev, done, ctxDone>>
turnVars == <<turn, live, stopping, entry, router>>
vars == <<count, slot, pc, prev, done, ctxDone, bnd, obs, cw, turn, live,
          stopping, entry, router, stop, hit, life>>

Phases == {"idle", "wait", "issued", "read", "refused", "root", "start",
           "run", "drain", "close", "dereg", "barrier", "abort",
           "abortBarrier", "exit", "dropped"}

Boundary == [pred : GenOrNone, asked : BOOLEAN, issued : BOOLEAN, safe : BOOLEAN,
             retain : BOOLEAN, closed : BOOLEAN, root : GenOrNone]

Observers == [watch : {"off", "inherit", "runtime", "spent"}, on : GenOrNone,
              release : {"off", "armed", "spent"}]

WorkerAt == {"none", "claimed", "lost", "done", "issued", "read", "turn", "drain",
             "stopWait", "decide", "end"}
Worker == [at : WorkerAt, head : GenOrNone \cup {ShutdownClaim}, pred : GenOrNone,
           bind : BOOLEAN, started : BOOLEAN, predSafe : BOOLEAN, turnSafe : BOOLEAN]

Turn == [at : {"none", "refused", "bound", "abandoned", "sending", "sent",
               "failing", "failed", "cleanup", "cleaned"},
         sess : GenOrNone, decided : BOOLEAN, started : BOOLEAN, returned : BOOLEAN,
         err : BOOLEAN, drained : BOOLEAN, cut : BOOLEAN]

\* Whoever waits on a predecessor, or answers for one, has one: the goroutine
\* and the worker never follow a nil link.
PredecessorNamed ==
    \A g \in Gens :
        /\ pc[g] \in {"wait", "issued", "read", "refused", "root"} => prev[g] \in Gens
        /\ cw[g].at \in {"done", "issued", "read"} \/ ~cw[g].predSafe => cw[g].pred \in Gens
        /\ cw[g].at = "none" => cw[g].predSafe

TypeOK ==
    /\ count \in GenOrNone
    /\ slot \in GenOrNone
    /\ pc \in [Gens -> Phases]
    /\ prev \in [Gens -> GenOrNone]
    /\ done \in [Gens -> BOOLEAN]
    /\ ctxDone \in [Gens -> BOOLEAN]
    /\ bnd \in [Gens -> Boundary]
    /\ obs \in [Gens -> Observers]
    /\ cw \in [Gens -> Worker]
    /\ turn \in [Gens -> Turn]
    /\ live \subseteq Gens
    /\ stopping \subseteq Gens
    /\ entry \in GenOrNone
    /\ router \in GenOrNone
    /\ stop \in GenOrNone
    /\ hit \subseteq Gens
    /\ life \in {"up", "closing", "down"}
    /\ PredecessorNamed

Init ==
    /\ count = 0
    /\ slot = NoGen
    /\ pc = [g \in Gens |-> "idle"]
    /\ prev = [g \in Gens |-> NoGen]
    /\ done = [g \in Gens |-> FALSE]
    /\ ctxDone = [g \in Gens |-> FALSE]
    /\ bnd = [g \in Gens |-> [pred |-> NoGen, asked |-> FALSE, issued |-> FALSE,
                              safe |-> FALSE, retain |-> FALSE, closed |-> FALSE,
                              root |-> NoGen]]
    /\ obs = [g \in Gens |-> [watch |-> "off", on |-> NoGen, release |-> "off"]]
    /\ cw = [g \in Gens |-> [at |-> "none", head |-> NoGen, pred |-> NoGen,
                             bind |-> FALSE, started |-> FALSE, predSafe |-> TRUE,
                             turnSafe |-> TRUE]]
    /\ turn = [g \in Gens |-> [at |-> "none", sess |-> NoGen, decided |-> FALSE,
                               started |-> FALSE, returned |-> FALSE, err |-> FALSE,
                               drained |-> FALSE, cut |-> FALSE]]
    /\ live = {}
    /\ stopping = {}
    /\ entry = NoGen
    /\ router = NoGen
    /\ stop = NoGen
    /\ hit = {}
    /\ life = "up"

-----------------------------------------------------------------------------
(* Helpers shared by the handlers. *)

Down == life = "down"

\* A goroutine of the generation exists and has not closed done.
Unfinished(g) ==
    /\ ~done[g]
    /\ pc[g] \notin {"idle", "abort", "abortBarrier", "exit", "dropped"}

\* admitRuntimeTurn stored a binding in g.turn.
Bound(g) == turn[g].at \notin {"none", "refused"}

\* The prompt entered the runtime, which neither ended the turn nor exited.
\* cut is history: the drain was acknowledged for a turn still open.
Open(t) == t.started /\ (t.drained => t.cut) /\ t.sess \in live
TurnOpen(g) == Open(turn[g])

\* generationUnsafeRoot, NoGen for nil.
UnsafeRoot(g) ==
    IF bnd[g].safe THEN NoGen
    ELSE IF bnd[g].root = NoGen THEN g ELSE bnd[g].root

\* lifecycle.Go drops work once the manager is closed.
Spawned(s) == IF Down THEN "spent" ELSE s

\* markGenerationSafe on the boundary, and the watcher it starts once.
Safe(b) == [b EXCEPT !.safe = TRUE, !.retain = FALSE, !.closed = TRUE]
Released(o) == [o EXCEPT !.release = IF @ = "off" THEN Spawned("armed") ELSE @]

\* markGenerationUnsafe: a nil root means the generation itself.
Unsafe(b, g, r) == [b EXCEPT !.safe = FALSE, !.retain = TRUE,
                             !.root = IF r = NoGen THEN g ELSE r]

\* observeUnsafePredecessor and observeUnsafeRuntimeBoundary under watchOnce.
ObservePredecessor(o, g, r) ==
    IF r \in {NoGen, g} \/ o.watch # "off" THEN o
    ELSE [o EXCEPT !.watch = Spawned("inherit"), !.on = r]
ObserveRuntime(o) ==
    IF o.watch # "off" THEN o ELSE [o EXCEPT !.watch = Spawned("runtime")]

\* retirePerSessionRouter removes only its own router.
Retired(g) == IF router = g THEN NoGen ELSE router
\* finishPerSessionRouter also acknowledges the terminal.
Finished(t) == [t EXCEPT !.drained = TRUE, !.cut = Open(t)]

\* The predecessor links from generation h, read under the locks.
InChain[h \in GenOrNone] ==
    IF h = NoGen THEN {} ELSE {h} \cup InChain[bnd[h].pred]
\* cancelGenerationChain: from, and each predecessor up to the first done one.
ClaimChain[h \in GenOrNone] ==
    IF h = NoGen THEN {}
    ELSE {h} \cup (LET p == bnd[h].pred
                   IN IF p = NoGen \/ done[p] THEN {} ELSE ClaimChain[p])

\* claimGenerationCancellationLocked for every generation of S not yet claimed.
Claimed(S) == {g \in 1..count : g \in S /\ cw[g].at = "none"}
ClaimBoundary(S) ==
    [g \in Gens |-> IF g \in Claimed(S) THEN [bnd[g] EXCEPT !.asked = TRUE] ELSE bnd[g]]
ClaimWorker(S, head) ==
    [g \in Gens |-> IF g \in Claimed(S)
                    THEN [cw[g] EXCEPT !.at = "claimed", !.head = head,
                                       !.pred = bnd[g].pred, !.bind = Bound(g),
                                       !.started = turn[g].started]
                    ELSE cw[g]]
ClaimTurn(S) ==
    [g \in Gens |-> IF g \in Claimed(S) /\ Bound(g)
                    THEN [turn[g] EXCEPT !.decided = TRUE] ELSE turn[g]]

-----------------------------------------------------------------------------
(* Registration.  Every caller holds the conversation gate of the session,  *)
(* so a wake that fails after it registered excludes other registrations    *)
(* until it has deregistered.                                               *)

GateHeld == \E g \in Gens : pc[g] \in {"abort", "abortBarrier"}

\* Mutant: registration loses the predecessor link.
RegisterUnlinked(g, p, phase) ==
    /\ count' = g
    /\ slot' = g
    /\ prev' = [prev EXCEPT ![g] = p]
    /\ pc' = [pc EXCEPT ![g] = phase]
    /\ UNCHANGED <<done, ctxDone, bnd, obs, cw, turnVars, stop, hit, life>>

Register(g, p, phase) ==
    /\ count' = g
    /\ slot' = g
    /\ prev' = [prev EXCEPT ![g] = p]
    /\ bnd' = [bnd EXCEPT ![g].pred = p]
    /\ pc' = [pc EXCEPT ![g] = phase]
    /\ UNCHANGED <<done, ctxDone, obs, cw, turnVars, stop, hit, life>>

\* Mutant: the goroutine waits without asking whether there is a predecessor.
LaunchUnasked(g) ==
    /\ g = count + 1
    /\ ~GateHeld
    /\ Register(g, slot, IF Down THEN "dropped" ELSE "wait")

\* launchGeneration: queue behind whatever holds the slot.
Launch(g) ==
    /\ g = count + 1
    /\ ~GateHeld
    /\ Register(g, slot, IF Down THEN "dropped"
                         ELSE IF slot = NoGen THEN "start" ELSE "wait")

\* TriggerHarnessTurn and TriggerMessageWake: refused when the slot is taken.
Wake(g) ==
    /\ g = count + 1
    /\ ~GateHeld
    /\ slot = NoGen
    /\ Register(g, NoGen, IF Down THEN "dropped" ELSE "start")

\* The same with CreateMessage failing: the generation deregisters unstarted.
WakeFails(g) ==
    /\ g = count + 1
    /\ ~GateHeld
    /\ slot = NoGen
    /\ Register(g, NoGen, "abort")

-----------------------------------------------------------------------------
(* The generation goroutine: waitForPredecessor, then runGeneration. *)

Goto(g, phase) == pc' = [pc EXCEPT ![g] = phase]

\* Mutant: does not wait for the predecessor's done channel.
NoWaitForDone(g) ==
    /\ pc[g] = "wait"
    /\ bnd[prev[g]].safe
    /\ Goto(g, "read")
    /\ UNCHANGED <<count, slot, prev, done, ctxDone, bnd, obs, cw, turnVars, stop, hit, life>>

\* The predecessor's done closed; its cancelAsked decides the second wait.
PredecessorDone(g) ==
    /\ pc[g] = "wait"
    /\ done[prev[g]]
    /\ Goto(g, IF bnd[prev[g]].asked THEN "issued" ELSE "read")
    /\ UNCHANGED <<count, slot, prev, done, ctxDone, bnd, obs, cw, turnVars, stop, hit, life>>

PredecessorIssued(g) ==
    /\ pc[g] = "issued"
    /\ bnd[prev[g]].issued
    /\ Goto(g, "read")
    /\ UNCHANGED <<count, slot, prev, done, ctxDone, bnd, obs, cw, turnVars, stop, hit, life>>

\* ownerCtx ended while the generation waited.
WaitAbandoned(g) ==
    /\ pc[g] \in {"wait", "issued"}
    /\ Down
    /\ Goto(g, "refused")
    /\ UNCHANGED <<count, slot, prev, done, ctxDone, bnd, obs, cw, turnVars, stop, hit, life>>

ReadBoundary(g) ==
    /\ pc[g] = "read"
    /\ Goto(g, IF bnd[prev[g]].safe /\ ~ctxDone[g] THEN "start" ELSE "refused")
    /\ UNCHANGED <<count, slot, prev, done, ctxDone, bnd, obs, cw, turnVars, stop, hit, life>>

\* Mutant: a refused generation leaves without closing done.
RefusedLeaves(g) ==
    /\ pc[g] = "refused"
    /\ Goto(g, IF bnd[prev[g]].safe THEN "exit" ELSE "root")
    /\ UNCHANGED <<count, slot, prev, done, ctxDone, bnd, obs, cw, turnVars, stop, hit, life>>

\* The boundary is read again: a cancelled turn behind a safe boundary just
\* ends, and retainUnsafePredecessor returns early on a safe one.
Refused(g) ==
    /\ pc[g] = "refused"
    /\ Goto(g, IF bnd[prev[g]].safe THEN "close" ELSE "root")
    /\ UNCHANGED <<count, slot, prev, done, ctxDone, bnd, obs, cw, turnVars, stop, hit, life>>

\* retainUnsafePredecessor asks for the root and inherits it.
RetainRoot(g) ==
    /\ pc[g] = "root"
    /\ LET r == UnsafeRoot(prev[g])
       IN  /\ bnd' = [bnd EXCEPT ![g] = Unsafe(@, g, r)]
           /\ obs' = [obs EXCEPT ![g] = ObservePredecessor(@, g, r)]
    /\ Goto(g, "close")
    /\ UNCHANGED <<count, slot, prev, done, ctxDone, cw, turnVars, stop, hit, life>>

\* completeWorkingHistory failed: the goroutine returns before the turn.
HistoryFails(g) ==
    /\ MayFailHistory
    /\ pc[g] = "start"
    /\ Goto(g, "close")
    /\ UNCHANGED <<count, slot, prev, done, ctxDone, bnd, obs, cw, turnVars, stop, hit, life>>

\* The predecessor link is dropped and the dispatcher runs.
StartRun(g) ==
    /\ pc[g] = "start"
    /\ Goto(g, "run")
    /\ bnd' = [bnd EXCEPT ![g].pred = NoGen]
    /\ UNCHANGED <<count, slot, prev, done, ctxDone, obs, cw, turnVars, stop, hit, life>>

\* dispatcher.Run returned: an API turn or an early error at any time, a
\* runtime turn once its router closed or its context ended.
RunEnds(g) ==
    /\ pc[g] = "run"
    /\ \/ turn[g].at \in {"none", "refused"}
       \/ Bound(g) /\ (turn[g].drained \/ turn[g].err \/ ctxDone[g])
    /\ Goto(g, "drain")
    /\ UNCHANGED <<count, slot, prev, done, ctxDone, bnd, obs, cw, turnVars, stop, hit, life>>

\* The inactivity watchdog ended the stream of a silent runtime turn.
RunStalls(g) ==
    /\ pc[g] = "run"
    /\ turn[g].started
    /\ Goto(g, "drain")
    /\ UNCHANGED <<count, slot, prev, done, ctxDone, bnd, obs, cw, turnVars, stop, hit, life>>

\* Mutant: markGenerationCompleted leaves the boundary unresolved.
CompleteUnmarked(g) ==
    /\ pc[g] = "drain"
    /\ turn[g].started => turn[g].returned
    /\ Goto(g, "close")
    /\ UNCHANGED <<count, slot, prev, done, ctxDone, bnd, obs, cw, turnVars, stop, hit, life>>

\* The exact SendInput returned: markGenerationCompleted.
Complete(g) ==
    /\ pc[g] = "drain"
    /\ turn[g].started => turn[g].returned
    /\ bnd' = [bnd EXCEPT ![g] = IF @.asked \/ @.retain THEN @
                                 ELSE [@ EXCEPT !.safe = TRUE, !.closed = TRUE]]
    /\ Goto(g, "close")
    /\ UNCHANGED <<count, slot, prev, done, ctxDone, obs, cw, turnVars, stop, hit, life>>

\* It did not return in time: requestGenerationCancellation claims the
\* generation and starts its worker, and markGenerationCompleted then leaves
\* the boundary to them.
SendUnsettled(g) ==
    /\ pc[g] = "drain"
    /\ turn[g].started
    /\ ctxDone[g] \/ (SlowRuntime /\ ~turn[g].returned)
    /\ bnd' = ClaimBoundary({g})
    /\ cw' = IF cw[g].at # "none" THEN cw
             ELSE [ClaimWorker({g}, g) EXCEPT ![g].at = IF Down THEN "lost" ELSE "turn"]
    /\ turn' = ClaimTurn({g})
    /\ ctxDone' = [ctxDone EXCEPT ![g] = @ \/ cw[g].at = "none"]
    /\ Goto(g, "close")
    /\ UNCHANGED <<count, slot, prev, done, obs, live, stopping, entry, router,
                   stop, hit, life>>

CloseDone(g) ==
    /\ pc[g] = "close"
    /\ done' = [done EXCEPT ![g] = TRUE]
    /\ Goto(g, "dereg")
    /\ UNCHANGED <<count, slot, prev, ctxDone, bnd, obs, cw, turnVars, stop, hit, life>>

\* Mutant: clears the slot whoever holds it.
DeregisterAnyone(g) ==
    /\ pc[g] \in {"dereg", "abort"}
    /\ slot' = IF ~bnd[g].asked /\ ~bnd[g].retain THEN NoGen ELSE slot
    /\ Goto(g, IF ~bnd[g].asked THEN "exit"
               ELSE IF pc[g] = "abort" THEN "abortBarrier" ELSE "barrier")
    /\ UNCHANGED <<count, prev, done, ctxDone, bnd, obs, cw, turnVars, stop, hit, life>>

\* deregisterGeneration, first lock hold.
Deregister(g) ==
    /\ pc[g] \in {"dereg", "abort"}
    /\ slot' = IF slot = g /\ ~bnd[g].asked /\ ~bnd[g].retain THEN NoGen ELSE slot
    /\ Goto(g, IF slot # g \/ ~bnd[g].asked THEN "exit"
               ELSE IF pc[g] = "abort" THEN "abortBarrier" ELSE "barrier")
    /\ UNCHANGED <<count, prev, done, ctxDone, bnd, obs, cw, turnVars, stop, hit, life>>

\* deregisterGeneration after the cancellation barrier.
DeregisterIssued(g) ==
    /\ pc[g] \in {"barrier", "abortBarrier"}
    /\ bnd[g].issued
    /\ slot' = IF slot = g /\ ~bnd[g].retain THEN NoGen ELSE slot
    /\ Goto(g, "exit")
    /\ UNCHANGED <<count, prev, done, ctxDone, bnd, obs, cw, turnVars, stop, hit, life>>

-----------------------------------------------------------------------------
(* driveBootSession and the goroutine that sends the prompt. *)

\* Mutant: takes the router over from a turn that still owns it.
AdmitsTakeover(g) == ~bnd[g].asked /\ ~ctxDone[g]

\* Reuse the live session or boot one, named after the generation; then
\* admitRuntimeTurn with bindPerSessionRouterExact.
Admits(g) == ~bnd[g].asked /\ ~ctxDone[g] /\ router = NoGen

AdmitTurn(g) ==
    /\ g \in CliGens
    /\ pc[g] = "run"
    /\ turn[g].at = "none"
    /\ entry \in live \/ life = "up"
    /\ LET s == IF entry \in live THEN entry ELSE g
       IN  /\ turn' = [turn EXCEPT ![g] =
                       [@ EXCEPT !.sess = s, !.at = IF Admits(g) THEN "bound" ELSE "refused"]]
           /\ live' = live \cup {s}
           /\ entry' = s
    /\ router' = IF Admits(g) THEN g ELSE router
    /\ UNCHANGED <<genVars, bnd, obs, cw, stopping, stop, hit, life>>

\* beginRuntimeSend; a refused send abandons its router.
BeginSend(g) ==
    /\ turn[g].at = "bound"
    /\ IF turn[g].decided \/ bnd[g].asked \/ ctxDone[g]
       THEN /\ turn' = [turn EXCEPT ![g] =
                         Finished([@ EXCEPT !.at = "abandoned", !.decided = TRUE])]
            /\ router' = Retired(g)
       ELSE /\ turn' = [turn EXCEPT ![g] =
                         [@ EXCEPT !.at = "sending", !.decided = TRUE, !.started = TRUE]]
            /\ UNCHANGED router
    /\ UNCHANGED <<genVars, bnd, obs, cw, live, stopping, entry, stop, hit, life>>

SendReturns(g) ==
    /\ turn[g].at = "sending"
    /\ turn' = [turn EXCEPT ![g] = [@ EXCEPT !.at = "sent", !.returned = TRUE]]
    /\ UNCHANGED <<genVars, bnd, obs, cw, live, stopping, entry, router, stop, hit, life>>

\* SendInput failed: the tombstone and its observer come first.
SendFails(g) ==
    /\ turn[g].at = "sending"
    /\ turn' = [turn EXCEPT ![g].at = "failing"]
    /\ bnd' = [bnd EXCEPT ![g] = Unsafe(@, g, g)]
    /\ obs' = [obs EXCEPT ![g] = ObserveRuntime(@)]
    /\ UNCHANGED <<genVars, cw, live, stopping, entry, router, stop, hit, life>>

\* completeRuntimeSend with the error, then EventError into the router.
FailureReturned(g) ==
    /\ turn[g].at = "failing"
    /\ turn' = [turn EXCEPT ![g] = [@ EXCEPT !.at = "failed", !.returned = TRUE, !.err = TRUE]]
    /\ UNCHANGED <<genVars, bnd, obs, cw, live, stopping, entry, router, stop, hit, life>>

\* cleanupFailedRuntimeSend: retire the router, stop the wrapper ...
CleanupStop(g) ==
    /\ turn[g].at = "failed"
    /\ turn' = [turn EXCEPT ![g].at = "cleanup"]
    /\ router' = Retired(g)
    /\ stopping' = stopping \cup ({turn[g].sess} \cap live)
    /\ UNCHANGED <<genVars, bnd, obs, cw, live, entry, stop, hit, life>>

\* ... and resolve the boundary if it became terminal in time.
CleanupTerminal(g) ==
    /\ turn[g].at = "cleanup"
    /\ turn[g].sess \notin live
    /\ turn' = [turn EXCEPT ![g] = Finished([@ EXCEPT !.at = "cleaned"])]
    /\ router' = Retired(g)
    /\ bnd' = [bnd EXCEPT ![g] = Safe(@)]
    /\ obs' = [obs EXCEPT ![g] = Released(@)]
    /\ UNCHANGED <<genVars, cw, live, stopping, entry, stop, hit, life>>

CleanupTimesOut(g) ==
    /\ SlowRuntime
    /\ turn[g].at = "cleanup"
    /\ turn[g].sess \in live
    /\ turn' = [turn EXCEPT ![g].at = "cleaned"]
    /\ UNCHANGED <<genVars, bnd, obs, cw, live, stopping, entry, router, stop, hit, life>>

\* The runtime ends the turn and its terminal event crosses the bridge.
TurnTerminal(g) ==
    /\ TurnOpen(g)
    /\ turn' = [turn EXCEPT ![g] = [Finished(@) EXCEPT !.cut = FALSE]]
    /\ router' = Retired(g)
    /\ UNCHANGED <<genVars, bnd, obs, cw, live, stopping, entry, stop, hit, life>>

\* Wrapper.Run returns, because of Stop or because the process died.
SessionExits(s) ==
    /\ s \in live
    /\ live' = live \ {s}
    /\ stopping' = stopping \ {s}
    /\ UNCHANGED <<genVars, bnd, obs, cw, turn, entry, router, stop, hit, life>>

-----------------------------------------------------------------------------
(* The cancellation worker: finishClaimedCancellation. *)

\* The two answers the worker collects: the predecessor's, and its own turn's.
Answered(w, ok) == [w EXCEPT !.at = "turn", !.predSafe = ok]
Judged(w, ok) == [w EXCEPT !.at = "decide", !.turnSafe = ok]

\* gen.cancel(), then lifecycle.Go.  The claims of one chain are finished
\* newest first.
WorkerStarts(g) ==
    /\ cw[g].at = "claimed"
    /\ \A h \in Gens : h > g => ~(cw[h].at = "claimed" /\ cw[h].head = cw[g].head)
    /\ ctxDone' = [ctxDone EXCEPT ![g] = TRUE]
    /\ cw' = [cw EXCEPT ![g].at = IF Down THEN "lost"
                                  ELSE IF cw[g].pred = NoGen THEN "turn" ELSE "done"]
    /\ UNCHANGED <<count, slot, pc, prev, done, bnd, obs, turnVars, stop, hit, life>>

\* generationBoundarySafe on the captured predecessor.
WorkerPredDone(g) ==
    /\ cw[g].at = "done"
    /\ done[cw[g].pred]
    /\ cw' = [cw EXCEPT ![g].at = IF bnd[cw[g].pred].asked THEN "issued" ELSE "read"]
    /\ UNCHANGED <<genVars, bnd, obs, turnVars, stop, hit, life>>

WorkerPredIssued(g) ==
    /\ cw[g].at = "issued"
    /\ bnd[cw[g].pred].issued
    /\ cw' = [cw EXCEPT ![g].at = "read"]
    /\ UNCHANGED <<genVars, bnd, obs, turnVars, stop, hit, life>>

WorkerPredRead(g) ==
    /\ cw[g].at = "read"
    /\ cw' = [cw EXCEPT ![g] = Answered(@, bnd[cw[g].pred].safe)]
    /\ UNCHANGED <<genVars, bnd, obs, turnVars, stop, hit, life>>

WorkerPredExpires(g) ==
    /\ \/ cw[g].at = "done" /\ (Down \/ (SlowTurns /\ ~done[cw[g].pred]))
       \/ cw[g].at = "issued" /\ (Down \/ (SlowTurns /\ ~bnd[cw[g].pred].issued))
    /\ cw' = [cw EXCEPT ![g] = Answered(@, FALSE)]
    /\ UNCHANGED <<genVars, bnd, obs, turnVars, stop, hit, life>>

\* The claim came before SendInput: releasing the router is the boundary.
ReleaseUnsent(g) ==
    /\ cw[g].at = "turn"
    /\ cw[g].bind
    /\ ~cw[g].started
    /\ turn' = [turn EXCEPT ![g] = Finished(@)]
    /\ router' = Retired(g)
    /\ \E ok \in {TRUE, ~Down} :
           cw' = [cw EXCEPT ![g] = Judged(@, ok)]
    /\ UNCHANGED <<genVars, bnd, obs, live, stopping, entry, stop, hit, life>>

\* Generations other than g whose open turn on g's session nobody cancelled.
Bystanders(g) ==
    {h \in Gens \ {g} : TurnOpen(h) /\ turn[h].sess = turn[g].sess /\ ~bnd[h].asked}

\* SupportsTurnCancellation, SendInput returned without error: CancelSession.
CancelTurn(g) ==
    /\ cw[g].at = "turn"
    /\ cw[g].started
    /\ turn[g].returned
    /\ ~turn[g].err
    /\ cw' = [cw EXCEPT ![g].at = "drain"]
    /\ hit' = hit \cup Bystanders(g)
    /\ UNCHANGED <<genVars, bnd, obs, turnVars, stop, life>>

TurnDrained(g) ==
    /\ cw[g].at = "drain"
    /\ turn[g].drained
    /\ cw' = [cw EXCEPT ![g] = Judged(@, TRUE)]
    /\ UNCHANGED <<genVars, bnd, obs, turnVars, stop, hit, life>>

\* Cancellation unsupported, failed or too slow: stop the captured wrapper.
StopRuntime(g) ==
    /\ \/ cw[g].at = "turn" /\ cw[g].started
       \/ cw[g].at = "drain" /\ (SlowRuntime \/ Down \/ turn[g].sess \notin live)
    /\ IF Down
       THEN /\ cw' = [cw EXCEPT ![g] = Judged(@, FALSE)]
            /\ UNCHANGED <<stopping, hit>>
       ELSE /\ cw' = [cw EXCEPT ![g].at = "stopWait"]
            /\ stopping' = stopping \cup ({turn[g].sess} \cap live)
            /\ hit' = hit \cup Bystanders(g)
    /\ UNCHANGED <<genVars, bnd, obs, turn, live, entry, router, stop, life>>

\* Run and the exact SendInput both returned.
RuntimeTerminal(g) ==
    /\ cw[g].at = "stopWait"
    /\ turn[g].sess \notin live
    /\ turn[g].returned
    /\ turn' = [turn EXCEPT ![g] = Finished(@)]
    /\ router' = Retired(g)
    /\ cw' = [cw EXCEPT ![g] = Judged(@, TRUE)]
    /\ UNCHANGED <<genVars, bnd, obs, live, stopping, entry, stop, hit, life>>

StopExpires(g) ==
    /\ cw[g].at = "stopWait"
    /\ Down \/ (SlowRuntime /\ (turn[g].sess \in live \/ ~turn[g].returned))
    /\ cw' = [cw EXCEPT ![g] = Judged(@, FALSE)]
    /\ UNCHANGED <<genVars, bnd, obs, turnVars, stop, hit, life>>

\* Mutant: the verdict forgets whether the turn reached its terminal.
DecideByPredecessor(g) ==
    /\ cw[g].at = "decide" \/ (cw[g].at = "turn" /\ ~cw[g].bind)
    /\ cw' = [cw EXCEPT ![g].at = "end"]
    /\ IF cw[g].predSafe
       THEN /\ bnd' = [bnd EXCEPT ![g] = [Safe(@) EXCEPT !.issued = TRUE]]
            /\ obs' = [obs EXCEPT ![g] = Released(@)]
       ELSE /\ bnd' = [bnd EXCEPT ![g] = [Unsafe(@, g, g) EXCEPT !.issued = TRUE]]
            /\ UNCHANGED obs
    /\ UNCHANGED <<genVars, turnVars, stop, hit, life>>

\* Mutant: cancelIssued is closed on the safe path only.
DecideSilently(g) ==
    /\ cw[g].at = "decide" \/ (cw[g].at = "turn" /\ ~cw[g].bind)
    /\ cw' = [cw EXCEPT ![g].at = "end"]
    /\ IF cw[g].predSafe /\ cw[g].turnSafe
       THEN /\ bnd' = [bnd EXCEPT ![g] = [Safe(@) EXCEPT !.issued = TRUE]]
            /\ obs' = [obs EXCEPT ![g] = Released(@)]
       ELSE /\ bnd' = [bnd EXCEPT ![g] = Unsafe(@, g, g)]
            /\ UNCHANGED obs
    /\ UNCHANGED <<genVars, turnVars, stop, hit, life>>

\* Publish the verdict and close cancelIssued.
Decide(g) ==
    /\ cw[g].at = "decide" \/ (cw[g].at = "turn" /\ ~cw[g].bind)
    /\ cw' = [cw EXCEPT ![g].at = "end"]
    /\ LET w == cw[g]
           r == IF w.predSafe THEN g ELSE UnsafeRoot(w.pred)
           root == IF r = NoGen THEN g ELSE r
       IN  IF w.predSafe /\ w.turnSafe
           THEN /\ bnd' = [bnd EXCEPT ![g] = [Safe(@) EXCEPT !.issued = TRUE]]
                /\ obs' = [obs EXCEPT ![g] = Released(@)]
           ELSE /\ bnd' = [bnd EXCEPT ![g] = [Unsafe(@, g, root) EXCEPT !.issued = TRUE]]
                /\ obs' = [obs EXCEPT ![g] = IF ~w.turnSafe /\ w.started
                                             THEN ObserveRuntime(@)
                                             ELSE ObservePredecessor(@, g, root)]
    /\ UNCHANGED <<genVars, turnVars, stop, hit, life>>

-----------------------------------------------------------------------------
(* Watchers. *)

\* observeUnsafePredecessor: the root's safe boundary closed.
InheritSafe(g) ==
    /\ obs[g].watch = "inherit"
    /\ bnd[obs[g].on].closed
    /\ bnd' = [bnd EXCEPT ![g] = Safe(@)]
    /\ obs' = [obs EXCEPT ![g] = Released([@ EXCEPT !.watch = "spent"])]
    /\ UNCHANGED <<genVars, cw, turnVars, stop, hit, life>>

\* Mutant: the watcher does not wait for the turn's terminal.
RuntimeSafeEarly(g) ==
    /\ obs[g].watch = "runtime"
    /\ turn[g].returned
    /\ turn' = [turn EXCEPT ![g] = Finished(@)]
    /\ router' = Retired(g)
    /\ bnd' = [bnd EXCEPT ![g] = Safe(@)]
    /\ obs' = [obs EXCEPT ![g] = Released([@ EXCEPT !.watch = "spent"])]
    /\ UNCHANGED <<genVars, cw, live, stopping, entry, stop, hit, life>>

\* observeUnsafeRuntimeBoundary: SendInput returned and the turn is terminal.
RuntimeSafe(g) ==
    /\ obs[g].watch = "runtime"
    /\ turn[g].returned
    /\ turn[g].drained \/ turn[g].sess \notin live
    /\ turn' = [turn EXCEPT ![g] = Finished(@)]
    /\ router' = Retired(g)
    /\ bnd' = [bnd EXCEPT ![g] = Safe(@)]
    /\ obs' = [obs EXCEPT ![g] = Released([@ EXCEPT !.watch = "spent"])]
    /\ UNCHANGED <<genVars, cw, live, stopping, entry, stop, hit, life>>

\* markGenerationSafe's release watcher.
ReleaseSafe(g) ==
    /\ obs[g].release = "armed"
    /\ done[g]
    /\ obs' = [obs EXCEPT ![g].release = "spent"]
    /\ slot' = IF slot = g /\ bnd[g].safe /\ ~bnd[g].retain THEN NoGen ELSE slot
    /\ UNCHANGED <<count, pc, prev, done, ctxDone, bnd, cw, turnVars, stop, hit, life>>

\* Shutdown ends a watcher that is still waiting.
WatcherEnds(g) ==
    /\ Down
    /\ \/ /\ obs[g].watch \in {"inherit", "runtime"}
          /\ obs' = [obs EXCEPT ![g].watch = "spent"]
       \/ /\ obs[g].release = "armed"
          /\ obs' = [obs EXCEPT ![g].release = "spent"]
    /\ UNCHANGED <<genVars, bnd, cw, turnVars, stop, hit, life>>

-----------------------------------------------------------------------------
(* User stops and shutdown. *)

\* CancelActiveGeneration reads the slot under the lock and releases it ...
StopReads ==
    /\ "chat" \in StopOps
    /\ stop = NoGen
    /\ slot # NoGen
    /\ stop' = slot
    /\ UNCHANGED <<genVars, bnd, obs, cw, turnVars, hit, life>>

\* ... then cancelGenerationChain claims from what it read.
StopClaims ==
    /\ stop # NoGen
    /\ bnd' = ClaimBoundary(ClaimChain[stop])
    /\ cw' = ClaimWorker(ClaimChain[stop], stop)
    /\ turn' = ClaimTurn(ClaimChain[stop])
    /\ stop' = NoGen
    /\ UNCHANGED <<genVars, obs, live, stopping, entry, router, hit, life>>

\* CancelCognitiveTurn: one unfinished generation reachable from the slot.
CancelOne(g) ==
    /\ "turn" \in StopOps
    /\ g \in InChain[slot]
    /\ ~done[g]
    /\ cw[g].at = "none"
    /\ bnd' = ClaimBoundary({g})
    /\ cw' = ClaimWorker({g}, g)
    /\ turn' = ClaimTurn({g})
    /\ UNCHANGED <<genVars, obs, live, stopping, entry, router, stop, hit, life>>

\* Shutdown closes session admission, claims the chain and stops the runtimes.
ShutdownBegins ==
    /\ MayShutDown
    /\ life = "up"
    /\ life' = "closing"
    /\ bnd' = ClaimBoundary(ClaimChain[slot])
    /\ cw' = ClaimWorker(ClaimChain[slot], ShutdownClaim)
    /\ turn' = ClaimTurn(ClaimChain[slot])
    /\ stopping' = stopping \cup live
    /\ UNCHANGED <<genVars, obs, live, entry, router, stop, hit>>

\* lifecycle.Shutdown, after the claims above and after the runtimes exited or
\* used up their time: no new goroutine, every ownerCtx ends.
LifecycleCloses ==
    /\ life = "closing"
    /\ live = {} \/ SlowRuntime
    /\ \A g \in Gens : ~(cw[g].at = "claimed" /\ cw[g].head = ShutdownClaim)
    /\ life' = "down"
    /\ UNCHANGED <<genVars, bnd, obs, cw, turnVars, stop, hit>>

\* The bridge goroutine of a running generation cancels genCtx.
Bridge(g) ==
    /\ Down
    /\ Unfinished(g)
    /\ ~ctxDone[g]
    /\ ctxDone' = [ctxDone EXCEPT ![g] = TRUE]
    /\ UNCHANGED <<count, slot, pc, prev, done, bnd, obs, cw, turnVars, stop, hit, life>>
-----------------------------------------------------------------------------
Admission(g) == Launch(g) \/ Wake(g) \/ WakeFails(g)

Goroutine(g) ==
    \/ PredecessorDone(g) \/ PredecessorIssued(g) \/ WaitAbandoned(g) \/ ReadBoundary(g)
    \/ Refused(g) \/ RetainRoot(g) \/ HistoryFails(g) \/ StartRun(g)
    \/ RunEnds(g) \/ RunStalls(g) \/ Complete(g) \/ SendUnsettled(g)
    \/ CloseDone(g) \/ Deregister(g) \/ DeregisterIssued(g)

Drive(g) ==
    \/ AdmitTurn(g) \/ BeginSend(g) \/ SendReturns(g) \/ SendFails(g)
    \/ FailureReturned(g) \/ CleanupStop(g) \/ CleanupTerminal(g) \/ CleanupTimesOut(g)

Runtime(g) == TurnTerminal(g) \/ SessionExits(g)

CancelWorker(g) ==
    \/ WorkerStarts(g) \/ WorkerPredDone(g) \/ WorkerPredIssued(g) \/ WorkerPredRead(g)
    \/ WorkerPredExpires(g) \/ ReleaseUnsent(g) \/ CancelTurn(g)
    \/ TurnDrained(g) \/ StopRuntime(g) \/ RuntimeTerminal(g) \/ StopExpires(g) \/ Decide(g)

Watcher(g) == InheritSafe(g) \/ RuntimeSafe(g) \/ ReleaseSafe(g) \/ WatcherEnds(g)

UserStop == StopReads \/ StopClaims \/ \E g \in Gens : CancelOne(g)

Shutdown == ShutdownBegins \/ LifecycleCloses \/ \E g \in Gens : Bridge(g)

Next ==
    \/ \E g \in Gens : Admission(g) \/ Goroutine(g) \/ Drive(g) \/ Runtime(g)
                       \/ CancelWorker(g) \/ Watcher(g)
    \/ UserStop
    \/ Shutdown

Spec == Init /\ [][Next]_vars

\* A stopped process is killed after its grace period; a SendInput into a
\* process that is gone returns.
StoppedExits(s) == s \in stopping /\ SessionExits(s)
SendSettles(g) == turn[g].sess \notin live /\ (SendReturns(g) \/ SendFails(g))

\* The goroutine that sends the prompt, and the two that observe a boundary.
SenderMoves(g) ==
    \/ BeginSend(g) \/ FailureReturned(g) \/ CleanupStop(g) \/ CleanupTerminal(g)
    \/ CleanupTimesOut(g)
ObserverMoves(g) == InheritSafe(g) \/ RuntimeSafe(g)

\* The Go scheduler runs every goroutine that can take a step.  Nothing is
\* assumed of users, of a live runtime, or of shutdown.
Fairness ==
    \A g \in Gens :
        /\ WF_vars(Goroutine(g))
        /\ WF_vars(SenderMoves(g))
        /\ WF_vars(SendSettles(g))
        /\ WF_vars(StoppedExits(g))
        /\ WF_vars(CancelWorker(g))
        /\ WF_vars(ObserverMoves(g))
        /\ WF_vars(ReleaseSafe(g))
        /\ WF_vars(Bridge(g))

FairSpec == Spec /\ Fairness

-----------------------------------------------------------------------------
(* Properties. *)

Running(g) == pc[g] \in {"run", "drain"}

\* launchGeneration queues a turn behind the one in flight "so two loops never
\* run on one session at once".  Shutdown gives the promise up: a queued
\* generation may then leave its wait before its predecessor is done.
MutualExclusion ==
    Down \/ \A g, h \in Gens : Running(g) /\ Running(h) => g = h

\* The generations as the turns of TurnQueue.
TurnPhase(g) ==
    CASE pc[g] = "idle" -> "new"
      [] pc[g] \in {"wait", "issued", "read", "refused", "root", "start"} -> "queued"
      [] Running(g) -> "running"
      [] pc[g] \in {"close", "dereg", "barrier"} \/ (pc[g] = "exit" /\ done[g]) -> "over"
      [] OTHER -> "withdrawn"

Promise == INSTANCE TurnQueue WITH phase <- [g \in Gens |-> TurnPhase(g)]

\* Without shutdown the registry implements TurnQueue: a generation enters its
\* loop, or gives up its place, only when every generation registered before it
\* has left its own.
ImplementsTurnQueue == Promise!Spec

\* The walk of cancelGenerationChain from the slot, which stops at the first
\* finished predecessor, meets every generation that has not finished: a user
\* stop "cancels that turn and every generation ahead of it that has not
\* finished, including the one actually running".
StopReachesAll ==
    Down \/ {g \in Gens : Unfinished(g)} \subseteq ClaimChain[slot]

\* The link by link form of StopReachesAll: an unfinished generation holds the
\* slot or is still the predecessor of another unfinished one.
ChainUnbroken ==
    Down \/ \A g \in Gens : Unfinished(g) =>
                \/ slot = g
                \/ \E h \in Gens : h > g /\ Unfinished(h) /\ bnd[h].pred = g

\* The generation registered and no longer waits for its predecessor's done.
PastWait(g) == pc[g] \notin {"idle", "wait"}

\* The order of the registry until its process is down: registration order, the
\* slot, the waits and the done channels agree, so a generation that is past its
\* wait has nothing unfinished ahead of it.
QueueOrder ==
    /\ life = "up" \/ (MayShutDown /\ life = "closing")
    /\ slot <= count
    /\ \A g \in Gens :
           /\ pc[g] = "idle" <=> g > count
           /\ pc[g] # "dropped"
           /\ bnd[g].pred < g
           /\ done[g] => pc[g] \in {"dereg", "barrier", "exit"}
           /\ pc[g] \in {"dereg", "barrier"} => done[g]
           /\ Unfinished(g) => slot >= g
           /\ PastWait(g) => \A h \in Gens : h < g => ~Unfinished(h)
           /\ pc[g] = "wait" =>
                 /\ prev[g] \in Gens
                 /\ prev[g] < g
                 /\ \A h \in Gens : prev[g] < h /\ h < g => ~Unfinished(h)
    /\ ChainUnbroken

\* The registry's inductive invariant.
QueueInv == Down \/ QueueOrder

\* Two prompts are never open in the runtime at once, whatever stalled,
\* failed or was cancelled: admission takes the session's router exactly.
TurnExclusive ==
    \A g, h \in Gens : TurnOpen(g) /\ TurnOpen(h) => g = h

\* cancelIssued with a safe verdict "closes only after the full provider/router
\* boundary": the turn is no longer open and no longer owns the router.
IssuedBoundary ==
    \A g \in Gens : bnd[g].issued /\ bnd[g].safe => ~TurnOpen(g) /\ router # g

\* The watchers lift a tombstone "without weakening it": never while the
\* generation's own turn is open in the runtime.
TombstoneLifts ==
    [][\A g \in Gens : bnd[g].retain /\ ~bnd'[g].retain => ~TurnOpen(g)]_vars

\* Phases in which a generation may still reach its turn, and those in which it
\* may have one.
Ahead == {"idle", "wait", "issued", "read", "start", "run"}
Late == {"run", "drain", "close", "dereg", "barrier", "exit"}

\* The generation's prompt is in the runtime already, or will never be.
Barred(g) ==
    \/ turn[g].started
    \/ turn[g].at \in {"refused", "abandoned"}
    \/ turn[g].at = "bound" /\ (turn[g].decided \/ bnd[g].asked \/ ctxDone[g])
    \/ turn[g].at = "none" /\ (bnd[g].asked \/ ctxDone[g] \/ pc[g] \notin Ahead)

\* The generation is no danger to a later one: if its turn is still open, then it
\* is one whose stream stalled after SendInput returned, which keeps the router.
Quiet(g) == Barred(g) /\ (TurnOpen(g) => turn[g].at = "sent")
QuietBefore(g) == \A k \in Gens : k < g => Quiet(k)
QuietUpTo(g) == \A k \in Gens : k <= g => Quiet(k)
QuietFrom(r, g) == \A k \in Gens : r < k /\ k <= g => Quiet(k)

\* The full provider and router boundary.
Over(g) == Barred(g) /\ ~TurnOpen(g) /\ router # g

\* A generation queues behind the newest one, unless that has left the slot.
SlotOK == slot \in {NoGen, count} /\ (slot = NoGen => QuietUpTo(count))
OrderOK(g) ==
    /\ prev[g] \in {NoGen, g - 1}
    /\ bnd[g].pred \in {NoGen, g - 1}
    /\ cw[g].pred \in {NoGen, g - 1}
    /\ pc[g] = "idle" <=> g > count
    /\ g > count => cw[g].at = "none"

\* A turn holds the router from its admission to its terminal, unless its send
\* failed: then a tombstone stands for it.
TurnOK(g) ==
    /\ ~turn[g].cut
    /\ turn[g].started <=> turn[g].at \in {"sending", "sent", "failing", "failed", "cleanup", "cleaned"}
    /\ turn[g].returned <=> turn[g].at \in {"sent", "failed", "cleanup", "cleaned"}
    /\ turn[g].err => turn[g].started
    /\ turn[g].at \in {"none", "refused"} => ~turn[g].decided /\ ~turn[g].drained /\ router # g
    /\ turn[g].drained => router # g
    /\ turn[g].at = "bound" /\ ~turn[g].decided => router = g
    /\ TurnOpen(g) /\ turn[g].at \notin {"cleanup", "cleaned"} => router = g
    /\ TurnOpen(g) /\ turn[g].at \notin {"sending", "sent"} => bnd[g].retain
    /\ turn[g].at = "bound" /\ pc[g] # "run" => turn[g].decided \/ ctxDone[g]
    /\ turn[g].at # "none" => pc[g] \in Late
    /\ pc[g] = "run" \/ turn[g].at # "none" => bnd[g].pred = NoGen
    /\ turn[g].at = "none" => g \notin live /\ \A k \in Gens : turn[k].sess # g

\* What a cancellation worker captured and concluded is true.
VerdictOK(g) ==
    /\ bnd[g].asked <=> cw[g].at # "none"
    /\ bnd[g].issued <=> cw[g].at = "end"
    /\ cw[g].at # "none" =>
           /\ cw[g].bind <=> Bound(g)
           /\ cw[g].started <=> turn[g].started
           /\ cw[g].bind => turn[g].decided /\ cw[g].pred = NoGen
           /\ cw[g].pred = NoGen => QuietBefore(g)
    /\ cw[g].at \in {"turn", "drain", "stopWait", "decide"} /\ cw[g].predSafe => QuietBefore(g)
    /\ cw[g].at \in {"drain", "stopWait"} => cw[g].started
    /\ cw[g].at = "decide" /\ (cw[g].turnSafe \/ ~cw[g].started) => Over(g)

\* A safe boundary answers for every generation up to its own, and an unsafe one
\* names a root that answers for the rest.
BoundaryOK(g) ==
    /\ bnd[g].safe => bnd[g].closed
    /\ bnd[g].closed => QuietUpTo(g)
    /\ bnd[g].issued => bnd[g].closed \/ bnd[g].retain
    /\ bnd[g].issued /\ bnd[g].safe => Over(g)
    /\ g <= count /\ bnd[g].pred = NoGen => QuietBefore(g)
    /\ pc[g] \in {"start", "drain"} => QuietBefore(g)
    /\ pc[g] \in {"close", "dereg", "abort"} /\ ~bnd[g].asked /\ ~bnd[g].retain => QuietUpTo(g)
    /\ bnd[g].root # NoGen => bnd[g].root <= g /\ QuietFrom(bnd[g].root, g)
    /\ obs[g].watch = "inherit" => Over(g) /\ obs[g].on \in Gens /\ QuietFrom(obs[g].on, g)
    /\ obs[g].watch = "runtime" => turn[g].started

\* The inductive invariant of the runtime turns: a generation enters the runtime
\* only behind generations that are barred from it, with the router to itself.
TurnInv ==
    /\ TypeOK
    /\ SlotOK
    /\ \A g \in Gens : OrderOK(g) /\ TurnOK(g) /\ VerdictOK(g) /\ BoundaryOK(g)
    /\ TurnExclusive

\* A cancellation interrupts no other turn: "an asynchronous user stop must
\* never cancel a successor that was installed after dispatch".
NoBystanderHit == hit = {}

\* The slot does not outlive the generations.
Freed == slot = NoGen \/ \E g \in Gens : Unfinished(g)

\* Once every registered generation has ended the slot is released, so that a
\* later turn does not queue behind a tombstone for ever: the watchers keep
\* "an unsafe takeover recoverable".
SessionFrees == []<>Freed
=============================================================================
