------------------------- MODULE GenerationQueueTypes -------------------------
(***************************************************************************)
(* Type correctness of GenerationQueue for every number of generations.    *)
(* TypeOK is inductive by itself: its last conjunct, PredecessorNamed, is  *)
(* what makes the reads through a predecessor link well typed.             *)
(***************************************************************************)
EXTENDS GenerationQueue, TLAPS

\* A leaf that names no prover goes to Zenon.
USE ZenonT(30)

\* What the verdicts do to a boundary record: markGenerationSafe,
\* markGenerationUnsafe, markGenerationCompleted and the claim keep its type,
\* and only registration and runGeneration touch the predecessor link.
LEMMA BoundaryExcept ==
    ASSUME NEW b \in Boundary, NEW g \in Gens, NEW r \in GenOrNone
    PROVE  /\ Safe(b) \in Boundary
           /\ Safe(b).pred = b.pred
           /\ Unsafe(b, g, r) \in Boundary
           /\ Unsafe(b, g, r).pred = b.pred
           /\ [b EXCEPT !.issued = TRUE] \in Boundary
           /\ [b EXCEPT !.issued = TRUE].pred = b.pred
           /\ [b EXCEPT !.asked = TRUE] \in Boundary
           /\ [b EXCEPT !.asked = TRUE].pred = b.pred
           /\ [b EXCEPT !.pred = r] \in Boundary
           /\ [b EXCEPT !.pred = r].pred = r
           /\ [b EXCEPT !.safe = TRUE, !.closed = TRUE] \in Boundary
           /\ [b EXCEPT !.safe = TRUE, !.closed = TRUE].pred = b.pred
<1>0. Gens \subseteq GenOrNone  BY SMTT(30), NAssumption DEF Gens, GenOrNone
<1>1. Safe(b) \in Boundary /\ Safe(b).pred = b.pred
  BY DEF Safe, Boundary
<1>2. Unsafe(b, g, r) \in Boundary /\ Unsafe(b, g, r).pred = b.pred
  BY <1>0 DEF Unsafe, Boundary
<1>3. [b EXCEPT !.issued = TRUE] \in Boundary /\ [b EXCEPT !.issued = TRUE].pred = b.pred
  BY DEF Boundary
<1>4. [b EXCEPT !.asked = TRUE] \in Boundary /\ [b EXCEPT !.asked = TRUE].pred = b.pred
  BY DEF Boundary
<1>5. [b EXCEPT !.pred = r] \in Boundary /\ [b EXCEPT !.pred = r].pred = r
  BY DEF Boundary
<1>6. /\ [b EXCEPT !.safe = TRUE, !.closed = TRUE] \in Boundary
      /\ [b EXCEPT !.safe = TRUE, !.closed = TRUE].pred = b.pred
  BY DEF Boundary
<1> QED  BY <1>1, <1>2, <1>3, <1>4, <1>5, <1>6

\* generationUnsafeRoot names a generation or none.
LEMMA RootType ==
    ASSUME bnd \in [Gens -> Boundary], NEW g \in Gens
    PROVE  UnsafeRoot(g) \in GenOrNone
  BY SMTT(30), NAssumption DEF UnsafeRoot, Boundary, GenOrNone, Gens, NoGen

\* Starting a watcher or the release watcher keeps the record of both.
LEMMA ObserverTypes ==
    ASSUME NEW o \in Observers, NEW g \in Gens, NEW r \in GenOrNone
    PROVE  /\ Released(o) \in Observers
           /\ Released([o EXCEPT !.watch = "spent"]) \in Observers
           /\ ObservePredecessor(o, g, r) \in Observers
           /\ ObserveRuntime(o) \in Observers
           /\ [o EXCEPT !.release = "spent"] \in Observers
<1>1. Released(o) \in Observers  BY DEF Released, Spawned, Observers
<1>2. Released([o EXCEPT !.watch = "spent"]) \in Observers  BY DEF Released, Spawned, Observers
<1>3. ObservePredecessor(o, g, r) \in Observers  BY DEF ObservePredecessor, Spawned, Observers
<1>4. ObserveRuntime(o) \in Observers  BY DEF ObserveRuntime, Spawned, Observers
<1>5. [o EXCEPT !.release = "spent"] \in Observers  BY DEF Observers
<1> QED  BY <1>1, <1>2, <1>3, <1>4, <1>5

\* The updates of a runtime turn binding keep its type: admission,
\* beginRuntimeSend, completeRuntimeSend, the cleanup and the terminal.
LEMMA TurnExcept ==
    ASSUME NEW t \in Turn, NEW s \in GenOrNone
    PROVE  /\ Finished(t) \in Turn
           /\ [Finished(t) EXCEPT !.cut = FALSE] \in Turn
           /\ \A a \in {"bound", "refused"} : [t EXCEPT !.sess = s, !.at = a] \in Turn
           /\ Finished([t EXCEPT !.at = "abandoned", !.decided = TRUE]) \in Turn
           /\ [t EXCEPT !.at = "sending", !.decided = TRUE, !.started = TRUE] \in Turn
           /\ [t EXCEPT !.at = "sent", !.returned = TRUE] \in Turn
           /\ [t EXCEPT !.at = "failed", !.returned = TRUE, !.err = TRUE] \in Turn
           /\ Finished([t EXCEPT !.at = "cleaned"]) \in Turn
           /\ \A a \in {"failing", "cleanup", "cleaned"} : [t EXCEPT !.at = a] \in Turn
<1>0. ASSUME NEW u \in Turn PROVE Finished(u) \in Turn
  <2>1. Open(u) \in BOOLEAN  BY DEF Open
  <2>2. ASSUME NEW b \in BOOLEAN PROVE [u EXCEPT !.drained = TRUE, !.cut = b] \in Turn  BY DEF Turn
  <2> QED  BY <2>1, <2>2 DEF Finished
<1>1. Finished(t) \in Turn  BY <1>0
<1>2. \A a \in {"bound", "refused"} : [t EXCEPT !.sess = s, !.at = a] \in Turn  BY DEF Turn
<1>3. Finished([t EXCEPT !.at = "abandoned", !.decided = TRUE]) \in Turn
  <2>1. [t EXCEPT !.at = "abandoned", !.decided = TRUE] \in Turn  BY DEF Turn
  <2> QED  BY <1>0, <2>1
<1>4. [t EXCEPT !.at = "sending", !.decided = TRUE, !.started = TRUE] \in Turn  BY DEF Turn
<1>5. [t EXCEPT !.at = "sent", !.returned = TRUE] \in Turn  BY DEF Turn
<1>6. [t EXCEPT !.at = "failed", !.returned = TRUE, !.err = TRUE] \in Turn  BY DEF Turn
<1>7. Finished([t EXCEPT !.at = "cleaned"]) \in Turn
  <2>1. [t EXCEPT !.at = "cleaned"] \in Turn  BY DEF Turn
  <2> QED  BY <1>0, <2>1
<1>8. [Finished(t) EXCEPT !.cut = FALSE] \in Turn  BY <1>1 DEF Turn
<1>9. \A a \in {"failing", "cleanup", "cleaned"} : [t EXCEPT !.at = a] \in Turn  BY DEF Turn
<1> QED  BY <1>1, <1>2, <1>3, <1>4, <1>5, <1>6, <1>7, <1>8, <1>9

\* finishClaimedCancellation moves on without a new answer.
LEMMA WorkerMoves ==
    ASSUME NEW w \in Worker, NEW a \in WorkerAt
    PROVE  /\ [w EXCEPT !.at = a] \in Worker
           /\ [w EXCEPT !.at = a].at = a
           /\ [w EXCEPT !.at = a].predSafe = w.predSafe
           /\ [w EXCEPT !.at = a].pred = w.pred
  BY DEF Worker, WorkerAt

\* finishClaimedCancellation learns its predecessor's answer.
LEMMA WorkerAnswered ==
    ASSUME NEW w \in Worker, NEW b \in BOOLEAN
    PROVE  /\ Answered(w, b) \in Worker
           /\ Answered(w, b).at = "turn"
           /\ Answered(w, b).predSafe = b
           /\ Answered(w, b).pred = w.pred
  BY DEF Answered, Worker, WorkerAt

\* finishClaimedCancellation learns how its own turn ended.
LEMMA WorkerJudged ==
    ASSUME NEW w \in Worker, NEW b \in BOOLEAN
    PROVE  /\ Judged(w, b) \in Worker
           /\ Judged(w, b).at = "decide"
           /\ Judged(w, b).predSafe = w.predSafe
           /\ Judged(w, b).pred = w.pred
  BY DEF Judged, Worker, WorkerAt

\* A step of one worker that leaves the goroutines alone.
LEMMA WorkerStep ==
    ASSUME TypeOK, NEW g \in Gens, NEW w \in Worker,
           cw' = [cw EXCEPT ![g] = w], pc' = pc, prev' = prev,
           w.at # "none",
           w.at \in {"done", "issued", "read"} \/ ~w.predSafe => w.pred \in Gens
    PROVE  cw' \in [Gens -> Worker] /\ PredecessorNamed'
<1>1. cw' \in [Gens -> Worker]  BY DEF TypeOK
<1>2. \A h \in Gens : cw'[h] = IF h = g THEN w ELSE cw[h]  BY DEF TypeOK
<1>3. PredecessorNamed'  BY SMTT(30), <1>2 DEF TypeOK, PredecessorNamed
<1> QED  BY <1>1, <1>3

\* claimGenerationCancellationLocked on any set of generations: the types
\* hold, the links stay, and a fresh worker has heard nothing yet.
LEMMA ClaimTypes ==
    ASSUME TypeOK, NEW S, NEW head \in GenOrNone \cup {ShutdownClaim}
    PROVE  /\ ClaimBoundary(S) \in [Gens -> Boundary]
           /\ \A g \in Gens : ClaimBoundary(S)[g].pred = bnd[g].pred
           /\ ClaimWorker(S, head) \in [Gens -> Worker]
           /\ \A g \in Gens : g \in Claimed(S) =>
                  /\ ClaimWorker(S, head)[g].at = "claimed"
                  /\ ClaimWorker(S, head)[g].predSafe
           /\ \A g \in Gens : g \notin Claimed(S) => ClaimWorker(S, head)[g] = cw[g]
           /\ ClaimTurn(S) \in [Gens -> Turn]
<1>1. ASSUME NEW g \in Gens
      PROVE  /\ ClaimBoundary(S)[g] \in Boundary
             /\ ClaimBoundary(S)[g].pred = bnd[g].pred
  BY BoundaryExcept DEF ClaimBoundary, TypeOK
<1>2. ASSUME NEW g \in Gens
      PROVE  /\ ClaimWorker(S, head)[g] \in Worker
             /\ g \in Claimed(S) => /\ ClaimWorker(S, head)[g].at = "claimed"
                                    /\ ClaimWorker(S, head)[g].predSafe
  <2>1. Bound(g) \in BOOLEAN  BY DEF Bound
  <2>2. cw[g] \in Worker /\ bnd[g].pred \in GenOrNone /\ turn[g].started \in BOOLEAN
    BY DEF TypeOK, Boundary, Turn
  <2>3. ASSUME NEW b \in BOOLEAN
        PROVE  LET w == [cw[g] EXCEPT !.at = "claimed", !.head = head, !.pred = bnd[g].pred,
                                      !.bind = b, !.started = turn[g].started]
               IN  w \in Worker /\ w.at = "claimed" /\ w.predSafe = cw[g].predSafe
    BY <2>2 DEF Worker, WorkerAt
  <2>4. g \in Claimed(S) => cw[g].predSafe  BY DEF Claimed, TypeOK, PredecessorNamed
  <2> QED  BY <2>1, <2>2, <2>3, <2>4 DEF ClaimWorker
<1>3. ASSUME NEW g \in Gens PROVE ClaimTurn(S)[g] \in Turn
  <2>1. turn[g] \in Turn  BY DEF TypeOK
  <2>2. [turn[g] EXCEPT !.decided = TRUE] \in Turn  BY <2>1 DEF Turn
  <2> QED  BY <2>1, <2>2 DEF ClaimTurn
<1> QED  BY <1>1, <1>2, <1>3 DEF ClaimBoundary, ClaimWorker, ClaimTurn, Claimed

-----------------------------------------------------------------------------
(* One lemma per group of actions. *)

\* launchGeneration and the wakes keep the types.
LEMMA AdmissionType ==
    ASSUME TypeOK, NEW g \in Gens, Admission(g)
    PROVE  TypeOK'
<1>0. Gens \subseteq GenOrNone /\ NoGen \in GenOrNone  BY SMTT(30), NAssumption DEF Gens, GenOrNone, NoGen
<1>1. CASE Launch(g)
  <2>1. bnd' \in [Gens -> Boundary]
    BY <1>0, <1>1, BoundaryExcept DEF TypeOK, Launch, Register, NoGen
  <2>2. PredecessorNamed'
    BY SMTT(30), <1>0, <1>1 DEF TypeOK, PredecessorNamed, Launch, Register, NoGen, GenOrNone, Gens
  <2> QED  BY <1>0, <1>1, <2>1, <2>2 DEF TypeOK, Launch, Register, Phases, turnVars, NoGen
<1>2. CASE Wake(g)
  <2>1. bnd' \in [Gens -> Boundary]
    BY <1>0, <1>2, BoundaryExcept DEF TypeOK, Wake, Register, NoGen
  <2>2. PredecessorNamed'
    BY <1>0, <1>2 DEF TypeOK, PredecessorNamed, Wake, Register, NoGen, GenOrNone, Gens
  <2> QED  BY <1>0, <1>2, <2>1, <2>2 DEF TypeOK, Wake, Register, Phases, turnVars, NoGen
<1>3. CASE WakeFails(g)
  <2>1. bnd' \in [Gens -> Boundary]
    BY <1>0, <1>3, BoundaryExcept DEF TypeOK, WakeFails, Register, NoGen
  <2>2. PredecessorNamed'
    BY <1>0, <1>3 DEF TypeOK, PredecessorNamed, WakeFails, Register, NoGen, GenOrNone, Gens
  <2> QED  BY <1>0, <1>3, <2>1, <2>2 DEF TypeOK, WakeFails, Register, Phases, turnVars, NoGen
<1> QED  BY <1>1, <1>2, <1>3 DEF Admission

\* Every step of a generation goroutine (waitForPredecessor, runGeneration,
\* deregisterGeneration) keeps the types.
LEMMA GoroutineType ==
    ASSUME TypeOK, NEW g \in Gens, Goroutine(g)
    PROVE  TypeOK'
<1>0. Gens \subseteq GenOrNone /\ NoGen \in GenOrNone  BY SMTT(30), NAssumption DEF Gens, GenOrNone, NoGen
<1>1. CASE PredecessorDone(g)
  <2>1. PredecessorNamed'
    BY <1>0, <1>1 DEF TypeOK, PredecessorNamed, PredecessorDone, Goto
  <2> QED  BY <1>0, <1>1, <2>1 DEF TypeOK, PredecessorDone, Goto, Phases, turnVars
<1>2. CASE PredecessorIssued(g)
  <2>1. PredecessorNamed'
    BY <1>0, <1>2 DEF TypeOK, PredecessorNamed, PredecessorIssued, Goto
  <2> QED  BY <1>0, <1>2, <2>1 DEF TypeOK, PredecessorIssued, Goto, Phases, turnVars
<1>3. CASE WaitAbandoned(g)
  <2>1. PredecessorNamed'
    BY <1>0, <1>3 DEF TypeOK, PredecessorNamed, WaitAbandoned, Goto
  <2> QED  BY <1>0, <1>3, <2>1 DEF TypeOK, WaitAbandoned, Goto, Phases, turnVars
<1>4. CASE ReadBoundary(g)
  <2>1. PredecessorNamed'
    BY <1>0, <1>4 DEF TypeOK, PredecessorNamed, ReadBoundary, Goto
  <2> QED  BY <1>0, <1>4, <2>1 DEF TypeOK, ReadBoundary, Goto, Phases, turnVars
<1>5. CASE Refused(g)
  <2>1. PredecessorNamed'
    BY <1>0, <1>5 DEF TypeOK, PredecessorNamed, Refused, Goto
  <2> QED  BY <1>0, <1>5, <2>1 DEF TypeOK, Refused, Goto, Phases, turnVars
<1>6. CASE RetainRoot(g)
  <2>0. UnsafeRoot(prev[g]) \in GenOrNone  BY <1>6, RootType DEF TypeOK, PredecessorNamed, RetainRoot
  <2>1. bnd' \in [Gens -> Boundary]  BY <1>6, <2>0, BoundaryExcept DEF TypeOK, RetainRoot
  <2>2. obs' \in [Gens -> Observers]  BY <1>6, <2>0, ObserverTypes DEF TypeOK, RetainRoot
  <2>3. PredecessorNamed'  BY <1>6 DEF TypeOK, PredecessorNamed, RetainRoot, Goto
  <2> QED  BY <1>0, <1>6, <2>1, <2>2, <2>3 DEF TypeOK, RetainRoot, Goto, Phases, turnVars
<1>7. CASE HistoryFails(g)
  <2>1. PredecessorNamed'
    BY <1>0, <1>7 DEF TypeOK, PredecessorNamed, HistoryFails, Goto
  <2> QED  BY <1>0, <1>7, <2>1 DEF TypeOK, HistoryFails, Goto, Phases, turnVars
<1>8. CASE StartRun(g)
  <2>1. bnd' \in [Gens -> Boundary]
    BY <1>0, <1>8, BoundaryExcept DEF TypeOK, StartRun, NoGen
  <2>2. PredecessorNamed'
    BY <1>0, <1>8 DEF TypeOK, PredecessorNamed, StartRun, Goto, NoGen, GenOrNone, Gens
  <2> QED  BY <1>0, <1>8, <2>1, <2>2 DEF TypeOK, StartRun, Goto, Phases, turnVars, NoGen
<1>9. CASE RunEnds(g)
  <2>1. PredecessorNamed'
    BY <1>0, <1>9 DEF TypeOK, PredecessorNamed, RunEnds, Goto
  <2> QED  BY <1>0, <1>9, <2>1 DEF TypeOK, RunEnds, Goto, Phases, turnVars
<1>10. CASE RunStalls(g)
  <2>1. PredecessorNamed'
    BY <1>0, <1>10 DEF TypeOK, PredecessorNamed, RunStalls, Goto
  <2> QED  BY <1>0, <1>10, <2>1 DEF TypeOK, RunStalls, Goto, Phases, turnVars
<1>11. CASE Complete(g)
  <2>1. bnd' \in [Gens -> Boundary]
    BY <1>0, <1>11, BoundaryExcept DEF TypeOK, Complete
  <2>2. PredecessorNamed'
    BY <1>0, <1>11 DEF TypeOK, PredecessorNamed, Complete, Goto
  <2> QED  BY <1>0, <1>11, <2>1, <2>2 DEF TypeOK, Complete, Goto, Phases, turnVars
<1>12. CASE SendUnsettled(g)
  <2> DEFINE a == IF Down THEN "lost" ELSE "turn"
             w == ClaimWorker({g}, g)
  <2>0. w \in [Gens -> Worker] /\ \A h \in Gens : h # g => w[h] = cw[h]
    BY SMTT(30), <1>0, ClaimTypes DEF Claimed
  <2>1. /\ [w[g] EXCEPT !.at = a] \in Worker
        /\ [w[g] EXCEPT !.at = a].at = a
        /\ [w[g] EXCEPT !.at = a].predSafe = w[g].predSafe
    <3>1. w[g] \in Worker /\ a \in WorkerAt  BY <2>0 DEF WorkerAt
    <3> HIDE DEF w, a
    <3> QED  BY <3>1, WorkerMoves
  <2>2. cw[g].at = "none" => w[g].predSafe
    <3>1. g \in Claimed({g}) => w[g].predSafe  BY <1>0, ClaimTypes
    <3>2. g \notin Claimed({g}) => w[g] = cw[g]  BY SMTT(30), <1>0, ClaimTypes
    <3>3. cw[g].at = "none" => cw[g].predSafe  BY DEF TypeOK, PredecessorNamed
    <3> QED  BY <3>1, <3>2, <3>3
  <2>3. \/ cw' = cw
        \/ cw[g].at = "none" /\ cw' = [w EXCEPT ![g] = [w[g] EXCEPT !.at = a]]
    BY <1>12 DEF SendUnsettled
  <2>4. cw' \in [Gens -> Worker]  BY <2>0, <2>1, <2>3 DEF TypeOK
  <2>5. \A h \in Gens : \/ cw'[h] = cw[h]
                        \/ cw'[h].at \in {"lost", "turn"} /\ cw'[h].predSafe
    BY <2>0, <2>1, <2>2, <2>3
  <2>6. PredecessorNamed'
    BY <1>12, <2>5 DEF TypeOK, PredecessorNamed, SendUnsettled, Goto
  <2>7. bnd' \in [Gens -> Boundary] /\ turn' \in [Gens -> Turn]
    BY <1>0, <1>12, ClaimTypes DEF SendUnsettled
  <2> QED  BY <1>0, <1>12, <2>4, <2>6, <2>7 DEF TypeOK, SendUnsettled, Goto, Phases
<1>13. CASE CloseDone(g)
  <2>1. PredecessorNamed'
    BY <1>0, <1>13 DEF TypeOK, PredecessorNamed, CloseDone, Goto
  <2> QED  BY <1>0, <1>13, <2>1 DEF TypeOK, CloseDone, Goto, Phases, turnVars
<1>14. CASE Deregister(g)
  <2>1. PredecessorNamed'
    BY <1>0, <1>14 DEF TypeOK, PredecessorNamed, Deregister, Goto, NoGen, GenOrNone, Gens
  <2> QED  BY <1>0, <1>14, <2>1 DEF TypeOK, Deregister, Goto, Phases, turnVars, NoGen
<1>15. CASE DeregisterIssued(g)
  <2>1. PredecessorNamed'
    BY <1>0, <1>15 DEF TypeOK, PredecessorNamed, DeregisterIssued, Goto, NoGen, GenOrNone, Gens
  <2> QED  BY <1>0, <1>15, <2>1 DEF TypeOK, DeregisterIssued, Goto, Phases, turnVars, NoGen
<1> QED  BY <1>1, <1>2, <1>3, <1>4, <1>5, <1>6, <1>7, <1>8, <1>9, <1>10, <1>11, <1>12, <1>13, <1>14, <1>15 DEF Goroutine

\* Every step of driveBootSession and its send goroutine keeps the types.
LEMMA DriveType ==
    ASSUME TypeOK, NEW g \in Gens, Drive(g)
    PROVE  TypeOK'
<1>0. Gens \subseteq GenOrNone /\ NoGen \in GenOrNone  BY SMTT(30), NAssumption DEF Gens, GenOrNone, NoGen
<1>1. CASE AdmitTurn(g)
  <2>1. turn' \in [Gens -> Turn]
    BY <1>0, <1>1, TurnExcept DEF TypeOK, AdmitTurn
  <2>2. PredecessorNamed'
    BY <1>1 DEF TypeOK, PredecessorNamed, AdmitTurn, genVars
  <2> QED  BY <1>0, <1>1, <2>1, <2>2 DEF TypeOK, AdmitTurn, genVars
<1>2. CASE BeginSend(g)
  <2>1. turn' \in [Gens -> Turn]
    <3>1. /\ Finished([turn[g] EXCEPT !.at = "abandoned", !.decided = TRUE]) \in Turn
          /\ [turn[g] EXCEPT !.at = "sending", !.decided = TRUE, !.started = TRUE] \in Turn
      BY <1>0, TurnExcept DEF TypeOK
    <3> QED  BY <1>2, <3>1 DEF TypeOK, BeginSend
  <2>2. PredecessorNamed'  BY <1>2 DEF TypeOK, PredecessorNamed, BeginSend, genVars
  <2> QED  BY <1>0, <1>2, <2>1, <2>2 DEF TypeOK, BeginSend, genVars, NoGen, Retired
<1>3. CASE SendReturns(g)
  <2>1. turn' \in [Gens -> Turn]
    BY <1>0, <1>3, TurnExcept DEF TypeOK, SendReturns
  <2>2. PredecessorNamed'
    BY <1>3 DEF TypeOK, PredecessorNamed, SendReturns, genVars
  <2> QED  BY <1>0, <1>3, <2>1, <2>2 DEF TypeOK, SendReturns, genVars
<1>4. CASE SendFails(g)
  <2>1. bnd' \in [Gens -> Boundary]
    BY <1>0, <1>4, BoundaryExcept DEF TypeOK, SendFails
  <2>2. obs' \in [Gens -> Observers]
    BY <1>0, <1>4, ObserverTypes DEF TypeOK, SendFails
  <2>3. turn' \in [Gens -> Turn]
    BY <1>0, <1>4, TurnExcept DEF TypeOK, SendFails
  <2>4. PredecessorNamed'
    BY <1>4 DEF TypeOK, PredecessorNamed, SendFails, genVars
  <2> QED  BY <1>0, <1>4, <2>1, <2>2, <2>3, <2>4 DEF TypeOK, SendFails, genVars
<1>5. CASE FailureReturned(g)
  <2>1. turn' \in [Gens -> Turn]
    BY <1>0, <1>5, TurnExcept DEF TypeOK, FailureReturned
  <2>2. PredecessorNamed'
    BY <1>5 DEF TypeOK, PredecessorNamed, FailureReturned, genVars
  <2> QED  BY <1>0, <1>5, <2>1, <2>2 DEF TypeOK, FailureReturned, genVars
<1>6. CASE CleanupStop(g)
  <2>1. turn' \in [Gens -> Turn]
    BY <1>0, <1>6, TurnExcept DEF TypeOK, CleanupStop
  <2>2. PredecessorNamed'
    BY <1>6 DEF TypeOK, PredecessorNamed, CleanupStop, genVars
  <2> QED  BY <1>0, <1>6, <2>1, <2>2 DEF TypeOK, CleanupStop, genVars, NoGen, Retired
<1>7. CASE CleanupTerminal(g)
  <2>1. bnd' \in [Gens -> Boundary]
    BY <1>0, <1>7, BoundaryExcept DEF TypeOK, CleanupTerminal
  <2>2. obs' \in [Gens -> Observers]
    BY <1>0, <1>7, ObserverTypes DEF TypeOK, CleanupTerminal
  <2>3. turn' \in [Gens -> Turn]
    BY <1>0, <1>7, TurnExcept DEF TypeOK, CleanupTerminal
  <2>4. PredecessorNamed'
    BY <1>7 DEF TypeOK, PredecessorNamed, CleanupTerminal, genVars
  <2> QED  BY <1>0, <1>7, <2>1, <2>2, <2>3, <2>4 DEF TypeOK, CleanupTerminal, genVars, NoGen, Retired
<1>8. CASE CleanupTimesOut(g)
  <2>1. turn' \in [Gens -> Turn]
    BY <1>0, <1>8, TurnExcept DEF TypeOK, CleanupTimesOut
  <2>2. PredecessorNamed'
    BY <1>8 DEF TypeOK, PredecessorNamed, CleanupTimesOut, genVars
  <2> QED  BY <1>0, <1>8, <2>1, <2>2 DEF TypeOK, CleanupTimesOut, genVars
<1> QED  BY <1>1, <1>2, <1>3, <1>4, <1>5, <1>6, <1>7, <1>8 DEF Drive

\* The steps of the runtime process keep the types.
LEMMA RuntimeType ==
    ASSUME TypeOK, NEW g \in Gens, Runtime(g)
    PROVE  TypeOK'
<1>0. Gens \subseteq GenOrNone /\ NoGen \in GenOrNone  BY SMTT(30), NAssumption DEF Gens, GenOrNone, NoGen
<1>1. CASE TurnTerminal(g)
  <2>1. turn' \in [Gens -> Turn]
    BY <1>0, <1>1, TurnExcept DEF TypeOK, TurnTerminal
  <2>2. PredecessorNamed'
    BY <1>1 DEF TypeOK, PredecessorNamed, TurnTerminal, genVars
  <2> QED  BY <1>0, <1>1, <2>1, <2>2 DEF TypeOK, TurnTerminal, genVars, NoGen, Retired
<1>2. CASE SessionExits(g)
  <2>1. PredecessorNamed'
    BY <1>2 DEF TypeOK, PredecessorNamed, SessionExits, genVars
  <2> QED  BY <1>0, <1>2, <2>1 DEF TypeOK, SessionExits, genVars
<1> QED  BY <1>1, <1>2 DEF Runtime

\* Every step of finishClaimedCancellation keeps the types.
LEMMA CancelWorkerType ==
    ASSUME TypeOK, NEW g \in Gens, CancelWorker(g)
    PROVE  TypeOK'
<1>0. Gens \subseteq GenOrNone /\ NoGen \in GenOrNone  BY SMTT(30), NAssumption DEF Gens, GenOrNone, NoGen
<1>a. /\ cw[g] \in Worker
      /\ cw[g].pred \in GenOrNone
      /\ cw[g].predSafe \in BOOLEAN
      /\ cw[g].at \in {"done", "issued", "read"} \/ ~cw[g].predSafe => cw[g].pred \in Gens
  BY DEF TypeOK, PredecessorNamed, Worker
<1>1. CASE WorkerStarts(g)
  <2> DEFINE x == IF Down THEN "lost" ELSE IF cw[g].pred = NoGen THEN "turn" ELSE "done"
             w == [cw[g] EXCEPT !.at = x]
  <2>0. /\ x \in WorkerAt \ {"none"}
        /\ x \in {"done", "issued", "read"} => cw[g].pred \in Gens
    BY SMTT(30), <1>a DEF WorkerAt, Gens, GenOrNone, NoGen
  <2>1. /\ w \in Worker
        /\ w.at # "none"
        /\ w.at \in {"done", "issued", "read"} \/ ~w.predSafe => w.pred \in Gens
    <3> HIDE DEF x
    <3> QED  BY <1>a, <2>0, WorkerMoves
  <2>2. cw' = [cw EXCEPT ![g] = w] /\ pc' = pc /\ prev' = prev
    BY <1>1 DEF WorkerStarts
  <2>3. cw' \in [Gens -> Worker] /\ PredecessorNamed'  BY <2>1, <2>2, WorkerStep
  <2> QED  BY <1>0, <1>1, <2>3 DEF TypeOK, WorkerStarts, turnVars, NoGen
<1>2. CASE WorkerPredDone(g)
  <2> DEFINE x == IF bnd[cw[g].pred].asked THEN "issued" ELSE "read"
             w == [cw[g] EXCEPT !.at = x]
  <2>0. x \in WorkerAt \ {"none"} /\ cw[g].pred \in Gens
    BY <1>a, <1>2 DEF WorkerAt, WorkerPredDone
  <2>1. /\ w \in Worker
        /\ w.at # "none"
        /\ w.at \in {"done", "issued", "read"} \/ ~w.predSafe => w.pred \in Gens
    <3> HIDE DEF x
    <3> QED  BY <1>a, <2>0, WorkerMoves
  <2>2. cw' = [cw EXCEPT ![g] = w] /\ pc' = pc /\ prev' = prev
    BY <1>2 DEF WorkerPredDone, genVars
  <2>3. cw' \in [Gens -> Worker] /\ PredecessorNamed'  BY <2>1, <2>2, WorkerStep
  <2> QED  BY <1>0, <1>2, <2>3 DEF TypeOK, WorkerPredDone, genVars, turnVars
<1>3. CASE WorkerPredIssued(g)
  <2> DEFINE w == [cw[g] EXCEPT !.at = "read"]
  <2>1. /\ w \in Worker
        /\ w.at # "none"
        /\ w.at \in {"done", "issued", "read"} \/ ~w.predSafe => w.pred \in Gens
    BY <1>a, <1>3, WorkerMoves DEF WorkerPredIssued, WorkerAt
  <2>2. cw' = [cw EXCEPT ![g] = w] /\ pc' = pc /\ prev' = prev
    BY <1>3 DEF WorkerPredIssued, genVars
  <2>3. cw' \in [Gens -> Worker] /\ PredecessorNamed'  BY <2>1, <2>2, WorkerStep
  <2> QED  BY <1>0, <1>3, <2>3 DEF TypeOK, WorkerPredIssued, genVars, turnVars
<1>4. CASE WorkerPredRead(g)
  <2> DEFINE w == Answered(cw[g], bnd[cw[g].pred].safe)
  <2>1. /\ w \in Worker
        /\ w.at # "none"
        /\ w.at \in {"done", "issued", "read"} \/ ~w.predSafe => w.pred \in Gens
    <3>1. cw[g].pred \in Gens /\ bnd[cw[g].pred].safe \in BOOLEAN
      BY <1>a, <1>4 DEF WorkerPredRead, TypeOK, Boundary
    <3> QED  BY <1>a, <3>1, WorkerAnswered
  <2>2. cw' = [cw EXCEPT ![g] = w] /\ pc' = pc /\ prev' = prev
    BY <1>4 DEF WorkerPredRead, genVars
  <2>3. cw' \in [Gens -> Worker] /\ PredecessorNamed'  BY <2>1, <2>2, WorkerStep
  <2> QED  BY <1>0, <1>4, <2>3 DEF TypeOK, WorkerPredRead, genVars, turnVars
<1>5. CASE WorkerPredExpires(g)
  <2> DEFINE w == Answered(cw[g], FALSE)
  <2>1. /\ w \in Worker
        /\ w.at # "none"
        /\ w.at \in {"done", "issued", "read"} \/ ~w.predSafe => w.pred \in Gens
    BY <1>a, <1>5, WorkerAnswered DEF WorkerPredExpires
  <2>2. cw' = [cw EXCEPT ![g] = w] /\ pc' = pc /\ prev' = prev
    BY <1>5 DEF WorkerPredExpires, genVars
  <2>3. cw' \in [Gens -> Worker] /\ PredecessorNamed'  BY <2>1, <2>2, WorkerStep
  <2> QED  BY <1>0, <1>5, <2>3 DEF TypeOK, WorkerPredExpires, genVars, turnVars
<1>6. CASE ReleaseUnsent(g)
  <2>0. PICK ok \in {TRUE, ~Down} : cw' = [cw EXCEPT ![g] = Judged(@, ok)]
    BY <1>6 DEF ReleaseUnsent
  <2>00. ok \in BOOLEAN  BY <2>0 DEF Down
  <2> DEFINE w == Judged(cw[g], ok)
  <2>1. /\ w \in Worker
        /\ w.at # "none"
        /\ w.at \in {"done", "issued", "read"} \/ ~w.predSafe => w.pred \in Gens
    BY <1>a, <1>6, <2>00, WorkerJudged DEF ReleaseUnsent
  <2>2. cw' = [cw EXCEPT ![g] = w] /\ pc' = pc /\ prev' = prev
    BY <1>6, <2>0 DEF ReleaseUnsent, genVars
  <2>3. cw' \in [Gens -> Worker] /\ PredecessorNamed'  BY <2>1, <2>2, WorkerStep
  <2>4. turn' \in [Gens -> Turn]  BY <1>0, <1>6, TurnExcept DEF TypeOK, ReleaseUnsent
  <2> QED  BY <1>0, <1>6, <2>3, <2>4 DEF TypeOK, ReleaseUnsent, genVars, NoGen, Retired
<1>7. CASE CancelTurn(g)
  <2> DEFINE w == [cw[g] EXCEPT !.at = "drain"]
  <2>1. /\ w \in Worker
        /\ w.at # "none"
        /\ w.at \in {"done", "issued", "read"} \/ ~w.predSafe => w.pred \in Gens
    BY <1>a, <1>7, WorkerMoves DEF CancelTurn, WorkerAt
  <2>2. cw' = [cw EXCEPT ![g] = w] /\ pc' = pc /\ prev' = prev
    BY <1>7 DEF CancelTurn, genVars
  <2>3. cw' \in [Gens -> Worker] /\ PredecessorNamed'  BY <2>1, <2>2, WorkerStep
  <2> QED  BY <1>0, <1>7, <2>3 DEF TypeOK, CancelTurn, genVars, turnVars, Bystanders
<1>8. CASE TurnDrained(g)
  <2> DEFINE w == Judged(cw[g], TRUE)
  <2>1. /\ w \in Worker
        /\ w.at # "none"
        /\ w.at \in {"done", "issued", "read"} \/ ~w.predSafe => w.pred \in Gens
    BY <1>a, <1>8, WorkerJudged DEF TurnDrained
  <2>2. cw' = [cw EXCEPT ![g] = w] /\ pc' = pc /\ prev' = prev
    BY <1>8 DEF TurnDrained, genVars
  <2>3. cw' \in [Gens -> Worker] /\ PredecessorNamed'  BY <2>1, <2>2, WorkerStep
  <2> QED  BY <1>0, <1>8, <2>3 DEF TypeOK, TurnDrained, genVars, turnVars
<1>9. CASE StopRuntime(g)
  <2> DEFINE w == IF Down THEN Judged(cw[g], FALSE) ELSE [cw[g] EXCEPT !.at = "stopWait"]
  <2>1. /\ w \in Worker
        /\ w.at # "none"
        /\ w.at \in {"done", "issued", "read"} \/ ~w.predSafe => w.pred \in Gens
    <3> DEFINE v == [cw[g] EXCEPT !.at = "stopWait"]
    <3>1. /\ Judged(cw[g], FALSE) \in Worker
          /\ Judged(cw[g], FALSE).at = "decide"
          /\ Judged(cw[g], FALSE).predSafe = cw[g].predSafe
          /\ Judged(cw[g], FALSE).pred = cw[g].pred
      BY <1>a, WorkerJudged
    <3>2. v \in Worker /\ v.at = "stopWait" /\ v.predSafe = cw[g].predSafe /\ v.pred = cw[g].pred
      BY <1>a, WorkerMoves DEF WorkerAt
    <3>3. w = IF Down THEN Judged(cw[g], FALSE) ELSE v  OBVIOUS
    <3> HIDE DEF v, w
    <3> QED  BY <1>a, <3>1, <3>2, <3>3
  <2>2. cw' = [cw EXCEPT ![g] = w] /\ pc' = pc /\ prev' = prev
    BY <1>9 DEF StopRuntime, genVars
  <2>3. cw' \in [Gens -> Worker] /\ PredecessorNamed'  BY <2>1, <2>2, WorkerStep
  <2> QED  BY <1>0, <1>9, <2>3 DEF TypeOK, StopRuntime, genVars, Bystanders
<1>10. CASE RuntimeTerminal(g)
  <2> DEFINE w == Judged(cw[g], TRUE)
  <2>1. /\ w \in Worker
        /\ w.at # "none"
        /\ w.at \in {"done", "issued", "read"} \/ ~w.predSafe => w.pred \in Gens
    BY <1>a, <1>10, WorkerJudged DEF RuntimeTerminal
  <2>2. cw' = [cw EXCEPT ![g] = w] /\ pc' = pc /\ prev' = prev
    BY <1>10 DEF RuntimeTerminal, genVars
  <2>3. cw' \in [Gens -> Worker] /\ PredecessorNamed'  BY <2>1, <2>2, WorkerStep
  <2>4. turn' \in [Gens -> Turn]  BY <1>0, <1>10, TurnExcept DEF TypeOK, RuntimeTerminal
  <2> QED  BY <1>0, <1>10, <2>3, <2>4 DEF TypeOK, RuntimeTerminal, genVars, NoGen, Retired
<1>11. CASE StopExpires(g)
  <2> DEFINE w == Judged(cw[g], FALSE)
  <2>1. /\ w \in Worker
        /\ w.at # "none"
        /\ w.at \in {"done", "issued", "read"} \/ ~w.predSafe => w.pred \in Gens
    BY <1>a, <1>11, WorkerJudged DEF StopExpires
  <2>2. cw' = [cw EXCEPT ![g] = w] /\ pc' = pc /\ prev' = prev
    BY <1>11 DEF StopExpires, genVars
  <2>3. cw' \in [Gens -> Worker] /\ PredecessorNamed'  BY <2>1, <2>2, WorkerStep
  <2> QED  BY <1>0, <1>11, <2>3 DEF TypeOK, StopExpires, genVars, turnVars
<1>12. CASE Decide(g)
  <2> DEFINE w == [cw[g] EXCEPT !.at = "end"]
  <2>1. /\ w \in Worker
        /\ w.at # "none"
        /\ w.at \in {"done", "issued", "read"} \/ ~w.predSafe => w.pred \in Gens
    BY <1>a, <1>12, WorkerMoves DEF Decide, WorkerAt
  <2>2. cw' = [cw EXCEPT ![g] = w] /\ pc' = pc /\ prev' = prev
    BY <1>12 DEF Decide, genVars
  <2>3. cw' \in [Gens -> Worker] /\ PredecessorNamed'  BY <2>1, <2>2, WorkerStep
  <2> DEFINE r == IF cw[g].predSafe THEN g ELSE UnsafeRoot(cw[g].pred)
             root == IF r = NoGen THEN g ELSE r
  <2>4. root \in GenOrNone  BY <1>0, RootType DEF TypeOK, PredecessorNamed
  <2>5. bnd' \in [Gens -> Boundary]
    <3>1. /\ [Safe(bnd[g]) EXCEPT !.issued = TRUE] \in Boundary
          /\ [Unsafe(bnd[g], g, root) EXCEPT !.issued = TRUE] \in Boundary
      BY <2>4, BoundaryExcept DEF TypeOK
    <3> QED  BY <1>12, <3>1 DEF TypeOK, Decide, NoGen
  <2>6. obs' \in [Gens -> Observers]
    <3>1. /\ Released(obs[g]) \in Observers
          /\ ObserveRuntime(obs[g]) \in Observers
          /\ ObservePredecessor(obs[g], g, root) \in Observers
      BY <1>0, <2>4, ObserverTypes DEF TypeOK
    <3> QED  BY SMTT(30), <1>12, <3>1 DEF TypeOK, Decide, NoGen
  <2> QED  BY <1>0, <1>12, <2>3, <2>5, <2>6 DEF TypeOK, Decide, genVars, turnVars, NoGen
<1> QED  BY <1>1, <1>2, <1>3, <1>4, <1>5, <1>6, <1>7, <1>8, <1>9, <1>10, <1>11, <1>12 DEF CancelWorker

\* The steps of the watchers keep the types.
LEMMA WatcherType ==
    ASSUME TypeOK, NEW g \in Gens, Watcher(g)
    PROVE  TypeOK'
<1>0. Gens \subseteq GenOrNone /\ NoGen \in GenOrNone  BY SMTT(30), NAssumption DEF Gens, GenOrNone, NoGen
<1>1. CASE InheritSafe(g)
  <2>1. bnd' \in [Gens -> Boundary]
    BY <1>0, <1>1, BoundaryExcept DEF TypeOK, InheritSafe
  <2>2. obs' \in [Gens -> Observers]
    BY <1>0, <1>1, ObserverTypes DEF TypeOK, InheritSafe
  <2>3. PredecessorNamed'
    BY <1>1 DEF TypeOK, PredecessorNamed, InheritSafe, genVars
  <2> QED  BY <1>0, <1>1, <2>1, <2>2, <2>3 DEF TypeOK, InheritSafe, genVars, turnVars
<1>2. CASE RuntimeSafe(g)
  <2>1. bnd' \in [Gens -> Boundary]
    BY <1>0, <1>2, BoundaryExcept DEF TypeOK, RuntimeSafe
  <2>2. obs' \in [Gens -> Observers]
    BY <1>0, <1>2, ObserverTypes DEF TypeOK, RuntimeSafe
  <2>3. turn' \in [Gens -> Turn]
    BY <1>0, <1>2, TurnExcept DEF TypeOK, RuntimeSafe
  <2>4. PredecessorNamed'
    BY <1>2 DEF TypeOK, PredecessorNamed, RuntimeSafe, genVars
  <2> QED  BY <1>0, <1>2, <2>1, <2>2, <2>3, <2>4 DEF TypeOK, RuntimeSafe, genVars, NoGen, Retired
<1>3. CASE ReleaseSafe(g)
  <2>1. obs' \in [Gens -> Observers]
    BY <1>0, <1>3, ObserverTypes DEF TypeOK, ReleaseSafe, NoGen
  <2>2. PredecessorNamed'
    BY <1>3 DEF TypeOK, PredecessorNamed, ReleaseSafe
  <2> QED  BY <1>0, <1>3, <2>1, <2>2 DEF TypeOK, ReleaseSafe, turnVars, NoGen
<1>4. CASE WatcherEnds(g)
  <2>1. obs' \in [Gens -> Observers]
    <3>1. /\ [obs[g] EXCEPT !.watch = "spent"] \in Observers
          /\ [obs[g] EXCEPT !.release = "spent"] \in Observers
      BY DEF TypeOK, Observers
    <3> QED  BY <1>4, <3>1 DEF TypeOK, WatcherEnds
  <2>2. PredecessorNamed'  BY <1>4 DEF TypeOK, PredecessorNamed, WatcherEnds, genVars
  <2> QED  BY <1>0, <1>4, <2>1, <2>2 DEF TypeOK, WatcherEnds, genVars, turnVars
<1> QED  BY <1>1, <1>2, <1>3, <1>4 DEF Watcher

\* A claim of any set of generations, by a user stop or by shutdown.
LEMMA ClaimStep ==
    ASSUME TypeOK, NEW S, NEW head \in GenOrNone \cup {ShutdownClaim},
           bnd' = ClaimBoundary(S), cw' = ClaimWorker(S, head), turn' = ClaimTurn(S),
           pc' = pc, prev' = prev
    PROVE  /\ bnd' \in [Gens -> Boundary]
           /\ cw' \in [Gens -> Worker]
           /\ turn' \in [Gens -> Turn]
           /\ PredecessorNamed'
<1>1. /\ bnd' \in [Gens -> Boundary]
      /\ cw' \in [Gens -> Worker]
      /\ turn' \in [Gens -> Turn]
  BY ClaimTypes
<1>2. \A g \in Gens : \/ cw'[g] = cw[g]
                      \/ cw'[g].at = "claimed" /\ cw'[g].predSafe
  BY ClaimTypes
<1>3. PredecessorNamed'  BY <1>2 DEF TypeOK, PredecessorNamed
<1> QED  BY <1>1, <1>3

\* User stops keep the types.
LEMMA UserStopType ==
    ASSUME TypeOK, UserStop
    PROVE  TypeOK'
<1>0. Gens \subseteq GenOrNone /\ NoGen \in GenOrNone  BY SMTT(30), NAssumption DEF Gens, GenOrNone, NoGen
<1>1. CASE StopReads
  <2>1. PredecessorNamed'  BY <1>1 DEF TypeOK, PredecessorNamed, StopReads, genVars
  <2> QED  BY <1>1, <2>1 DEF TypeOK, StopReads, genVars, turnVars
<1>2. CASE StopClaims
  <2>1. /\ bnd' \in [Gens -> Boundary]
        /\ cw' \in [Gens -> Worker]
        /\ turn' \in [Gens -> Turn]
        /\ PredecessorNamed'
    BY <1>2, ClaimStep DEF StopClaims, genVars, TypeOK
  <2> QED  BY <1>0, <1>2, <2>1 DEF TypeOK, StopClaims, genVars
<1>3. ASSUME NEW g \in Gens, CancelOne(g) PROVE TypeOK'
  <2>1. /\ bnd' \in [Gens -> Boundary]
        /\ cw' \in [Gens -> Worker]
        /\ turn' \in [Gens -> Turn]
        /\ PredecessorNamed'
    BY <1>0, <1>3, ClaimStep DEF CancelOne, genVars
  <2> QED  BY <1>0, <1>3, <2>1 DEF TypeOK, CancelOne, genVars
<1> QED  BY <1>1, <1>2, <1>3 DEF UserStop

\* Shutdown keeps the types.
LEMMA ShutdownType ==
    ASSUME TypeOK, Shutdown
    PROVE  TypeOK'
<1>1. CASE ShutdownBegins
  <2>1. /\ bnd' \in [Gens -> Boundary]
        /\ cw' \in [Gens -> Worker]
        /\ turn' \in [Gens -> Turn]
        /\ PredecessorNamed'
    BY <1>1, ClaimStep DEF ShutdownBegins, genVars
  <2> QED  BY <1>1, <2>1 DEF TypeOK, ShutdownBegins, genVars
<1>2. CASE LifecycleCloses
  <2>1. PredecessorNamed'  BY <1>2 DEF TypeOK, PredecessorNamed, LifecycleCloses, genVars
  <2> QED  BY <1>2, <2>1 DEF TypeOK, LifecycleCloses, genVars, turnVars
<1>3. ASSUME NEW g \in Gens, Bridge(g) PROVE TypeOK'
  <2>1. PredecessorNamed'  BY <1>3 DEF TypeOK, PredecessorNamed, Bridge
  <2> QED  BY <1>3, <2>1 DEF TypeOK, Bridge, turnVars
<1> QED  BY <1>1, <1>2, <1>3 DEF Shutdown

\* The state the registry starts in is well typed.
LEMMA InitType == Init => TypeOK
<1> SUFFICES ASSUME Init PROVE TypeOK  OBVIOUS
<1>0. Gens \subseteq GenOrNone /\ NoGen \in GenOrNone  BY SMTT(30), NAssumption DEF Gens, GenOrNone, NoGen
<1>1. [pred |-> NoGen, asked |-> FALSE, issued |-> FALSE, safe |-> FALSE, retain |-> FALSE,
       closed |-> FALSE, root |-> NoGen] \in Boundary
  BY <1>0 DEF Boundary
<1>2. [watch |-> "off", on |-> NoGen, release |-> "off"] \in Observers  BY <1>0 DEF Observers
<1>3. [at |-> "none", head |-> NoGen, pred |-> NoGen, bind |-> FALSE, started |-> FALSE,
       predSafe |-> TRUE, turnSafe |-> TRUE] \in Worker
  BY <1>0 DEF Worker, WorkerAt
<1>4. [at |-> "none", sess |-> NoGen, decided |-> FALSE, started |-> FALSE, returned |-> FALSE,
       err |-> FALSE, drained |-> FALSE, cut |-> FALSE] \in Turn
  BY <1>0 DEF Turn
<1>5. PredecessorNamed  BY DEF Init, PredecessorNamed
<1>6. /\ bnd \in [Gens -> Boundary] /\ obs \in [Gens -> Observers]
      /\ cw \in [Gens -> Worker] /\ turn \in [Gens -> Turn]
  BY <1>1, <1>2, <1>3, <1>4 DEF Init
<1>7. /\ pc \in [Gens -> Phases] /\ prev \in [Gens -> GenOrNone]
      /\ done \in [Gens -> BOOLEAN] /\ ctxDone \in [Gens -> BOOLEAN]
  BY <1>0 DEF Init, Phases
<1> QED  BY <1>0, <1>5, <1>6, <1>7 DEF Init, TypeOK, NoGen

\* Every step of the registry, its runtime turns, workers, watchers and stops
\* keeps the state well typed.
LEMMA TypeStep == TypeOK /\ [Next]_vars => TypeOK'
<1> SUFFICES ASSUME TypeOK, [Next]_vars PROVE TypeOK'  OBVIOUS
<1>1. CASE UNCHANGED vars  BY <1>1 DEF TypeOK, PredecessorNamed, vars
<1>2. ASSUME NEW g \in Gens,
             Admission(g) \/ Goroutine(g) \/ Drive(g) \/ Runtime(g) \/ CancelWorker(g) \/ Watcher(g)
      PROVE  TypeOK'
  BY <1>2, AdmissionType, GoroutineType, DriveType, RuntimeType, CancelWorkerType, WatcherType
<1>3. CASE UserStop  BY <1>3, UserStopType
<1>4. CASE Shutdown  BY <1>4, ShutdownType
<1> QED  BY <1>1, <1>2, <1>3, <1>4 DEF Next

\* For every number of generations and every choice of the switches: the
\* registry's state is well typed, and neither runGeneration nor
\* finishClaimedCancellation follows a nil predecessor.
THEOREM TypeCorrect == Spec => []TypeOK
<1>1. Init => TypeOK  BY InitType
<1>2. TypeOK /\ [Next]_vars => TypeOK'  BY TypeStep
<1> QED  BY <1>1, <1>2, PTL DEF Spec
=============================================================================
