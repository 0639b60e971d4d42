------------------------ MODULE GenerationQueueProofs ------------------------
(***************************************************************************)
(* The registry's order, for every number of generations, until the        *)
(* process is down.  QueueInv is inductive together with TypeOK; mutual    *)
(* exclusion, the unbroken chain and the reach of a user stop follow from  *)
(* it, and, in a process that is never shut down, the refinement of        *)
(* TurnQueue.                                                              *)
(***************************************************************************)
EXTENDS GenerationQueueTypes

\* A leaf that names no prover goes to Zenon.
USE ZenonT(30)

\* What every step but those of the registry itself leaves alone.
Frame ==
    /\ UNCHANGED <<count, slot, pc, prev, done, life>>
    /\ \A g \in Gens : bnd'[g].pred = bnd[g].pred

\* The phases between the wait for the predecessor and the close of done.
Midway == {"issued", "read", "refused", "root", "start", "run", "drain", "close"}

\* The goroutine of g moves on within those phases.
MovesOn(g) ==
    /\ pc[g] \in Midway
    /\ \E x \in Midway : pc' = [pc EXCEPT ![g] = x]
    /\ UNCHANGED <<count, slot, prev, done, life>>
    /\ \A h \in Gens : bnd'[h].pred = bnd[h].pred

\* The links survive the claims and the verdicts on a boundary: markGenerationSafe,
\* markGenerationUnsafe and the cancellation claims never touch predecessor.
LEMMA OneBoundary ==
    ASSUME bnd \in [Gens -> Boundary], NEW g \in Gens, NEW b,
           b.pred = bnd[g].pred, bnd' = [bnd EXCEPT ![g] = b]
    PROVE  \A h \in Gens : bnd'[h].pred = bnd[h].pred
  OBVIOUS

\* The goroutine that sends the prompt touches only the turn and the verdict.
LEMMA DriveFrame ==
    ASSUME TypeOK, NEW g \in Gens, Drive(g)
    PROVE  Frame
<1>0. bnd \in [Gens -> Boundary]  BY DEF TypeOK
<1>a. bnd[g] \in Boundary /\ g \in GenOrNone  BY SMTT(30), <1>0, NAssumption DEF Gens, GenOrNone
<1>1. CASE SendFails(g)
  <2>1. Unsafe(bnd[g], g, g).pred = bnd[g].pred  BY <1>a DEF Unsafe, Boundary
  <2> QED  BY <1>0, <1>1, <2>1, OneBoundary DEF SendFails, genVars, Frame
<1>2. CASE CleanupTerminal(g)
  <2>1. Safe(bnd[g]).pred = bnd[g].pred
    BY <1>a, BoundaryExcept
  <2> QED  BY <1>0, <1>2, <2>1, OneBoundary DEF CleanupTerminal, genVars, Frame
<1>3. CASE AdmitTurn(g) \/ BeginSend(g) \/ SendReturns(g) \/ FailureReturned(g)
           \/ CleanupStop(g) \/ CleanupTimesOut(g)
  BY <1>3 DEF AdmitTurn, BeginSend, SendReturns, FailureReturned, CleanupStop,
              CleanupTimesOut, genVars, Frame
<1> QED  BY <1>1, <1>2, <1>3 DEF Drive

\* The runtime process touches nothing of the registry.
LEMMA RuntimeFrame ==
    ASSUME TypeOK, NEW g \in Gens, Runtime(g)
    PROVE  Frame
  BY DEF Runtime, TurnTerminal, SessionExits, genVars, Frame

\* finishClaimedCancellation touches only the verdict.
LEMMA CancelWorkerFrame ==
    ASSUME TypeOK, NEW g \in Gens, CancelWorker(g)
    PROVE  Frame
<1>0. bnd \in [Gens -> Boundary]  BY DEF TypeOK
<1>a. bnd[g] \in Boundary /\ g \in GenOrNone  BY SMTT(30), <1>0, NAssumption DEF Gens, GenOrNone
<1>1. CASE Decide(g)
  <2> DEFINE r == IF cw[g].predSafe THEN g ELSE UnsafeRoot(cw[g].pred)
             root == IF r = NoGen THEN g ELSE r
  <2>1. root \in GenOrNone
    BY SMTT(30), <1>0, RootType, NAssumption DEF TypeOK, PredecessorNamed, Gens, GenOrNone
  <2>2. /\ [Safe(bnd[g]) EXCEPT !.issued = TRUE].pred = bnd[g].pred
        /\ [Unsafe(bnd[g], g, root) EXCEPT !.issued = TRUE].pred = bnd[g].pred
    <3> HIDE DEF root
    <3>1. Safe(bnd[g]) \in Boundary /\ Safe(bnd[g]).pred = bnd[g].pred
      BY <1>a, BoundaryExcept
    <3>2. Unsafe(bnd[g], g, root) \in Boundary /\ Unsafe(bnd[g], g, root).pred = bnd[g].pred
      BY <1>a, <2>1 DEF Unsafe, Boundary
    <3>3. \A b \in Boundary : [b EXCEPT !.issued = TRUE].pred = b.pred
      BY <1>a, BoundaryExcept
    <3> QED  BY <3>1, <3>2, <3>3
  <2>3. \/ bnd' = [bnd EXCEPT ![g] = [Safe(bnd[g]) EXCEPT !.issued = TRUE]]
        \/ bnd' = [bnd EXCEPT ![g] = [Unsafe(bnd[g], g, root) EXCEPT !.issued = TRUE]]
    BY <1>1 DEF Decide
  <2>4. \A h \in Gens : bnd'[h].pred = bnd[h].pred
    <3> HIDE DEF root
    <3> QED  BY <1>0, <2>2, <2>3, OneBoundary
  <2> QED  BY <1>1, <2>4 DEF Decide, genVars, Frame
<1>2. CASE WorkerStarts(g) \/ WorkerPredDone(g) \/ WorkerPredIssued(g) \/ WorkerPredRead(g)
           \/ WorkerPredExpires(g) \/ ReleaseUnsent(g) \/ CancelTurn(g) \/ TurnDrained(g)
           \/ StopRuntime(g) \/ RuntimeTerminal(g) \/ StopExpires(g)
  BY <1>2 DEF WorkerStarts, WorkerPredDone, WorkerPredIssued, WorkerPredRead,
              WorkerPredExpires, ReleaseUnsent, CancelTurn, TurnDrained, StopRuntime,
              RuntimeTerminal, StopExpires, genVars, Frame
<1> QED  BY <1>1, <1>2 DEF CancelWorker

\* The watchers touch only the verdict, except that markGenerationSafe's
\* release watcher frees the slot.
LEMMA WatcherFrame ==
    ASSUME TypeOK, NEW g \in Gens, Watcher(g), ~ReleaseSafe(g)
    PROVE  Frame
<1>0. bnd \in [Gens -> Boundary]  BY DEF TypeOK
<1>a. bnd[g] \in Boundary /\ g \in GenOrNone  BY SMTT(30), <1>0, NAssumption DEF Gens, GenOrNone
<1>1. Safe(bnd[g]).pred = bnd[g].pred
  BY <1>a, BoundaryExcept
<1>2. CASE InheritSafe(g)  BY <1>0, <1>1, <1>2, OneBoundary DEF InheritSafe, genVars, Frame
<1>3. CASE RuntimeSafe(g)  BY <1>0, <1>1, <1>3, OneBoundary DEF RuntimeSafe, genVars, Frame
<1>4. CASE WatcherEnds(g)  BY <1>4 DEF WatcherEnds, genVars, Frame
<1> QED  BY <1>2, <1>3, <1>4 DEF Watcher

\* A user stop claims generations; it unlinks none.
LEMMA UserStopFrame ==
    ASSUME TypeOK, UserStop
    PROVE  Frame
<1>1. CASE StopReads  BY <1>1 DEF StopReads, genVars, Frame
<1>2. CASE StopClaims
  <2>1. stop \in GenOrNone  BY DEF TypeOK
  <2> QED  BY <1>2, <2>1, ClaimTypes DEF StopClaims, genVars, Frame
<1>3. ASSUME NEW g \in Gens, CancelOne(g) PROVE Frame
  <2>1. g \in GenOrNone  BY SMTT(30), NAssumption DEF Gens, GenOrNone
  <2> QED  BY <1>3, <2>1, ClaimTypes DEF CancelOne, genVars, Frame
<1> QED  BY <1>1, <1>2, <1>3 DEF UserStop

-----------------------------------------------------------------------------
(* The inductive invariant. *)

\* A step outside the registry keeps the order.
LEMMA FrameKeeps ==
    ASSUME QueueOrder, Frame
    PROVE  QueueOrder'
  BY SMTT(30) DEF QueueOrder, ChainUnbroken, Unfinished, PastWait, Frame, Down

\* A goroutine past its wait keeps the order until it closes done.
LEMMA MovesOnKeeps ==
    ASSUME TypeOK, QueueOrder, NEW g \in Gens, MovesOn(g)
    PROVE  QueueOrder'
<1>1. PICK x \in Midway : pc' = [pc EXCEPT ![g] = x]  BY DEF MovesOn
<1>2. \A h \in Gens : pc'[h] = IF h = g THEN x ELSE pc[h]  BY <1>1 DEF TypeOK
<1>3. \A h \in Gens : Unfinished(h)' <=> Unfinished(h)
  BY <1>2 DEF MovesOn, Midway, Unfinished
<1>4. \A h \in Gens : PastWait(h)' <=> PastWait(h)
  BY <1>2 DEF MovesOn, Midway, PastWait
<1>5. ChainUnbroken'  BY <1>3 DEF MovesOn, QueueOrder, ChainUnbroken, Down
<1>6. \A h \in Gens : pc'[h] \in {"idle", "wait", "dropped", "dereg", "barrier", "exit"}
                      \/ pc[h] \in {"idle", "wait", "dropped", "dereg", "barrier", "exit"}
                      => pc'[h] = pc[h]
  BY <1>2 DEF MovesOn, Midway
<1> QED  BY <1>3, <1>4, <1>5, <1>6 DEF MovesOn, QueueOrder

\* launchGeneration: the new generation links to the slot, and nothing
\* unfinished is newer than the slot.
LEMMA LaunchKeeps ==
    ASSUME TypeOK, QueueOrder, NEW g \in Gens, Admission(g)
    PROVE  QueueOrder'
<1> DEFINE p == prev'[g]
           x == pc'[g]
<1>1. /\ g = count + 1 /\ count' = g /\ slot' = g /\ life' = life /\ done' = done
      /\ p = slot
      /\ x \in {"start", "wait", "abort"}
      /\ x = "wait" <=> slot # NoGen
      /\ \A h \in Gens : h # g => pc'[h] = pc[h] /\ prev'[h] = prev[h]
  BY SMTT(30) DEF Admission, Launch, Wake, WakeFails, Register, TypeOK, QueueOrder, Down
<1>2. \A h \in Gens : bnd'[h].pred = IF h = g THEN slot ELSE bnd[h].pred
  <2>1. bnd' = [bnd EXCEPT ![g] = [bnd[g] EXCEPT !.pred = slot]]
    BY DEF Admission, Launch, Wake, WakeFails, Register
  <2>2. bnd[g] \in Boundary /\ bnd \in [Gens -> Boundary]  BY DEF TypeOK
  <2>3. [bnd[g] EXCEPT !.pred = slot].pred = slot  BY <2>2 DEF Boundary
  <2> QED  BY <2>1, <2>2, <2>3
<1>3. slot \in Nat /\ count \in Nat /\ slot <= count /\ \A h \in Gens : h \in Nat /\ h > 0
  BY SMTT(30), NAssumption DEF TypeOK, GenOrNone, Gens, QueueOrder
<1>4. pc[g] = "idle" /\ ~done[g] /\ ~Unfinished(g)
  BY SMTT(30), <1>1, <1>3 DEF QueueOrder, Unfinished
<1>5. \A h \in Gens : h # g => (Unfinished(h)' <=> Unfinished(h)) /\ (PastWait(h)' <=> PastWait(h))
  BY <1>1 DEF Unfinished, PastWait
<1>6. \A h \in Gens : Unfinished(h) => h <= slot /\ slot # NoGen
  BY SMTT(30), <1>3 DEF QueueOrder, NoGen
<1>7. ChainUnbroken'
  <2> SUFFICES ASSUME NEW h \in Gens, Unfinished(h)'
               PROVE  \/ slot' = h
                      \/ \E k \in Gens : k > h /\ Unfinished(k)' /\ bnd'[k].pred = h
    BY DEF ChainUnbroken
  <2>1. CASE h = g  BY <2>1, <1>1
  <2>2. CASE h # g
    <3>1. Unfinished(h)  BY <2>2, <1>5
    <3>2. CASE slot = h
      <4>1. Unfinished(g)'  BY <1>1, <1>4, <1>6, <3>1 DEF Unfinished
      <4> QED  BY SMTT(30), <1>1, <1>2, <1>3, <3>2, <4>1
    <3>3. CASE \E k \in Gens : k > h /\ Unfinished(k) /\ bnd[k].pred = h
      BY <1>2, <1>4, <1>5, <3>3
    <3> QED  BY <3>1, <3>2, <3>3 DEF QueueOrder, ChainUnbroken, Down
  <2> QED  BY <2>1, <2>2
<1>8. ASSUME NEW h \in Gens
      PROVE  /\ pc'[h] = "idle" <=> h > count'
             /\ pc'[h] # "dropped"
             /\ done'[h] => pc'[h] \in {"dereg", "barrier", "exit"}
             /\ pc'[h] \in {"dereg", "barrier"} => done'[h]
             /\ Unfinished(h)' => slot' >= h
             /\ PastWait(h)' => \A k \in Gens : k < h => ~Unfinished(k)'
             /\ pc'[h] = "wait" =>
                   /\ prev'[h] \in Gens
                   /\ prev'[h] < h
                   /\ \A k \in Gens : prev'[h] < k /\ k < h => ~Unfinished(k)'
  <2>1. CASE h = g
    <3>1. \A k \in Gens : k < g => (Unfinished(k)' <=> Unfinished(k))  BY SMTT(30), <1>3, <1>5
    <3>2. PastWait(g)' => slot = NoGen  BY <1>1 DEF PastWait
    <3>3. slot # NoGen => slot \in Gens  BY SMTT(30), <1>3 DEF TypeOK, GenOrNone, Gens, NoGen
    <3> HIDE DEF p, x
    <3>4. x \in {"start", "wait", "abort"} /\ x = pc'[h] /\ p = prev'[h]  BY <1>1, <2>1 DEF p, x
    <3> QED  BY SMTT(30), <1>1, <1>3, <1>4, <1>6, <2>1, <3>1, <3>2, <3>3, <3>4 DEF NoGen
  <2>2. CASE h # g
    <3>1. h > g => ~PastWait(h) /\ pc[h] = "idle"
      <4>1. pc[h] = "idle" <=> h > count  BY DEF QueueOrder
      <4> QED  BY SMTT(30), <1>1, <1>3, <4>1 DEF PastWait
    <3>2. h < g => \A k \in Gens : k < h => k # g  BY SMTT(30), <1>3
    <3>3. /\ pc[h] = "idle" <=> h > count
          /\ pc[h] # "dropped"
          /\ done[h] => pc[h] \in {"dereg", "barrier", "exit"}
          /\ pc[h] \in {"dereg", "barrier"} => done[h]
          /\ PastWait(h) => \A k \in Gens : k < h => ~Unfinished(k)
          /\ pc[h] = "wait" =>
                /\ prev[h] \in Gens
                /\ prev[h] < h
                /\ \A k \in Gens : prev[h] < k /\ k < h => ~Unfinished(k)
      BY DEF QueueOrder
    <3> QED  BY SMTT(30), <1>1, <1>3, <1>5, <1>6, <2>2, <3>1, <3>2, <3>3
  <2> QED  BY <2>1, <2>2
<1>9. \A h \in Gens : bnd'[h].pred < h
  <2>1. \A h \in Gens : bnd[h].pred < h  BY DEF QueueOrder
  <2> QED  BY SMTT(30), <1>1, <1>2, <1>3, <2>1
<1> QED  BY SMTT(30), <1>1, <1>3, <1>7, <1>8, <1>9 DEF QueueOrder

\* The slot is freed only when the generation in it, and so every older one,
\* has finished: deregisterGeneration and the release watcher keep the order.
LEMMA FreesKeeps ==
    ASSUME TypeOK, QueueOrder, NEW g \in Gens,
           PastWait(g), ~Unfinished(g),
           slot' = slot \/ (slot = g /\ slot' = NoGen),
           \A h \in Gens : h # g => pc'[h] = pc[h],
           \/ pc'[g] = pc[g]
           \/ pc[g] \in {"dereg", "abort"} /\ pc'[g] \in {"exit", "barrier", "abortBarrier"}
              /\ (pc'[g] = "barrier" => pc[g] = "dereg") /\ (pc'[g] = "abortBarrier" => pc[g] = "abort")
           \/ pc[g] \in {"barrier", "abortBarrier"} /\ pc'[g] = "exit",
           UNCHANGED <<count, prev, done, bnd, life>>
    PROVE  QueueOrder'
<1>1. slot \in Nat /\ count \in Nat /\ slot <= count /\ \A h \in Gens : h \in Nat /\ h > 0
  BY SMTT(30), NAssumption DEF TypeOK, GenOrNone, Gens, QueueOrder
<1>2. \A h \in Gens : (Unfinished(h)' <=> Unfinished(h)) /\ (PastWait(h)' <=> PastWait(h))
  BY DEF Unfinished, PastWait, QueueOrder
<1>3. slot' # slot => \A h \in Gens : ~Unfinished(h)
  BY SMTT(30), <1>1 DEF QueueOrder
<1>4. ChainUnbroken'  BY <1>2, <1>3 DEF QueueOrder, ChainUnbroken, Down
<1>5. slot' <= count'  BY SMTT(30), <1>1 DEF NoGen
<1>6. \A h \in Gens : /\ pc'[h] = "idle" <=> pc[h] = "idle"
                      /\ pc'[h] = "wait" <=> pc[h] = "wait"
                      /\ pc'[h] # "dropped"
                      /\ done'[h] => pc'[h] \in {"dereg", "barrier", "exit"}
                      /\ pc'[h] \in {"dereg", "barrier"} => done'[h]
  BY DEF QueueOrder, PastWait
<1>7. \A h \in Gens : Unfinished(h)' => slot' >= h  BY SMTT(30), <1>2, <1>3 DEF QueueOrder
<1> QED  BY <1>2, <1>4, <1>5, <1>6, <1>7 DEF QueueOrder

\* The second wait of waitForPredecessor, the reads of the boundary, the turn
\* itself and its cleanup happen past the wait.
LEMMA GoroutineMovesOn ==
    ASSUME TypeOK, NEW g \in Gens,
           PredecessorIssued(g) \/ ReadBoundary(g) \/ Refused(g) \/ RetainRoot(g)
           \/ HistoryFails(g) \/ RunEnds(g) \/ RunStalls(g) \/ Complete(g) \/ SendUnsettled(g)
    PROVE  MovesOn(g)
<1>0. bnd \in [Gens -> Boundary] /\ bnd[g] \in Boundary /\ g \in GenOrNone
  BY SMTT(30), NAssumption DEF TypeOK, Gens, GenOrNone
<1>1. CASE PredecessorIssued(g) \/ ReadBoundary(g) \/ Refused(g) \/ HistoryFails(g)
           \/ RunEnds(g) \/ RunStalls(g)
  BY <1>1 DEF PredecessorIssued, ReadBoundary, Refused, HistoryFails, RunEnds, RunStalls,
              Goto, MovesOn, Midway
<1>2. CASE RetainRoot(g)
  <2> DEFINE r == UnsafeRoot(prev[g])
  <2>1. Unsafe(bnd[g], g, r).pred = bnd[g].pred  BY <1>0 DEF Unsafe, Boundary
  <2>2. bnd' = [bnd EXCEPT ![g] = Unsafe(bnd[g], g, r)]  BY <1>2 DEF RetainRoot
  <2> HIDE DEF r
  <2>3. \A h \in Gens : bnd'[h].pred = bnd[h].pred  BY <1>0, <2>1, <2>2, OneBoundary
  <2> QED  BY <1>2, <2>3 DEF RetainRoot, Goto, MovesOn, Midway
<1>3. CASE Complete(g)
  <2> DEFINE c == [bnd[g] EXCEPT !.safe = TRUE, !.closed = TRUE]
  <2>1. c.pred = bnd[g].pred  BY <1>0 DEF Boundary
  <2>2. bnd' = bnd \/ bnd' = [bnd EXCEPT ![g] = c]  BY <1>0, <1>3 DEF Complete
  <2> HIDE DEF c
  <2>3. \A h \in Gens : bnd'[h].pred = bnd[h].pred  BY <1>0, <2>1, <2>2, OneBoundary
  <2> QED  BY <1>3, <2>3 DEF Complete, Goto, MovesOn, Midway
<1>4. CASE SendUnsettled(g)
  <2>1. \A h \in Gens : bnd'[h].pred = bnd[h].pred
    BY <1>0, <1>4, ClaimTypes DEF SendUnsettled
  <2> QED  BY <1>4, <2>1 DEF SendUnsettled, Goto, MovesOn, Midway
<1> QED  BY <1>1, <1>2, <1>3, <1>4

\* waitForPredecessor, first wait: the predecessor's done channel is what lets
\* a generation past its wait, and nothing older than the predecessor or between
\* the two is unfinished.
LEMMA PredecessorDoneKeeps ==
    ASSUME TypeOK, QueueOrder, NEW g \in Gens, PredecessorDone(g)
    PROVE  QueueOrder'
<1>1. \A h \in Gens : h # g => pc'[h] = pc[h]  BY DEF PredecessorDone, Goto, TypeOK
<1>2. pc[g] = "wait" /\ pc'[g] \in {"issued", "read"}  BY DEF PredecessorDone, Goto, TypeOK
<1>3. UNCHANGED <<count, slot, prev, done, bnd, life>>  BY DEF PredecessorDone
<1>4. \A h \in Gens : Unfinished(h)' <=> Unfinished(h)  BY <1>1, <1>2, <1>3 DEF Unfinished
<1>5. \A h \in Gens : h < g => ~Unfinished(h)
  <2>1. prev[g] \in Gens /\ prev[g] < g /\ done[prev[g]]  BY <1>2 DEF QueueOrder, PredecessorDone
  <2>2. PastWait(prev[g]) /\ ~Unfinished(prev[g])  BY <2>1 DEF QueueOrder, PastWait, Unfinished
  <2>3. \A h \in Gens : h < prev[g] => ~Unfinished(h)  BY <2>1, <2>2 DEF QueueOrder
  <2>4. \A h \in Gens : prev[g] < h /\ h < g => ~Unfinished(h)  BY <1>2 DEF QueueOrder
  <2> QED  BY SMTT(30), <2>1, <2>2, <2>3, <2>4, NAssumption DEF Gens
<1>6. \A h \in Gens : h # g => (PastWait(h)' <=> PastWait(h))  BY <1>1 DEF PastWait
<1>7. ChainUnbroken'  BY <1>3, <1>4 DEF QueueOrder, ChainUnbroken, Down
<1>8. ~done[g]  BY <1>2 DEF QueueOrder
<1>9. \A h \in Gens : PastWait(h)' => \A k \in Gens : k < h => ~Unfinished(k)'
  BY <1>4, <1>5, <1>6 DEF QueueOrder
<1> QED  BY <1>1, <1>2, <1>3, <1>4, <1>7, <1>8, <1>9 DEF QueueOrder

\* runGeneration drops the link to its predecessor only when nothing older is
\* unfinished, so the chain is not cut in front of anyone.
LEMMA StartRunKeeps ==
    ASSUME TypeOK, QueueOrder, NEW g \in Gens, StartRun(g)
    PROVE  QueueOrder'
<1>1. /\ pc[g] = "start" /\ pc'[g] = "run"
      /\ \A h \in Gens : h # g => pc'[h] = pc[h]
      /\ UNCHANGED <<count, slot, prev, done, life>>
  BY DEF StartRun, Goto, TypeOK
<1>2. \A h \in Gens : h # g => bnd'[h] = bnd[h]  BY DEF StartRun, TypeOK
<1>3. \A h \in Gens : (Unfinished(h)' <=> Unfinished(h)) /\ (PastWait(h)' <=> PastWait(h))
  BY <1>1 DEF Unfinished, PastWait
<1>4. \A h \in Gens : h < g => ~Unfinished(h)  BY <1>1 DEF QueueOrder, PastWait
<1>5. ChainUnbroken'  BY SMTT(30), <1>1, <1>2, <1>3, <1>4 DEF QueueOrder, ChainUnbroken, Down
<1>6. bnd'[g].pred < g
  <2>1. bnd \in [Gens -> Boundary] /\ bnd[g] \in Boundary  BY DEF TypeOK
  <2>2. bnd'[g].pred = NoGen  BY <2>1 DEF StartRun, Boundary
  <2> QED  BY SMTT(30), <2>2, NAssumption DEF Gens, NoGen
<1> QED  BY <1>1, <1>2, <1>3, <1>5, <1>6 DEF QueueOrder

\* done closes: the generation leaves the chain, with nothing older behind it.
LEMMA CloseDoneKeeps ==
    ASSUME TypeOK, QueueOrder, NEW g \in Gens, CloseDone(g)
    PROVE  QueueOrder'
<1>1. /\ pc[g] = "close" /\ pc'[g] = "dereg" /\ done'[g]
      /\ \A h \in Gens : h # g => pc'[h] = pc[h] /\ done'[h] = done[h]
      /\ UNCHANGED <<count, slot, prev, bnd, life>>
  BY DEF CloseDone, Goto, TypeOK
<1>2. \A h \in Gens : Unfinished(h)' <=> Unfinished(h) /\ h # g  BY <1>1 DEF Unfinished
<1>3. \A h \in Gens : PastWait(h)' <=> PastWait(h)  BY <1>1 DEF PastWait
<1>4. \A h \in Gens : h < g => ~Unfinished(h)  BY <1>1 DEF QueueOrder, PastWait
<1>5. ChainUnbroken'  BY SMTT(30), <1>1, <1>2, <1>4 DEF QueueOrder, ChainUnbroken, Down
<1> QED  BY <1>1, <1>2, <1>3, <1>5 DEF QueueOrder

\* deregisterGeneration, before and after the cancellation barrier.
LEMMA DeregisterKeeps ==
    ASSUME TypeOK, QueueOrder, NEW g \in Gens, Deregister(g) \/ DeregisterIssued(g)
    PROVE  QueueOrder'
<1>1. PastWait(g) /\ ~Unfinished(g)
  BY DEF Deregister, DeregisterIssued, PastWait, Unfinished, QueueOrder
<1>2. /\ slot' = slot \/ (slot = g /\ slot' = NoGen)
      /\ \A h \in Gens : h # g => pc'[h] = pc[h]
      /\ UNCHANGED <<count, prev, done, bnd, life>>
  BY DEF Deregister, DeregisterIssued, Goto, TypeOK
<1>3. \/ pc[g] \in {"dereg", "abort"} /\ pc'[g] \in {"exit", "barrier", "abortBarrier"}
         /\ (pc'[g] = "barrier" => pc[g] = "dereg") /\ (pc'[g] = "abortBarrier" => pc[g] = "abort")
      \/ pc[g] \in {"barrier", "abortBarrier"} /\ pc'[g] = "exit"
  BY DEF Deregister, DeregisterIssued, Goto, TypeOK
<1> QED  BY <1>1, <1>2, <1>3, FreesKeeps

\* markGenerationSafe's release watcher waits for done before it frees the slot.
LEMMA ReleaseSafeKeeps ==
    ASSUME TypeOK, QueueOrder, NEW g \in Gens, ReleaseSafe(g)
    PROVE  QueueOrder'
<1>1. PastWait(g) /\ ~Unfinished(g)  BY DEF ReleaseSafe, PastWait, Unfinished, QueueOrder
<1>2. /\ slot' = slot \/ (slot = g /\ slot' = NoGen)
      /\ UNCHANGED <<pc, count, prev, done, bnd, life>>
  BY DEF ReleaseSafe
<1> QED  BY <1>1, <1>2, FreesKeeps

\* The claims of Shutdown leave the order alone, and only a process that may
\* shut down loses it.
LEMMA QueueStep ==
    ASSUME TypeOK, QueueOrder, [Next]_vars
    PROVE  QueueOrder' \/ (MayShutDown /\ Down')
<1>1. CASE UNCHANGED vars
  <2>1. Frame  BY <1>1 DEF vars, Frame
  <2> QED  BY <2>1, FrameKeeps
<1>2. ASSUME NEW g \in Gens, Admission(g) PROVE QueueOrder'  BY <1>2, LaunchKeeps
<1>3. ASSUME NEW g \in Gens, Goroutine(g) PROVE QueueOrder'
  <2>1. CASE PredecessorDone(g)  BY <2>1, PredecessorDoneKeeps
  <2>2. CASE WaitAbandoned(g)  BY <2>2 DEF WaitAbandoned, Down, QueueOrder
  <2>3. CASE StartRun(g)  BY <2>3, StartRunKeeps
  <2>4. CASE CloseDone(g)  BY <2>4, CloseDoneKeeps
  <2>5. CASE Deregister(g) \/ DeregisterIssued(g)  BY <2>5, DeregisterKeeps
  <2>6. CASE PredecessorIssued(g) \/ ReadBoundary(g) \/ Refused(g) \/ RetainRoot(g)
             \/ HistoryFails(g) \/ RunEnds(g) \/ RunStalls(g) \/ Complete(g) \/ SendUnsettled(g)
    BY <2>6, GoroutineMovesOn, MovesOnKeeps
  <2> QED  BY <1>3, <2>1, <2>2, <2>3, <2>4, <2>5, <2>6 DEF Goroutine
<1>4. ASSUME NEW g \in Gens, Drive(g) \/ Runtime(g) \/ CancelWorker(g) PROVE QueueOrder'
  BY <1>4, DriveFrame, RuntimeFrame, CancelWorkerFrame, FrameKeeps
<1>5. ASSUME NEW g \in Gens, Watcher(g) PROVE QueueOrder'
  BY <1>5, WatcherFrame, FrameKeeps, ReleaseSafeKeeps
<1>6. CASE UserStop  BY <1>6, UserStopFrame, FrameKeeps
<1>7. CASE ShutdownBegins
  <2>1. slot \in GenOrNone /\ ShutdownClaim \in GenOrNone \cup {ShutdownClaim}  BY DEF TypeOK
  <2>2. \A g \in Gens : bnd'[g].pred = bnd[g].pred  BY <1>7, <2>1, ClaimTypes DEF ShutdownBegins
  <2>3. UNCHANGED <<count, slot, pc, prev, done>> /\ MayShutDown /\ life' = "closing"
    BY <1>7 DEF ShutdownBegins, genVars
  <2> QED  BY SMTT(30), <2>2, <2>3 DEF QueueOrder, ChainUnbroken, Unfinished, PastWait, Down
<1>8. CASE LifecycleCloses  BY <1>8 DEF LifecycleCloses, Down, QueueOrder
<1>9. ASSUME NEW g \in Gens, Bridge(g) PROVE FALSE  BY <1>9 DEF Bridge, Down, QueueOrder
<1> QED  BY <1>1, <1>2, <1>3, <1>4, <1>5, <1>6, <1>7, <1>8, <1>9 DEF Next, Shutdown

\* A process that is down stays down.
LEMMA DownStays ==
    ASSUME TypeOK, Down, [Next]_vars
    PROVE  Down'
<1> SUFFICES life' = life  BY DEF Down
<1>1. CASE UNCHANGED vars  BY <1>1 DEF vars
<1>2. ASSUME NEW g \in Gens, Admission(g) PROVE life' = life
  BY <1>2 DEF Admission, Launch, Wake, WakeFails, Register
<1>3. ASSUME NEW g \in Gens, Goroutine(g) PROVE life' = life
  <2>1. CASE PredecessorDone(g) \/ WaitAbandoned(g) \/ StartRun(g) \/ CloseDone(g)
             \/ Deregister(g) \/ DeregisterIssued(g)
    BY <2>1 DEF PredecessorDone, WaitAbandoned, StartRun, CloseDone, Deregister, DeregisterIssued
  <2>2. CASE PredecessorIssued(g) \/ ReadBoundary(g) \/ Refused(g) \/ RetainRoot(g)
             \/ HistoryFails(g) \/ RunEnds(g) \/ RunStalls(g) \/ Complete(g) \/ SendUnsettled(g)
    BY <2>2, GoroutineMovesOn DEF MovesOn
  <2> QED  BY <1>3, <2>1, <2>2 DEF Goroutine
<1>4. ASSUME NEW g \in Gens, Drive(g) \/ Runtime(g) \/ CancelWorker(g) PROVE life' = life
  BY <1>4, DriveFrame, RuntimeFrame, CancelWorkerFrame DEF Frame
<1>5. ASSUME NEW g \in Gens, Watcher(g) PROVE life' = life
  <2>1. CASE ReleaseSafe(g)  BY <2>1 DEF ReleaseSafe
  <2>2. CASE ~ReleaseSafe(g)  BY <1>5, <2>2, WatcherFrame DEF Frame
  <2> QED  BY <2>1, <2>2
<1>6. CASE UserStop  BY <1>6, UserStopFrame DEF Frame
<1>7. CASE Shutdown
  BY <1>7 DEF Shutdown, ShutdownBegins, LifecycleCloses, Bridge, Down
<1> QED  BY <1>1, <1>2, <1>3, <1>4, <1>5, <1>6, <1>7 DEF Next

\* An empty registry is in order.
LEMMA QueueInit == Init => QueueOrder
<1> SUFFICES ASSUME Init PROVE QueueOrder  OBVIOUS
<1>1. \A g \in Gens : pc[g] = "idle" /\ ~done[g] /\ g > 0  BY SMTT(30), NAssumption DEF Init, Gens
<1>2. \A g \in Gens : ~Unfinished(g) /\ ~PastWait(g)  BY <1>1 DEF Unfinished, PastWait
<1> QED  BY SMTT(30), <1>1, <1>2 DEF Init, QueueOrder, ChainUnbroken, NoGen

\* Until the process is down, registration order, the slot, the waits and the
\* done channels agree (registerGeneration, deregisterGeneration,
\* waitForPredecessor), for every number of generations.
THEOREM QueueInvariant == Spec => []QueueInv
<1>1. Init => TypeOK /\ QueueInv  BY InitType, QueueInit DEF QueueInv
<1>2. (TypeOK /\ QueueInv) /\ [Next]_vars => (TypeOK /\ QueueInv)'
  BY TypeStep, QueueStep, DownStays DEF QueueInv
<1> QED  BY <1>1, <1>2, PTL DEF Spec

\* A process that is never shut down keeps the order for good.
LEMMA OrderStays == ~MayShutDown => (Spec => []QueueOrder)
<1> SUFFICES ASSUME ~MayShutDown PROVE Spec => []QueueOrder  OBVIOUS
<1>1. Init => TypeOK /\ QueueOrder  BY InitType, QueueInit
<1>2. (TypeOK /\ QueueOrder) /\ [Next]_vars => (TypeOK /\ QueueOrder)'  BY TypeStep, QueueStep
<1> QED  BY <1>1, <1>2, PTL DEF Spec

\* launchGeneration's promise, for every number of generations: until the process
\* is down, two loops never run on one session at once.
THEOREM OneLoop == Spec => []MutualExclusion
<1>1. QueueInv => MutualExclusion
  <2> SUFFICES ASSUME QueueOrder, NEW g \in Gens, NEW h \in Gens, Running(g), Running(h)
               PROVE  g = h
    BY DEF QueueInv, MutualExclusion
  <2>1. Unfinished(g) /\ Unfinished(h) /\ PastWait(g) /\ PastWait(h)
    BY DEF QueueOrder, Running, Unfinished, PastWait
  <2>2. ~(g < h) /\ ~(h < g)  BY <2>1 DEF QueueOrder
  <2> QED  BY SMTT(30), <2>2, NAssumption DEF Gens
<1> QED  BY <1>1, QueueInvariant, PTL

\* cancelGenerationChain's walk cannot be cut short: until the process is down,
\* an unfinished generation holds the slot or is the predecessor of a newer
\* unfinished one.
THEOREM ChainHolds == Spec => []ChainUnbroken
<1>1. QueueInv => ChainUnbroken  BY DEF QueueInv, QueueOrder, ChainUnbroken
<1> QED  BY <1>1, QueueInvariant, PTL

-----------------------------------------------------------------------------
(* The registry implements TurnQueue. *)

\* The phase of a turn, by the place of its goroutine.
LEMMA PhaseOf ==
    ASSUME NEW g \in Gens
    PROVE  /\ pc[g] = "idle" <=> TurnPhase(g) = "new"
           /\ pc[g] \in {"wait", "issued", "read", "refused", "root", "start"} => TurnPhase(g) = "queued"
           /\ Running(g) => TurnPhase(g) = "running"
           /\ pc[g] \in {"close", "dereg", "barrier"} => TurnPhase(g) = "over"
           /\ pc[g] = "exit" /\ done[g] => TurnPhase(g) = "over"
           /\ pc[g] = "exit" /\ ~done[g] => TurnPhase(g) = "withdrawn"
           /\ pc[g] \in {"abort", "abortBarrier"} => TurnPhase(g) = "withdrawn"
  BY DEF TurnPhase, Running

\* A generation that registered and is no longer unfinished is settled.
LEMMA SettledPhase ==
    ASSUME TypeOK, QueueOrder, NEW g \in Gens, pc[g] # "idle", ~Unfinished(g)
    PROVE  TurnPhase(g) \in {"over", "withdrawn"}
<1>1. pc[g] \in {"abort", "abortBarrier", "exit"} \/ done[g]  BY DEF Unfinished, QueueOrder
<1>2. done[g] => pc[g] \in {"dereg", "barrier", "exit"}  BY DEF QueueOrder
<1>3. done[g] \in BOOLEAN  BY DEF TypeOK
<1> QED  BY <1>1, <1>2, <1>3, PhaseOf

\* Past its wait a generation is the first of the queue.
LEMMA FirstInLine ==
    ASSUME TypeOK, QueueOrder, NEW g \in Gens, PastWait(g)
    PROVE  Promise!First(g)
<1> SUFFICES ASSUME NEW h \in Gens, h < g PROVE TurnPhase(h) \in {"over", "withdrawn"}
  BY DEF Promise!First, Promise!Settled, Promise!Turns, Gens
<1>1. ~Unfinished(h)  BY DEF QueueOrder
<1>2. pc[h] # "idle"
  BY SMTT(30), NAssumption DEF QueueOrder, PastWait, Gens, TypeOK, GenOrNone
<1> QED  BY <1>1, <1>2, SettledPhase

\* A step that leaves pc and done alone, as every step outside the registry
\* does, leaves every turn in its phase.
LEMMA SamePhase ==
    ASSUME UNCHANGED <<pc, done>>
    PROVE  UNCHANGED [g \in Gens |-> TurnPhase(g)]
  BY DEF TurnPhase, Running

\* One goroutine moves: the phase of every other turn stays.
LEMMA OnePhase ==
    ASSUME NEW g \in Gens, \A h \in Gens : h # g => pc'[h] = pc[h] /\ done'[h] = done[h]
    PROVE  [h \in Gens |-> TurnPhase(h)]' = [[h \in Gens |-> TurnPhase(h)] EXCEPT ![g] = TurnPhase(g)']
<1>1. \A h \in Gens : h # g => TurnPhase(h)' = TurnPhase(h)  BY DEF TurnPhase, Running
<1> QED  BY <1>1

\* A registration is a Submit, or a Withdraw when the wake fails to store its
\* message.
LEMMA AdmissionRefines ==
    ASSUME TypeOK, QueueOrder, NEW g \in Gens, Admission(g)
    PROVE  Promise!Submit(g) \/ Promise!Withdraw(g)
<1>1. /\ g = count + 1
      /\ pc'[g] \in {"start", "wait", "abort"}
      /\ \A h \in Gens : h # g => pc'[h] = pc[h] /\ done'[h] = done[h]
  BY SMTT(30) DEF Admission, Launch, Wake, WakeFails, Register, TypeOK, QueueOrder, Down
<1>2. Promise!Fresh(g)
  <2>1. pc[g] = "idle" /\ \A h \in Gens : h < g => pc[h] # "idle"
    BY SMTT(30), <1>1, NAssumption DEF QueueOrder, TypeOK, GenOrNone, Gens
  <2> QED  BY <2>1, PhaseOf DEF Promise!Fresh, Promise!Turns, Gens
<1>3. TurnPhase(g)' \in {"queued", "withdrawn"}  BY <1>1 DEF TurnPhase, Running
<1> QED  BY <1>1, <1>2, <1>3, OnePhase DEF Promise!Submit, Promise!Withdraw

\* Each step of runGeneration starts, skips or ends its turn, or keeps its phase.
LEMMA GoroutineRefines ==
    ASSUME TypeOK, QueueOrder, NEW g \in Gens, Goroutine(g)
    PROVE  \/ Promise!Start(g) \/ Promise!Skip(g) \/ Promise!End(g)
           \/ UNCHANGED [h \in Gens |-> TurnPhase(h)]
<1> DEFINE ph == [h \in Gens |-> TurnPhase(h)]
<1>1. /\ pc'[g] \in Phases /\ done[g] \in BOOLEAN
      /\ \A h \in Gens : h # g => pc'[h] = pc[h] /\ done'[h] = done[h]
  BY GoroutineType DEF Goroutine, PredecessorDone, PredecessorIssued, WaitAbandoned, ReadBoundary,
         Refused, RetainRoot, HistoryFails, StartRun, RunEnds, RunStalls, Complete, SendUnsettled,
         CloseDone, Deregister, DeregisterIssued, Goto, TypeOK
<1>2. ph' = [ph EXCEPT ![g] = TurnPhase(g)']  BY <1>1, OnePhase
<1>3. ASSUME TurnPhase(g)' = TurnPhase(g) PROVE UNCHANGED ph
  BY <1>2, <1>3
<1>4. CASE PredecessorDone(g) \/ PredecessorIssued(g) \/ ReadBoundary(g)
  <2>1. TurnPhase(g)' = "queued" /\ TurnPhase(g) = "queued"
    BY <1>4 DEF PredecessorDone, PredecessorIssued, ReadBoundary, Goto, TypeOK, TurnPhase, Running
  <2> QED  BY <1>3, <2>1
<1>5. CASE WaitAbandoned(g)  BY <1>5 DEF WaitAbandoned, Down, QueueOrder
<1>6. CASE Refused(g) \/ RetainRoot(g) \/ HistoryFails(g)
  <2>1. TurnPhase(g) = "queued" /\ TurnPhase(g)' \in {"queued", "over"}
    BY <1>6 DEF Refused, RetainRoot, HistoryFails, Goto, TypeOK, TurnPhase, Running
  <2>2. Promise!First(g)
    BY <1>6, FirstInLine DEF Refused, RetainRoot, HistoryFails, PastWait
  <2> QED  BY <1>2, <1>3, <2>1, <2>2 DEF Promise!Skip
<1>7. CASE StartRun(g)
  <2>1. TurnPhase(g) = "queued" /\ TurnPhase(g)' = "running"
    BY <1>7 DEF StartRun, Goto, TypeOK, TurnPhase, Running
  <2>2. Promise!First(g)  BY <1>7, FirstInLine DEF StartRun, PastWait
  <2> QED  BY <1>2, <2>1, <2>2 DEF Promise!Start
<1>8. CASE RunEnds(g) \/ RunStalls(g)
  <2>1. TurnPhase(g)' = "running" /\ TurnPhase(g) = "running"
    BY <1>8 DEF RunEnds, RunStalls, Goto, TypeOK, TurnPhase, Running
  <2> QED  BY <1>3, <2>1
<1>9. CASE Complete(g) \/ SendUnsettled(g)
  <2>1. TurnPhase(g) = "running" /\ TurnPhase(g)' = "over"
    BY <1>9 DEF Complete, SendUnsettled, Goto, TypeOK, TurnPhase, Running
  <2> QED  BY <1>2, <2>1 DEF Promise!End
<1>10. CASE CloseDone(g)
  <2>1. TurnPhase(g) = "over" /\ TurnPhase(g)' = "over"
    BY <1>10 DEF CloseDone, Goto, TypeOK, TurnPhase, Running
  <2> QED  BY <1>3, <2>1
<1>11. CASE Deregister(g) \/ DeregisterIssued(g)
  <2>1. done' = done /\ (done[g] <=> pc[g] \in {"dereg", "barrier"})
    BY <1>11 DEF Deregister, DeregisterIssued, QueueOrder
  <2>2. CASE pc[g] \in {"dereg", "barrier"}
    <3>1. pc'[g] \in {"barrier", "exit"}
      BY <1>11, <2>2 DEF Deregister, DeregisterIssued, Goto, TypeOK
    <3>2. TurnPhase(g) = "over" /\ TurnPhase(g)' = "over"
      BY <2>1, <2>2, <3>1 DEF TurnPhase, Running
    <3> QED  BY <1>3, <3>2
  <2>3. CASE pc[g] \in {"abort", "abortBarrier"}
    <3>1. pc'[g] \in {"abortBarrier", "exit"}
      BY <1>11, <2>3 DEF Deregister, DeregisterIssued, Goto, TypeOK
    <3>2. TurnPhase(g) = "withdrawn" /\ TurnPhase(g)' = "withdrawn"
      BY <2>1, <2>3, <3>1 DEF TurnPhase, Running
    <3> QED  BY <1>3, <3>2
  <2> QED  BY <1>11, <2>2, <2>3 DEF Deregister, DeregisterIssued
<1> QED  BY <1>4, <1>5, <1>6, <1>7, <1>8, <1>9, <1>10, <1>11 DEF Goroutine

\* Every step of the registry is a step of TurnQueue or leaves it alone.
LEMMA StepRefines ==
    ASSUME ~MayShutDown, TypeOK, QueueOrder, [Next]_vars
    PROVE  [Promise!Next]_[g \in Gens |-> TurnPhase(g)]
<1> DEFINE ph == [g \in Gens |-> TurnPhase(g)]
<1>1. CASE UNCHANGED vars  BY <1>1, SamePhase DEF vars
<1>2. ASSUME NEW g \in Gens, Admission(g) PROVE Promise!Next
  BY <1>2, AdmissionRefines DEF Promise!Next, Promise!Turns, Gens
<1>3. ASSUME NEW g \in Gens, Goroutine(g) PROVE Promise!Next \/ UNCHANGED ph
  BY <1>3, GoroutineRefines DEF Promise!Next, Promise!Turns, Gens
<1>4. ASSUME NEW g \in Gens, Drive(g) \/ Runtime(g) \/ CancelWorker(g) PROVE UNCHANGED ph
  <2>1. Frame  BY <1>4, DriveFrame, RuntimeFrame, CancelWorkerFrame
  <2> QED  BY <2>1, SamePhase DEF Frame
<1>5. ASSUME NEW g \in Gens, Watcher(g) PROVE UNCHANGED ph
  <2>1. UNCHANGED <<pc, done>>  BY <1>5, WatcherFrame DEF Frame, ReleaseSafe
  <2> QED  BY <2>1, SamePhase
<1>6. CASE UserStop
  <2>1. Frame  BY <1>6, UserStopFrame
  <2> QED  BY <2>1, SamePhase DEF Frame
<1>7. CASE Shutdown  BY <1>7 DEF Shutdown, ShutdownBegins, LifecycleCloses, Bridge, Down, QueueOrder
<1> QED  BY <1>1, <1>2, <1>3, <1>4, <1>5, <1>6, <1>7 DEF Next

\* For every number of generations, the registry of a process that is not shut
\* down is a FIFO of turns: a generation enters its loop, or gives up its place,
\* only when every generation registered before it has left its own.
THEOREM Refinement == ~MayShutDown => (Spec => ImplementsTurnQueue)
<1> SUFFICES ASSUME ~MayShutDown PROVE Spec => ImplementsTurnQueue  OBVIOUS
<1> DEFINE ph == [g \in Gens |-> TurnPhase(g)]
<1>1. Init => Promise!Init
  <2> SUFFICES ASSUME Init PROVE Promise!Init  OBVIOUS
  <2>1. \A g \in Gens : TurnPhase(g) = "new"  BY PhaseOf DEF Init
  <2> QED  BY <2>1 DEF Promise!Init, Promise!Turns, Gens
<1>2. TypeOK /\ QueueOrder /\ [Next]_vars => [Promise!Next]_ph  BY StepRefines
<1>3. Spec => []TypeOK /\ []QueueOrder  BY TypeCorrect, OrderStays
<1> QED  BY <1>1, <1>2, <1>3, PTL DEF Spec, ImplementsTurnQueue, Promise!Spec

-----------------------------------------------------------------------------
(* The walk of cancelGenerationChain, by induction on the generations.  The  *)
(* induction takes a least or a newest counterexample (WFMin): the links     *)
(* point to older generations, so the recursive ClaimChain is defined.       *)

LOCAL INSTANCE WellFoundedInduction

\* A set of naturals has a least element, and a set of generations a newest one.
LEMMA LeastNat ==
    ASSUME NEW T, T \subseteq Nat, T # {}
    PROVE  \E x \in T : \A y \in T : x <= y
<1>1. PICK R : R = OpToRel(<, Nat)  OBVIOUS
<1>2. IsWellFoundedOn(R, Nat)  BY <1>1, NatLessThanWellFounded
<1>3. PICK x \in T : \A y \in T : ~(<<y, x>> \in R)  BY <1>2, WFMin
<1>4. \A y \in T : y < x => <<y, x>> \in R  BY <1>1 DEF OpToRel
<1>5. \A y \in T : x <= y \/ y < x  BY SMTT(30)
<1> QED  BY <1>3, <1>4, <1>5

LEMMA NewestGen ==
    ASSUME NEW T, T \subseteq Gens, T # {}
    PROVE  \E x \in T : \A y \in T : y <= x
<1>1. PICK U : U = {n \in Nat : n <= N /\ N - n \in T}  OBVIOUS
<1>2. \A x \in T : N - x \in U  BY SMTT(30), <1>1, NAssumption DEF Gens
<1>3. PICK n \in U : \A y \in U : n <= y  BY <1>1, <1>2, LeastNat
<1>4. N - n \in T /\ n \in Nat /\ n <= N  BY <1>1
<1>5. \A y \in T : n <= N - y  BY <1>2, <1>3
<1>6. \A y \in T : y <= N - n  BY SMTT(30), <1>4, <1>5, NAssumption DEF Gens
<1> QED  BY <1>4, <1>6


\* One step of the walk of cancelGenerationChain at every generation at once, for
\* links p and done channels d: f gives the generations met from the link on.
Walk(p, d, f) ==
    [h \in GenOrNone |->
        IF h = NoGen THEN {}
        ELSE {h} \cup (IF p[h] = NoGen \/ d[p[h]] THEN {} ELSE f[p[h]])]

\* A walk along links that all point to older generations ends, so the chain it
\* meets is defined.
LEMMA WalkEnds ==
    ASSUME NEW p, NEW d, \A h \in Gens : p[h] \in GenOrNone /\ p[h] < h
    PROVE  \E f : f = Walk(p, d, f)
<1> DEFINE Met(h, c) == IF h = NoGen THEN {}
                        ELSE {h} \cup (IF p[h] = NoGen \/ d[p[h]] THEN {} ELSE c)
           Stuck == {n \in GenOrNone : ~ \E f : f = [h \in 0..n |-> Met(h, f[p[h]])]}
<1> SUFFICES \E f : f = [h \in 0..N |-> Met(h, f[p[h]])]  BY DEF Walk, GenOrNone
<1>0. N \in GenOrNone  BY SMTT(30), NAssumption DEF GenOrNone
<1> SUFFICES ASSUME Stuck # {} PROVE FALSE  BY <1>0
<1>1. Stuck \subseteq Nat  BY SMTT(30), NAssumption DEF GenOrNone
<1>2. PICK n \in Stuck : \A y \in Stuck : n <= y  BY <1>1, LeastNat
<1>3. CASE n = 0
  <2>1. PICK f : f = [h \in 0..0 |-> {}]  OBVIOUS
  <2>2. f = [h \in 0..0 |-> Met(h, f[p[h]])]  BY SMTT(30), <2>1 DEF NoGen
  <2> QED  BY <1>2, <1>3, <2>2
<1>4. CASE n # 0
  <2>0. n \in GenOrNone  OBVIOUS
  <2>1. n \in Gens /\ n - 1 \in GenOrNone /\ n - 1 \notin Stuck
    <3>1. n \in Gens /\ n - 1 \in GenOrNone /\ n - 1 < n
      <4> HIDE DEF Stuck
      <4> QED  BY SMTT(30), <1>4, <2>0, NAssumption DEF Gens, GenOrNone
    <3>2. n - 1 \in Nat /\ n \in Nat  BY SMTT(30), <3>1, NAssumption DEF Gens, GenOrNone
    <3>3. ~(n <= n - 1)  BY SMTT(30), <3>1, <3>2
    <3> QED  BY <1>2, <3>1, <3>3
  <2>2. PICK f : f = [h \in 0..(n - 1) |-> Met(h, f[p[h]])]  BY <2>1
  <2>3. PICK g : g = [h \in 0..n |-> IF h = n THEN Met(n, f[p[n]]) ELSE f[h]]  OBVIOUS
  <2>4. ASSUME NEW h \in 0..n PROVE g[h] = Met(h, g[p[h]])
    <3>1. CASE h = 0
      <4>1. g[h] = f[h]  BY <1>4, <2>3, <3>1
      <4>2. h \in 0..(n - 1)  BY SMTT(30), <2>1, <3>1, NAssumption DEF Gens
      <4>3. f[h] = {}  BY <2>2, <3>1, <4>2 DEF NoGen
      <4> QED  BY <3>1, <4>1, <4>3 DEF NoGen
    <3>2. CASE h # 0
      <4>1. h \in Gens /\ p[h] \in 0..(n - 1)  BY SMTT(30), <2>1, <3>2, NAssumption DEF Gens, GenOrNone
      <4>2. g[p[h]] = f[p[h]]  BY SMTT(30), <2>1, <2>3, <4>1, NAssumption DEF Gens
      <4>3. CASE h = n  BY <2>3, <4>2, <4>3
      <4>4. CASE h # n
        <5>1. h \in 0..(n - 1)  BY SMTT(30), <2>1, <4>4, NAssumption DEF Gens
        <5>2. g[h] = f[h]  BY <2>3, <4>4
        <5>3. f[h] = Met(h, f[p[h]])  BY <2>2, <5>1
        <5> QED  BY <4>2, <5>2, <5>3
      <4> QED  BY <4>3, <4>4
    <3> QED  BY <3>1, <3>2
  <2>5. g = [h \in 0..n |-> Met(h, g[p[h]])]
    <3>1. \A h \in 0..n : g[h] = Met(h, g[p[h]])  BY <2>4
    <3>2. g = [h \in 0..n |-> g[h]]  BY <2>3
    <3> HIDE DEF Met
    <3> QED  BY <3>1, <3>2
  <2> QED  BY <1>2, <2>5
<1> QED  BY <1>3, <1>4

\* ClaimChain is the chain that walk meets, from any generation.
LEMMA ChainUnfolds ==
    ASSUME TypeOK, QueueOrder
    PROVE  \A h \in Gens :
               /\ h \in ClaimChain[h]
               /\ LET p == bnd[h].pred
                  IN  IF p = NoGen \/ done[p] THEN ClaimChain[h] = {h}
                      ELSE ClaimChain[h] = {h} \cup ClaimChain[p]
<1>1. PICK p : p = [h \in Gens |-> bnd[h].pred]  OBVIOUS
<1>2. PICK d : d = done  OBVIOUS
<1>3. \A h \in Gens : p[h] = bnd[h].pred /\ p[h] \in GenOrNone /\ p[h] < h
  <2>1. \A h \in Gens : bnd[h] \in Boundary /\ bnd[h].pred < h  BY DEF TypeOK, QueueOrder
  <2> QED  BY <1>1, <2>1 DEF Boundary
<1>4. PICK f : f = Walk(p, d, f)  BY <1>3, WalkEnds
<1>5. \A h \in GenOrNone : h = NoGen \/ h \in Gens  BY SMTT(30), NAssumption DEF GenOrNone, NoGen, Gens
<1>6. f = [h \in GenOrNone |->
              IF h = NoGen THEN {}
              ELSE {h} \cup (IF bnd[h].pred = NoGen \/ done[bnd[h].pred] THEN {}
                             ELSE f[bnd[h].pred])]
  BY <1>2, <1>3, <1>4, <1>5 DEF Walk
<1>7. ClaimChain = [h \in GenOrNone |->
              IF h = NoGen THEN {}
              ELSE {h} \cup (IF bnd[h].pred = NoGen \/ done[bnd[h].pred] THEN {}
                             ELSE ClaimChain[bnd[h].pred])]
  BY <1>6 DEF ClaimChain
<1>8. \A h \in Gens : h \in GenOrNone /\ h # NoGen  BY SMTT(30), NAssumption DEF Gens, GenOrNone, NoGen
<1>9. \A h \in Gens :
          ClaimChain[h] = {h} \cup (IF bnd[h].pred = NoGen \/ done[bnd[h].pred] THEN {}
                                    ELSE ClaimChain[bnd[h].pred])
  BY <1>7, <1>8
<1> QED  BY <1>9

\* The walk goes on to a predecessor that has not closed done: the chain holds
\* every unfinished link of the generations in it.
LEMMA ChainClosed ==
    ASSUME TypeOK, QueueOrder
    PROVE  \A x, h \in Gens :
               h \in ClaimChain[x] /\ bnd[h].pred \in Gens /\ ~done[bnd[h].pred]
                   => bnd[h].pred \in ClaimChain[x]
<1> DEFINE Met(x, h) == h \in ClaimChain[x] /\ bnd[h].pred \in Gens /\ ~done[bnd[h].pred]
                        /\ bnd[h].pred \notin ClaimChain[x]
           Cut == {x \in Gens : \E h \in Gens : Met(x, h)}
<1> SUFFICES ASSUME Cut # {} PROVE FALSE  OBVIOUS
<1>1. PICK x \in Cut : \A y \in Cut : x <= y
  <2>1. Cut \subseteq Nat  BY SMTT(30), NAssumption DEF Gens
  <2> QED  BY <2>1, LeastNat
<1>2. PICK h \in Gens : Met(x, h)  OBVIOUS
<1>3. x \in Gens  OBVIOUS
<1> DEFINE p == bnd[x].pred
<1>4. p \in GenOrNone /\ p < x
  <2>1. bnd[x] \in Boundary /\ bnd[x].pred < x  BY <1>3 DEF TypeOK, QueueOrder
  <2> QED  BY <2>1 DEF Boundary
<1>5. /\ x \in ClaimChain[x]
      /\ p = NoGen \/ done[p] => ClaimChain[x] = {x}
      /\ ~(p = NoGen \/ done[p]) => ClaimChain[x] = {x} \cup ClaimChain[p]
  BY <1>3, ChainUnfolds
<1>6. CASE h = x
  <2>1. p \in Gens /\ ~done[p] /\ p \notin ClaimChain[x]  BY <1>2, <1>6
  <2>2. p # NoGen  BY SMTT(30), <2>1, NAssumption DEF Gens, NoGen
  <2>3. p \in ClaimChain[p]  BY <2>1, ChainUnfolds
  <2> QED  BY <1>5, <2>1, <2>2, <2>3
<1>7. CASE h # x
  <2>1. ClaimChain[x] = {x} \cup ClaimChain[p] /\ p # NoGen  BY <1>2, <1>5, <1>7
  <2>2. Met(p, h)  BY <1>2, <1>7, <2>1
  <2>3. p \in Gens  BY SMTT(30), <1>4, <2>1, NAssumption DEF Gens, GenOrNone, NoGen
  <2>4. p \in Cut  BY <2>2, <2>3
  <2>5. x <= p  BY <1>1, <2>4
  <2> HIDE DEF Cut, Met
  <2> QED  BY SMTT(30), <1>3, <1>4, <2>3, <2>5, NAssumption DEF Gens
<1> QED  BY <1>6, <1>7

\* What a user stop relies on, for every number of generations: the walk of
\* cancelGenerationChain from the slot meets every generation that has not
\* finished.  The newest one it missed would be the predecessor of an
\* unfinished generation that it met.
THEOREM StopReaches == Spec => []StopReachesAll
<1>1. TypeOK /\ QueueInv => StopReachesAll
  <2> DEFINE Missed == {g \in Gens : Unfinished(g) /\ g \notin ClaimChain[slot]}
  <2> SUFFICES ASSUME TypeOK, QueueOrder, Missed # {} PROVE FALSE
    BY DEF QueueInv, StopReachesAll
  <2>1. PICK g \in Missed : \A y \in Missed : y <= g
    <3>1. Missed \subseteq Gens  OBVIOUS
    <3> QED  BY <3>1, NewestGen
  <2>2. g \in Gens /\ Unfinished(g) /\ g \notin ClaimChain[slot]  OBVIOUS
  <2>3. slot \in Gens
    <3>1. slot \in GenOrNone /\ slot >= g  BY <2>2 DEF TypeOK, QueueOrder
    <3> HIDE DEF Missed
    <3> QED  BY SMTT(30), <2>2, <3>1, NAssumption DEF Gens, GenOrNone
  <2>4. slot # g  BY <2>2, <2>3, ChainUnfolds
  <2>5. PICK h \in Gens : h > g /\ Unfinished(h) /\ bnd[h].pred = g
    BY <2>2, <2>4 DEF QueueOrder, ChainUnbroken, Down
  <2>6. h \in ClaimChain[slot]
    <3>1. h \notin Missed
      <4>1. ~(h <= g)
        <5> HIDE DEF Missed
        <5> QED  BY SMTT(30), <2>2, <2>5, NAssumption DEF Gens
      <4> QED  BY <2>1, <4>1
    <3> QED  BY <2>5, <3>1
  <2>7. ~done[g]  BY <2>2 DEF Unfinished
  <2> QED  BY <2>2, <2>3, <2>5, <2>6, <2>7, ChainClosed
<1> QED  BY <1>1, TypeCorrect, QueueInvariant, PTL
=============================================================================
