------------------------ MODULE GenerationTurnsProofs ------------------------
(***************************************************************************)
(* The runtime turns, for every number of generations and every setting of *)
(* the switches, shutdown included.  TurnInv is inductive; that two        *)
(* prompts are never open at once, that a safe cancellation verdict stands *)
(* for the whole boundary and that a tombstone is never lifted early       *)
(* follow from it.                                                         *)
(***************************************************************************)
EXTENDS GenerationQueueTypes

\* A leaf that names no prover goes to Zenon.
USE ZenonT(30)

\* What TurnInv says of one generation.
LocalOK(g) == OrderOK(g) /\ TurnOK(g) /\ VerdictOK(g) /\ BoundaryOK(g)

\* The step touches nothing of generation k.
Same(k) ==
    /\ pc'[k] = pc[k]
    /\ prev'[k] = prev[k]
    /\ ctxDone'[k] = ctxDone[k]
    /\ bnd'[k] = bnd[k]
    /\ obs'[k] = obs[k]
    /\ cw'[k] = cw[k]
    /\ turn'[k] = turn[k]
    /\ router' = k <=> router = k

\* No session that a turn drives comes back to life, and a session's name is
\* only in use once the turn of that generation is.
NoRevival ==
    /\ \A k \in Gens : turn[k].sess \in live' => turn[k].sess \in live
    /\ \A k \in Gens : turn'[k].at = "none" =>
           k \notin live' /\ \A j \in Gens : turn'[j].sess # k

\* Once quiet a generation stays quiet, and its boundary once over stays over.
Calm(k) == (Quiet(k) => Quiet(k)') /\ (Over(k) => Over(k)')

\* A step that touches nothing of a generation leaves it as quiet as it was.
LEMMA SameCalm ==
    ASSUME NEW k \in Gens, Same(k), NoRevival
    PROVE  Calm(k) /\ (TurnOpen(k)' => TurnOpen(k))
<1>1. TurnOpen(k)' => TurnOpen(k)  BY DEF Same, NoRevival, TurnOpen, Open
<1>2. Barred(k) => Barred(k)'  BY DEF Same, Barred
<1> QED  BY <1>1, <1>2 DEF Same, Calm, Quiet, Over

\* What a calm step keeps of the generations in a range.
LEMMA QuietStays ==
    ASSUME \A k \in Gens : Calm(k), NEW g
    PROVE  /\ QuietBefore(g) => QuietBefore(g)'
           /\ QuietUpTo(g) => QuietUpTo(g)'
           /\ \A r : QuietFrom(r, g) => QuietFrom(r, g)'
  BY DEF Calm, QuietBefore, QuietUpTo, QuietFrom

\* The same, seen from one generation and from what its boundary names.
LEMMA Lasting ==
    ASSUME \A k \in Gens : Calm(k), NEW g \in Gens
    PROVE  /\ Quiet(g) => Quiet(g)'
           /\ Over(g) => Over(g)'
           /\ QuietBefore(g) => QuietBefore(g)'
           /\ QuietUpTo(g) => QuietUpTo(g)'
           /\ QuietBefore(g) /\ Quiet(g)' => QuietUpTo(g)'
           /\ bnd'[g].root = bnd[g].root /\ QuietFrom(bnd[g].root, g) => QuietFrom(bnd[g].root, g)'
           /\ obs'[g].on = obs[g].on /\ QuietFrom(obs[g].on, g) => QuietFrom(obs[g].on, g)'
<1>1. \A r : QuietFrom(r, g) => QuietFrom(r, g)'  BY QuietStays
<1>2. \A k \in Gens : k <= g => k < g \/ k = g  BY SMTT(30) DEF Gens
<1>3. QuietBefore(g) => QuietBefore(g)'  BY QuietStays
<1>4. QuietBefore(g) /\ Quiet(g)' => QuietUpTo(g)'
  BY <1>2, <1>3 DEF QuietBefore, QuietUpTo
<1>5. bnd'[g].root = bnd[g].root /\ QuietFrom(bnd[g].root, g) => QuietFrom(bnd[g].root, g)'
  <2>1. PICK r : r = bnd[g].root  OBVIOUS
  <2>2. QuietFrom(r, g) => QuietFrom(r, g)'  BY <1>1
  <2> QED  BY <2>1, <2>2 DEF QuietFrom
<1>6. obs'[g].on = obs[g].on /\ QuietFrom(obs[g].on, g) => QuietFrom(obs[g].on, g)'
  <2>1. PICK r : r = obs[g].on  OBVIOUS
  <2>2. QuietFrom(r, g) => QuietFrom(r, g)'  BY <1>1
  <2> QED  BY <2>1, <2>2 DEF QuietFrom
<1> QED  BY <1>3, <1>4, <1>5, <1>6, QuietStays DEF Calm

\* What a worker concluded stays true while its generation's turn and claim do.
LEMMA VerdictKept ==
    ASSUME TurnInv, \A k \in Gens : Calm(k), NEW g \in Gens,
           cw'[g] = cw[g], bnd'[g].asked = bnd[g].asked, bnd'[g].issued = bnd[g].issued,
           cw[g].at # "none" => /\ Bound(g)' <=> Bound(g)
                                /\ turn'[g].started <=> turn[g].started
                                /\ turn[g].decided => turn'[g].decided
    PROVE  VerdictOK(g)'
<1>1. VerdictOK(g)  BY DEF TurnInv
<1> QED  BY SMTT(30), <1>1, Lasting DEF VerdictOK

\* What a boundary answers for stays true while nobody touches it.
LEMMA BoundaryKept ==
    ASSUME TurnInv, \A k \in Gens : Calm(k), NEW g \in Gens, g <= count' <=> g <= count,
           bnd'[g] = bnd[g], obs'[g] = obs[g], pc'[g] = pc[g],
           turn[g].started => turn'[g].started
    PROVE  BoundaryOK(g)'
<1>1. BoundaryOK(g)  BY DEF TurnInv
<1>2. bnd'[g].root = bnd[g].root /\ obs'[g].on = obs[g].on  OBVIOUS
<1> QED  BY <1>1, <1>2, Lasting DEF BoundaryOK

\* The verdict of markGenerationSafe is true of a generation that is quiet, behind
\* quiet ones, and over if a cancellation was issued for it.
LEMMA SafeBoundary ==
    ASSUME TurnInv, \A k \in Gens : Calm(k), NEW g \in Gens, count' = count,
           bnd'[g].closed, bnd'[g].pred = bnd[g].pred, bnd'[g].root = bnd[g].root,
           QuietBefore(g), Quiet(g)', bnd'[g].issued => Over(g)',
           obs'[g].on = obs[g].on,
           obs'[g].watch = "inherit" => obs[g].watch = "inherit",
           obs'[g].watch = "runtime" => obs[g].watch = "runtime",
           turn[g].started => turn'[g].started
    PROVE  BoundaryOK(g)'
<1>1. BoundaryOK(g)  BY DEF TurnInv
<1> QED  BY <1>1, Lasting DEF BoundaryOK

\* The verdict of markGenerationUnsafe is true when the root it names leaves only
\* quiet generations between itself and g.
LEMMA UnsafeBoundary ==
    ASSUME TurnInv, \A k \in Gens : Calm(k), NEW g \in Gens, count' = count,
           NEW r \in Gens, r = g \/ (r < g /\ QuietFrom(r, g) /\ Over(g)),
           ~bnd'[g].safe, bnd'[g].retain, bnd'[g].root = r,
           bnd'[g].pred = bnd[g].pred, bnd'[g].closed = bnd[g].closed,
           \/ obs'[g].watch = obs[g].watch /\ obs'[g].on = obs[g].on
           \/ obs'[g].watch = "inherit" /\ obs'[g].on = r /\ r # g
           \/ obs'[g].watch = "runtime" /\ turn'[g].started
           \/ obs'[g].watch = "spent",
           pc'[g] \in {"start", "drain"} => pc[g] = pc'[g],
           turn[g].started => turn'[g].started
    PROVE  BoundaryOK(g)'
<1>1. BoundaryOK(g)  BY DEF TurnInv
<1>2. r <= g /\ QuietFrom(r, g)  BY SMTT(30) DEF QuietFrom, Gens
<1>3. QuietFrom(r, g)'  BY <1>2, QuietStays
<1>4. QuietFrom(bnd[g].root, g)'  BY <1>3 DEF QuietFrom
<1>5. obs'[g].watch = "inherit" => Over(g)' /\ obs'[g].on \in Gens /\ QuietFrom(obs[g].on, g)'
  <2>1. obs'[g].on = r => QuietFrom(obs[g].on, g)'  BY <1>3 DEF QuietFrom
  <2>2. CASE obs'[g].watch = obs[g].watch /\ obs'[g].on = obs[g].on
    BY <1>1, <2>2, Lasting DEF BoundaryOK
  <2>3. CASE obs'[g].watch = "inherit" /\ obs'[g].on = r /\ r # g
    BY <2>1, <2>3, Lasting
  <2> QED  BY <2>2, <2>3
<1>6. obs'[g].watch = "runtime" => turn'[g].started  BY <1>1 DEF BoundaryOK
<1> QED  BY <1>1, <1>2, <1>4, <1>5, <1>6, Lasting DEF BoundaryOK

\* A step keeps the invariant of a generation it does not touch.
LEMMA SameKept ==
    ASSUME TurnInv, NEW k \in Gens, Same(k), NoRevival, \A j \in Gens : Calm(j),
           k <= count' <=> k <= count, k > count' <=> k > count
    PROVE  LocalOK(k)'
<1>0. OrderOK(k) /\ TurnOK(k)  BY DEF TurnInv
<1>1. OrderOK(k)'  BY <1>0 DEF OrderOK, Same
<1>2. TurnOpen(k)' => TurnOpen(k)  BY SameCalm
<1>3. turn[k].at = "none" => k \notin live' /\ \A j \in Gens : turn'[j].sess # k
  BY DEF NoRevival, Same
<1>4. TurnOK(k)'  BY <1>0, <1>2, <1>3 DEF TurnOK, Same
<1>5. VerdictOK(k)'  BY VerdictKept DEF Same, Bound
<1>6. BoundaryOK(k)'  BY BoundaryKept DEF Same
<1> QED  BY <1>1, <1>4, <1>5, <1>6 DEF LocalOK

\* The slot is left alone, or freed behind generations that are quiet.
SlotMoves == slot' = slot \/ (slot' = NoGen /\ QuietUpTo(count))

LEMMA SlotKept ==
    ASSUME TurnInv, \A k \in Gens : Calm(k), count' = count, SlotMoves
    PROVE  SlotOK'
<1>1. QuietUpTo(count) => QuietUpTo(count)'
  <2>1. PICK c : c = count  OBVIOUS
  <2>2. QuietUpTo(c) => QuietUpTo(c)'  BY QuietStays
  <2> QED  BY <2>1, <2>2 DEF QuietUpTo
<1> QED  BY <1>1 DEF TurnInv, SlotOK, SlotMoves

\* A step about one generation g.  Only a step that opens g's turn has to show
\* that no other turn is open.
LEMMA OneStep ==
    ASSUME TurnInv, TypeOK', NEW g \in Gens, count' = count, SlotMoves, NoRevival,
           \A k \in Gens \ {g} : Same(k),
           Calm(g), LocalOK(g)',
           (TurnOpen(g)' => TurnOpen(g)) \/ \A k \in Gens \ {g} : ~TurnOpen(k)
    PROVE  TurnInv'
<1>1. \A k \in Gens \ {g} : Calm(k) /\ (TurnOpen(k)' => TurnOpen(k))  BY SameCalm
<1>2. \A k \in Gens : Calm(k)  BY <1>1
<1>3. \A k \in Gens : LocalOK(k)'
  <2>1. \A k \in Gens \ {g} : LocalOK(k)'  BY <1>2, SameKept
  <2> QED  BY <2>1
<1>4. SlotOK'  BY <1>2, SlotKept
<1>5. TurnExclusive'
  <2>1. TurnExclusive  BY DEF TurnInv
  <2> QED  BY <1>1, <2>1 DEF TurnExclusive
<1> QED  BY <1>3, <1>4, <1>5 DEF TurnInv, LocalOK

\* A step about no generation at all.
LEMMA NoStep ==
    ASSUME TurnInv, TypeOK', count' = count, SlotMoves, NoRevival, \A k \in Gens : Same(k)
    PROVE  TurnInv'
<1>1. \A k \in Gens : Calm(k) /\ (TurnOpen(k)' => TurnOpen(k))  BY SameCalm
<1>3. \A k \in Gens : LocalOK(k)'  BY <1>1, SameKept
<1>4. SlotOK'  BY <1>1, SlotKept
<1>5. TurnExclusive'
  <2>1. TurnExclusive  BY DEF TurnInv
  <2> QED  BY <1>1, <2>1 DEF TurnExclusive
<1> QED  BY <1>3, <1>4, <1>5 DEF TurnInv, LocalOK

-----------------------------------------------------------------------------
(* The generation goroutine. *)

\* The parts of the invariant about one generation, and the types they need.
LEMMA Parts ==
    ASSUME TurnInv, NEW g \in Gens
    PROVE  /\ OrderOK(g) /\ TurnOK(g) /\ VerdictOK(g) /\ BoundaryOK(g)
           /\ TypeOK /\ SlotOK
           /\ pc \in [Gens -> Phases] /\ prev \in [Gens -> GenOrNone]
           /\ ctxDone \in [Gens -> BOOLEAN] /\ bnd \in [Gens -> Boundary]
           /\ obs \in [Gens -> Observers] /\ cw \in [Gens -> Worker]
           /\ turn \in [Gens -> Turn]
           /\ count \in GenOrNone /\ router \in GenOrNone /\ live \subseteq Gens
           /\ PredecessorNamed
  BY DEF TurnInv, TypeOK

\* A step that leaves the runtime sessions and the turns' phases alone revives
\* nothing.
LEMMA NothingRevived ==
    ASSUME TurnInv, live' \subseteq live,
           \A k \in Gens : turn'[k].sess = turn[k].sess /\ (turn'[k].at = "none" => turn[k].at = "none")
    PROVE  NoRevival
<1>1. \A k \in Gens : TurnOK(k)  BY DEF TurnInv
<1> QED  BY SMTT(30), <1>1 DEF TurnOK, NoRevival

\* A safe boundary of the predecessor answers for everything ahead of g.
LEMMA PredQuiet ==
    ASSUME TurnInv, NEW g \in Gens, NEW p \in Gens, p \in {NoGen, g - 1}, bnd[p].safe
    PROVE  QuietBefore(g)
<1>1. QuietUpTo(p)  BY Parts DEF BoundaryOK
<1>2. p = g - 1  BY SMTT(30) DEF Gens, NoGen
<1>3. \A k \in Gens : k < g => k <= p  BY SMTT(30), <1>2, NAssumption DEF Gens
<1> QED  BY <1>1, <1>3 DEF QuietUpTo, QuietBefore

\* Whoever has dropped its predecessor link has only quiet generations ahead.
LEMMA UnlinkedQuiet ==
    ASSUME TurnInv, NEW g \in Gens, pc[g] = "run" \/ turn[g].at # "none"
    PROVE  QuietBefore(g) /\ bnd[g].pred = NoGen
<1>1. pc[g] # "idle" /\ bnd[g].pred = NoGen  BY Parts DEF TurnOK, Late
<1>2. g <= count  BY SMTT(30), <1>1, Parts, NAssumption DEF OrderOK, Gens, GenOrNone
<1> QED  BY <1>1, <1>2, Parts DEF BoundaryOK

\* A generation without a turn that no longer can reach one is quiet.
LEMMA NoTurnQuiet ==
    ASSUME TurnInv, NEW g \in Gens, turn[g].at = "none", pc[g] \notin Ahead
    PROVE  Over(g) /\ Quiet(g)
<1>1. ~turn[g].started /\ router # g  BY Parts DEF TurnOK
<1>2. Barred(g)  BY DEF Barred
<1>3. ~TurnOpen(g)  BY <1>1 DEF TurnOpen, Open
<1> QED  BY <1>1, <1>2, <1>3 DEF Over, Quiet

\* A step that leaves the runtime alone keeps what the invariant says of a turn.
LEMMA TurnKept ==
    ASSUME TurnInv, NEW g \in Gens, UNCHANGED <<turn, live, router>>,
           TurnOpen(g) /\ bnd[g].retain => bnd'[g].retain,
           ctxDone[g] => ctxDone'[g],
           \/ bnd'[g].pred = NoGen
           \/ bnd'[g].pred = bnd[g].pred /\ (pc'[g] = "run" => pc[g] = "run")
           \/ turn[g].at = "none" /\ pc'[g] # "run",
           turn[g].at = "bound" /\ pc'[g] # "run" =>
               pc[g] # "run" \/ turn[g].decided \/ ctxDone'[g],
           turn[g].at # "none" => pc'[g] \in Late
    PROVE  TurnOK(g)' /\ (TurnOpen(g)' <=> TurnOpen(g))
<1>1. TurnOK(g)  BY Parts
<1>2. TurnOpen(g)' <=> TurnOpen(g)  BY DEF TurnOpen, Open
<1>3. TurnOpen(g)' => TurnOpen(g)  BY <1>2
<1>4. TurnOK(g)'  BY <1>1, <1>3 DEF TurnOK
<1> QED  BY <1>2, <1>4

\* The goroutine of g changes its phase and nothing else the invariant is about.
LEMMA PhaseStep ==
    ASSUME TurnInv, TypeOK', NEW g \in Gens, NEW x,
           pc' = [pc EXCEPT ![g] = x],
           UNCHANGED <<count, prev, ctxDone, bnd, obs, cw, turn, live, router>>,
           SlotMoves,
           pc[g] # "idle", x \notin {"idle", "run"},
           pc[g] \in Ahead \/ x \notin Ahead,
           turn[g].at # "none" => x \in Late,
           turn[g].at = "bound" => turn[g].decided \/ ctxDone[g],
           x \in {"start", "drain"} => QuietBefore(g),
           x \in {"close", "dereg", "abort"} /\ ~bnd[g].asked /\ ~bnd[g].retain =>
               QuietBefore(g) /\ (turn[g].at = "none" \/ Quiet(g))
    PROVE  TurnInv'
<1>0. pc'[g] = x /\ \A k \in Gens \ {g} : pc'[k] = pc[k]  BY Parts
<1>1. \A k \in Gens \ {g} : Same(k)  BY <1>0 DEF Same
<1>2. NoRevival  BY NothingRevived
<1>3. Barred(g) => Barred(g)'  BY <1>0 DEF Barred
<1>4. TurnOpen(g)' <=> TurnOpen(g)  BY DEF TurnOpen, Open
<1>5. Calm(g)  BY <1>3, <1>4 DEF Calm, Quiet, Over
<1>6. \A k \in Gens : Calm(k)  BY <1>1, <1>2, <1>5, SameCalm
<1>7. OrderOK(g)'  BY <1>0, Parts DEF OrderOK
<1>8. TurnOK(g)'  BY <1>0, TurnKept
<1>9. VerdictOK(g)'  BY <1>6, VerdictKept DEF Bound
<1>10. turn[g].at = "none" /\ x \notin Ahead => Quiet(g)'
  <2>1. turn[g].at = "none" => ~TurnOpen(g)  BY Parts DEF TurnOK, TurnOpen, Open
  <2> QED  BY <1>0, <1>4, <2>1 DEF Quiet, Barred
<1>11. BoundaryOK(g)'
  <2>1. BoundaryOK(g)  BY Parts
  <2>2. x \in {"close", "dereg", "abort"} /\ ~bnd[g].asked /\ ~bnd[g].retain => QuietUpTo(g)'
    <3>1. x \in {"close", "dereg", "abort"} => x \notin Ahead  BY DEF Ahead
    <3> QED  BY <1>6, <1>10, <3>1, Lasting
  <2>3. bnd'[g].root = bnd[g].root /\ obs'[g].on = obs[g].on  OBVIOUS
  <2> QED  BY <1>0, <1>6, <2>1, <2>2, <2>3, Lasting DEF BoundaryOK
<1> QED  BY <1>1, <1>2, <1>4, <1>5, <1>7, <1>8, <1>9, <1>11, OneStep DEF LocalOK

\* A generation that has no turn yet moves on in its queue.
LEMMA QueuedStep ==
    ASSUME TurnInv, TypeOK', NEW g \in Gens, NEW x,
           pc' = [pc EXCEPT ![g] = x],
           UNCHANGED <<count, slot, prev, ctxDone, bnd, obs, cw, turnVars>>,
           pc[g] \in {"wait", "issued", "read", "refused", "start"},
           x \in {"issued", "read", "refused", "root", "start", "close"},
           pc[g] = "refused" => x \in {"root", "close"},
           x \in {"start", "close"} => QuietBefore(g)
    PROVE  TurnInv'
<1>1. turn[g].at = "none"  BY Parts DEF TurnOK, Late
<1>2. pc[g] \in Ahead \/ x \notin Ahead  BY DEF Ahead
<1>3. UNCHANGED <<count, prev, ctxDone, bnd, obs, cw, turn, live, router>> /\ SlotMoves
  BY DEF turnVars, SlotMoves
<1> QED  BY <1>1, <1>2, <1>3, PhaseStep

\* A generation that has run, or was aborted, moves on towards its exit.
LEMMA LateStep ==
    ASSUME TurnInv, TypeOK', NEW g \in Gens, NEW x \in {"drain", "close", "dereg", "exit"},
           pc' = [pc EXCEPT ![g] = x],
           UNCHANGED <<count, prev, ctxDone, bnd, obs, cw, turn, live, router>>,
           SlotMoves, pc[g] # "idle",
           turn[g].at = "bound" => turn[g].decided \/ ctxDone[g],
           x = "drain" => QuietBefore(g),
           x \in {"close", "dereg"} /\ ~bnd[g].asked /\ ~bnd[g].retain =>
               QuietBefore(g) /\ Quiet(g)
    PROVE  TurnInv'
<1>1. x \notin Ahead /\ x \in Late /\ x \notin {"idle", "run", "start", "abort"}  BY DEF Ahead, Late
<1> QED  BY <1>1, PhaseStep

\* waitForPredecessor and the early ends of runGeneration: the generation starts,
\* or leaves its boundary unmarked, only behind a safe predecessor.
LEMMA QueuedKeeps ==
    ASSUME TurnInv, TypeOK', NEW g \in Gens,
           \/ PredecessorDone(g) \/ PredecessorIssued(g) \/ WaitAbandoned(g)
           \/ ReadBoundary(g) \/ Refused(g) \/ HistoryFails(g)
    PROVE  TurnInv'
<1>0. pc[g] \in {"read", "refused"} /\ bnd[prev[g]].safe => QuietBefore(g)
  <2> SUFFICES ASSUME pc[g] \in {"read", "refused"}, bnd[prev[g]].safe PROVE QuietBefore(g)
    OBVIOUS
  <2>1. prev[g] \in Gens  BY Parts DEF PredecessorNamed
  <2>2. PICK p \in Gens : p = prev[g]  BY <2>1
  <2>3. p \in {NoGen, g - 1} /\ bnd[p].safe  BY <2>2, Parts DEF OrderOK
  <2> QED  BY <2>3, PredQuiet
<1>1. pc[g] = "start" => QuietBefore(g)  BY Parts DEF BoundaryOK
<1>2. CASE PredecessorDone(g)
  <2>1. PICK x : x = IF bnd[prev[g]].asked THEN "issued" ELSE "read"  OBVIOUS
  <2> QED  BY <1>2, <2>1, QueuedStep DEF PredecessorDone, Goto
<1>3. CASE PredecessorIssued(g)  BY <1>3, QueuedStep DEF PredecessorIssued, Goto
<1>4. CASE WaitAbandoned(g)  BY <1>4, QueuedStep DEF WaitAbandoned, Goto
<1>5. CASE ReadBoundary(g)
  <2>1. PICK x : x = IF bnd[prev[g]].safe /\ ~ctxDone[g] THEN "start" ELSE "refused"  OBVIOUS
  <2> QED  BY <1>0, <1>5, <2>1, QueuedStep DEF ReadBoundary, Goto
<1>6. CASE Refused(g)
  <2>1. PICK x : x = IF bnd[prev[g]].safe THEN "close" ELSE "root"  OBVIOUS
  <2> QED  BY <1>0, <1>6, <2>1, QueuedStep DEF Refused, Goto
<1>7. CASE HistoryFails(g)  BY <1>1, <1>7, QueuedStep DEF HistoryFails, Goto
<1> QED  BY <1>2, <1>3, <1>4, <1>5, <1>6, <1>7

\* The dispatcher returns: an admitted turn that was never sent is then barred.
LEMMA RunKeeps ==
    ASSUME TurnInv, TypeOK', NEW g \in Gens, RunEnds(g) \/ RunStalls(g)
    PROVE  TurnInv'
<1>0. /\ pc[g] = "run" /\ Goto(g, "drain")
      /\ UNCHANGED <<count, slot, prev, done, ctxDone, bnd, obs, cw, turnVars, stop, hit, life>>
  BY DEF RunEnds, RunStalls
<1>1. /\ pc' = [pc EXCEPT ![g] = "drain"]
      /\ UNCHANGED <<count, slot, prev, ctxDone, bnd, obs, cw, turn, live, router>>
  BY <1>0 DEF Goto, turnVars
<1>2. turn[g].at = "bound" => turn[g].decided \/ ctxDone[g]
  <2> SUFFICES ASSUME turn[g].at = "bound", ~turn[g].decided PROVE ctxDone[g]  OBVIOUS
  <2>1. ~turn[g].started /\ ~turn[g].err /\ ~turn[g].drained  BY Parts DEF TurnOK
  <2> QED  BY <2>1 DEF RunEnds, RunStalls
<1>3. QuietBefore(g)  BY <1>0, UnlinkedQuiet
<1>4. SlotMoves  BY <1>1 DEF SlotMoves
<1>5. PICK x \in {"drain", "close", "dereg", "exit"} : x = "drain"  OBVIOUS
<1>6. pc' = [pc EXCEPT ![g] = x] /\ pc[g] # "idle" /\ x \notin {"close", "dereg"}
  BY <1>0, <1>1, <1>5
<1> QED  BY <1>1, <1>2, <1>3, <1>4, <1>6, LateStep

\* close(done) and deregisterGeneration: the slot is freed only behind quiet
\* generations.
LEMMA LeaveKeeps ==
    ASSUME TurnInv, TypeOK', NEW g \in Gens,
           CloseDone(g) \/ Deregister(g) \/ DeregisterIssued(g)
    PROVE  TurnInv'
<1>0. slot = g => g = count  BY SMTT(30), Parts DEF SlotOK, Gens, NoGen
<1>1. QuietUpTo(g) => QuietBefore(g) /\ Quiet(g)
  <2>1. \A k \in Gens : k < g => k <= g  BY SMTT(30) DEF Gens
  <2>2. g <= g  BY SMTT(30) DEF Gens
  <2> QED  BY <2>1, <2>2 DEF QuietUpTo, QuietBefore
<1>2. turn[g].at = "bound" /\ pc[g] # "run" => turn[g].decided \/ ctxDone[g]
  BY Parts DEF TurnOK
<1>3. turn[g].at # "none" => pc[g] \in Late  BY Parts DEF TurnOK
<1>4. CASE CloseDone(g)
  <2>1. ~bnd[g].asked /\ ~bnd[g].retain => QuietUpTo(g)
    BY <1>4, Parts DEF CloseDone, BoundaryOK
  <2>2. /\ pc[g] = "close" /\ pc' = [pc EXCEPT ![g] = "dereg"]
        /\ UNCHANGED <<count, slot, prev, ctxDone, bnd, obs, cw, turn, live, router>>
    BY <1>4 DEF CloseDone, Goto, turnVars
  <2>3. SlotMoves  BY <2>2 DEF SlotMoves
  <2>4. PICK x \in {"drain", "close", "dereg", "exit"} : x = "dereg"  OBVIOUS
  <2>5. pc' = [pc EXCEPT ![g] = x] /\ pc[g] \notin {"idle", "run"} /\ x # "drain"
    BY <2>2, <2>4
  <2> QED  BY <1>1, <1>2, <2>1, <2>2, <2>3, <2>5, LateStep
<1>5. CASE Deregister(g)
  <2>1. PICK x : x = IF slot # g \/ ~bnd[g].asked THEN "exit"
                     ELSE IF pc[g] = "abort" THEN "abortBarrier" ELSE "barrier"
    OBVIOUS
  <2>2. x \in {"exit", "abortBarrier", "barrier"} /\ pc[g] \in {"dereg", "abort"}
        /\ (x = "abortBarrier" => pc[g] = "abort") /\ pc' = [pc EXCEPT ![g] = x]
    BY <1>5, <2>1 DEF Deregister, Goto
  <2>3. SlotMoves
    <3>1. ~bnd[g].asked /\ ~bnd[g].retain => QuietUpTo(g)
      BY <2>2, Parts DEF BoundaryOK
    <3> QED  BY <1>0, <1>5, <3>1 DEF Deregister, SlotMoves
  <2>4. turn[g].at # "none" => x \in Late  BY <1>3, <2>2 DEF Late
  <2>5. pc[g] # "idle" /\ pc[g] # "run" /\ x \notin Ahead
        /\ x \notin {"idle", "run", "start", "drain", "close", "dereg", "abort"}
    BY <2>2 DEF Ahead
  <2>6. UNCHANGED <<count, prev, ctxDone, bnd, obs, cw, turn, live, router>>
    BY <1>5 DEF Deregister, turnVars
  <2> QED  BY <1>2, <2>2, <2>3, <2>4, <2>5, <2>6, PhaseStep
<1>6. CASE DeregisterIssued(g)
  <2>1. SlotMoves
    <3>1. bnd[g].issued /\ ~bnd[g].retain => QuietUpTo(g)  BY Parts DEF BoundaryOK
    <3> QED  BY <1>0, <1>6, <3>1 DEF DeregisterIssued, SlotMoves
  <2>2. pc[g] \in {"barrier", "abortBarrier"} /\ pc' = [pc EXCEPT ![g] = "exit"]
        /\ UNCHANGED <<count, prev, ctxDone, bnd, obs, cw, turn, live, router>>
    BY <1>6 DEF DeregisterIssued, Goto, turnVars
  <2>3. PICK x \in {"drain", "close", "dereg", "exit"} : x = "exit"  OBVIOUS
  <2>4. /\ pc' = [pc EXCEPT ![g] = x] /\ pc[g] \notin {"idle", "run"}
        /\ x \notin {"drain", "close", "dereg"}
    BY <2>2, <2>3
  <2> QED  BY <1>2, <2>1, <2>2, <2>4, LateStep
<1> QED  BY <1>4, <1>5, <1>6

\* The root that generationUnsafeRoot returns for the predecessor.
LEMMA RootQuiet ==
    ASSUME TurnInv, NEW g \in Gens, NEW p \in Gens, p \in {NoGen, g - 1},
           NEW r, r = UnsafeRoot(p), r # NoGen, Quiet(g)
    PROVE  r \in Gens /\ r < g /\ QuietFrom(r, g)
<1>1. p = g - 1  BY SMTT(30) DEF Gens, NoGen
<1>2. CASE r = p
  <2>1. \A k \in Gens : p < k /\ k <= g => k = g  BY SMTT(30), <1>1 DEF Gens
  <2> QED  BY SMTT(30), <1>1, <1>2, <2>1 DEF QuietFrom, Gens
<1>3. CASE r = bnd[p].root
  <2>1. r <= p /\ QuietFrom(r, p)
    <3>1. bnd[p].root <= p /\ QuietFrom(bnd[p].root, p)  BY <1>3, Parts DEF BoundaryOK
    <3> QED  BY <1>3, <3>1 DEF QuietFrom
  <2>2. r \in GenOrNone  BY <1>3, Parts DEF Boundary
  <2>3. \A k \in Gens : r < k /\ k <= g => k = g \/ (r < k /\ k <= p)  BY SMTT(30), <1>1 DEF Gens
  <2>4. r \in Gens /\ r < g  BY SMTT(30), <1>1, <2>1, <2>2 DEF Gens, GenOrNone, NoGen
  <2> QED  BY <2>1, <2>3, <2>4 DEF QuietFrom
<1> QED  BY <1>2, <1>3 DEF UnsafeRoot

\* retainUnsafePredecessor: the generation never had a turn, and inherits the root.
LEMMA RetainRootKeeps ==
    ASSUME TurnInv, TypeOK', NEW g \in Gens, RetainRoot(g)
    PROVE  TurnInv'
<1>0. PICK r : r = UnsafeRoot(prev[g])  OBVIOUS
<1>1. /\ pc[g] = "root" /\ pc' = [pc EXCEPT ![g] = "close"]
      /\ bnd' = [bnd EXCEPT ![g] = Unsafe(@, g, r)]
      /\ obs' = [obs EXCEPT ![g] = ObservePredecessor(@, g, r)]
      /\ UNCHANGED <<count, slot, prev, ctxDone, cw, turn, live, router>>
  BY <1>0 DEF RetainRoot, Goto, turnVars
<1>2. /\ pc'[g] = "close" /\ bnd'[g] = Unsafe(bnd[g], g, r)
      /\ obs'[g] = ObservePredecessor(obs[g], g, r)
  BY <1>1, Parts
<1>3. \A k \in Gens \ {g} : Same(k)  BY <1>1, Parts DEF Same
<1>4. NoRevival  BY <1>1, NothingRevived
<1>5. turn[g].at = "none" /\ Over(g) /\ Quiet(g)
  BY <1>1, Parts, NoTurnQuiet DEF TurnOK, Late, Ahead
<1>6. TurnOpen(g)' <=> TurnOpen(g)  BY <1>1 DEF TurnOpen, Open
<1>7. /\ ~bnd'[g].safe /\ bnd'[g].retain
      /\ bnd'[g].root = (IF r = NoGen THEN g ELSE r)
      /\ bnd'[g].pred = bnd[g].pred /\ bnd'[g].asked = bnd[g].asked
      /\ bnd'[g].issued = bnd[g].issued /\ bnd'[g].closed = bnd[g].closed
  BY SMTT(30), <1>2, Parts DEF Unsafe, Boundary
<1>8. Calm(g)
  <2>1. Barred(g)'  BY <1>1, <1>2, <1>5 DEF Barred, Ahead
  <2> QED  BY <1>1, <1>5, <1>6, <2>1 DEF Calm, Quiet, Over
<1>9. \A k \in Gens : Calm(k)  BY <1>3, <1>4, <1>8, SameCalm
<1>10. OrderOK(g)'  BY <1>1, <1>2, <1>7, Parts DEF OrderOK
<1>11. TurnOK(g)'
  <2>1. pc'[g] # "run" /\ UNCHANGED <<turn, live, router>> /\ ctxDone' = ctxDone  BY <1>1, <1>2
  <2> QED  BY <1>5, <1>7, <2>1, TurnKept
<1>12. VerdictOK(g)'  BY <1>1, <1>7, <1>9, VerdictKept DEF Bound
<1>13. BoundaryOK(g)'
  <2>1. PICK q \in Gens : q = IF r = NoGen THEN g ELSE r
    <3>1. prev[g] \in Gens /\ prev[g] \in {NoGen, g - 1}
      BY <1>1, Parts DEF PredecessorNamed, OrderOK
    <3>2. r # NoGen => r \in Gens  BY <1>0, <1>5, <3>1, RootQuiet
    <3> QED  BY <3>2
  <2>2. q = g \/ (q < g /\ QuietFrom(q, g) /\ Over(g))
    <3>1. prev[g] \in Gens /\ prev[g] \in {NoGen, g - 1}
      BY <1>1, Parts DEF PredecessorNamed, OrderOK
    <3>2. r # NoGen => r < g /\ QuietFrom(r, g)  BY <1>0, <1>5, <3>1, RootQuiet
    <3> QED  BY <1>5, <2>1, <3>2
  <2>3. \/ obs'[g].watch = obs[g].watch /\ obs'[g].on = obs[g].on
        \/ obs'[g].watch = "inherit" /\ obs'[g].on = q /\ q # g
        \/ obs'[g].watch = "spent"
    BY <1>2, <2>1, Parts DEF ObservePredecessor, Spawned, Observers
  <2>4. turn'[g] = turn[g] /\ bnd'[g].root = q /\ count' = count  BY <1>1, <1>7, <2>1
  <2> QED  BY <1>2, <1>7, <1>9, <2>2, <2>3, <2>4, UnsafeBoundary
<1> QED  BY <1>1, <1>3, <1>4, <1>6, <1>8, <1>10, <1>11, <1>12, <1>13, OneStep DEF LocalOK, SlotMoves

\* runGeneration drops the link to a predecessor whose boundary is safe.
LEMMA UnlinkKeeps ==
    ASSUME TurnInv, TypeOK', NEW g \in Gens, StartRun(g)
    PROVE  TurnInv'
<1>1. /\ pc[g] = "start" /\ pc' = [pc EXCEPT ![g] = "run"]
      /\ bnd' = [bnd EXCEPT ![g].pred = NoGen]
      /\ UNCHANGED <<count, slot, prev, ctxDone, obs, cw, turn, live, router>>
  BY DEF StartRun, Goto, turnVars
<1>2. /\ pc'[g] = "run" /\ bnd'[g].pred = NoGen
      /\ bnd'[g].asked = bnd[g].asked /\ bnd'[g].issued = bnd[g].issued
      /\ bnd'[g].safe = bnd[g].safe /\ bnd'[g].retain = bnd[g].retain
      /\ bnd'[g].closed = bnd[g].closed /\ bnd'[g].root = bnd[g].root
  BY <1>1, Parts DEF Boundary
<1>3. \A k \in Gens \ {g} : Same(k)  BY <1>1, Parts DEF Same
<1>4. NoRevival  BY <1>1, NothingRevived
<1>5. turn[g].at = "none" /\ QuietBefore(g)
  BY <1>1, Parts DEF TurnOK, Late, BoundaryOK
<1>6. TurnOpen(g)' <=> TurnOpen(g)  BY <1>1 DEF TurnOpen, Open
<1>7. Calm(g)
  <2>1. Barred(g) => Barred(g)'  BY <1>1, <1>2 DEF Barred, Ahead
  <2> QED  BY <1>1, <1>6, <2>1 DEF Calm, Quiet, Over
<1>8. \A k \in Gens : Calm(k)  BY <1>3, <1>4, <1>7, SameCalm
<1>9. OrderOK(g)'  BY <1>1, <1>2, Parts DEF OrderOK
<1>10. TurnOK(g)'
  <2>1. bnd'[g].pred = NoGen /\ UNCHANGED <<turn, live, router>> /\ ctxDone' = ctxDone  BY <1>1, <1>2
  <2>2. ctxDone[g] => ctxDone'[g]  BY <2>1
  <2> QED  BY <1>2, <1>5, <2>1, <2>2, TurnKept
<1>11. VerdictOK(g)'  BY <1>1, <1>2, <1>8, VerdictKept DEF Bound
<1>12. BoundaryOK(g)'
  <2>1. BoundaryOK(g) /\ obs'[g].on = obs[g].on  BY <1>1, Parts
  <2> QED  BY <1>1, <1>2, <1>5, <1>8, <2>1, Lasting DEF BoundaryOK
<1> QED  BY <1>1, <1>3, <1>4, <1>6, <1>7, <1>9, <1>10, <1>11, <1>12, OneStep DEF LocalOK, SlotMoves

\* markGenerationCompleted: whoever drained without a claim or a tombstone is
\* barred, and its turn is over or stalled.
LEMMA CompleteKeeps ==
    ASSUME TurnInv, TypeOK', NEW g \in Gens, Complete(g)
    PROVE  TurnInv'
<1>1. /\ pc[g] = "drain" /\ pc' = [pc EXCEPT ![g] = "close"]
      /\ turn[g].started => turn[g].returned
      /\ UNCHANGED <<count, slot, prev, ctxDone, obs, cw, turn, live, router>>
  BY DEF Complete, Goto, turnVars
<1>2. QuietBefore(g)  BY <1>1, Parts DEF BoundaryOK
<1>3. CASE bnd[g].asked \/ bnd[g].retain
  <2>1. bnd' = bnd  BY <1>3, Parts DEF Complete
  <2>2. turn[g].at = "bound" => turn[g].decided \/ ctxDone[g]  BY <1>1, Parts DEF TurnOK
  <2>3. SlotMoves  BY <1>1 DEF SlotMoves
  <2>4. PICK x \in {"drain", "close", "dereg", "exit"} : x = "close"  OBVIOUS
  <2>5. pc' = [pc EXCEPT ![g] = x] /\ pc[g] # "idle" /\ x # "drain"  BY <1>1, <2>4
  <2> QED  BY <1>1, <1>3, <2>1, <2>2, <2>3, <2>5, LateStep
<1>4. CASE ~bnd[g].asked /\ ~bnd[g].retain
  <2>1. bnd' = [bnd EXCEPT ![g] = [@ EXCEPT !.safe = TRUE, !.closed = TRUE]]
    BY <1>4 DEF Complete
  <2>2. /\ pc'[g] = "close" /\ bnd'[g].closed /\ bnd'[g].pred = bnd[g].pred
        /\ bnd'[g].asked = bnd[g].asked /\ bnd'[g].issued = bnd[g].issued
        /\ bnd'[g].retain = bnd[g].retain /\ bnd'[g].root = bnd[g].root
    BY <1>1, <2>1, Parts DEF Boundary
  <2>3. \A k \in Gens \ {g} : Same(k)  BY <1>1, <2>1, Parts DEF Same
  <2>4. NoRevival  BY <1>1, NothingRevived
  <2>5. TurnOpen(g)' <=> TurnOpen(g)  BY <1>1 DEF TurnOpen, Open
  <2>6. Barred(g)'
    <3>1. turn[g].at = "bound" => turn[g].decided \/ ctxDone[g]  BY <1>1, Parts DEF TurnOK
    <3>2. turn[g].at \in {"none", "refused", "abandoned", "bound"} \/ turn[g].started
      BY Parts DEF TurnOK, Turn
    <3> QED  BY <1>1, <2>2, <3>1, <3>2 DEF Barred, Ahead
  <2>7. TurnOpen(g) => turn[g].at = "sent"
    BY <1>1, <1>4, Parts DEF TurnOK, TurnOpen, Open
  <2>8. Calm(g) /\ Quiet(g)'
    BY <1>1, <2>5, <2>6, <2>7 DEF Calm, Quiet, Over
  <2>9. \A k \in Gens : Calm(k)  BY <2>3, <2>4, <2>8, SameCalm
  <2>10. OrderOK(g)'  BY <1>1, <2>2, Parts DEF OrderOK
  <2>11. TurnOK(g)'
    <3>1. pc[g] # "run" /\ pc'[g] \in Late /\ pc'[g] # "run"  BY <1>1, <2>2 DEF Late
    <3>2. UNCHANGED <<turn, live, router>> /\ ctxDone' = ctxDone  BY <1>1
    <3> QED  BY <2>2, <3>1, <3>2, TurnKept
  <2>12. VerdictOK(g)'  BY <1>1, <2>2, <2>9, VerdictKept DEF Bound
  <2>13. ~bnd'[g].issued  BY <1>4, <2>2, Parts DEF VerdictOK
  <2>14. BoundaryOK(g)'
    <3>1. obs'[g] = obs[g] /\ turn'[g] = turn[g] /\ count' = count  BY <1>1
    <3> QED  BY <1>2, <2>2, <2>8, <2>9, <2>13, <3>1, SafeBoundary
  <2> QED  BY <1>1, <2>3, <2>4, <2>5, <2>8, <2>10, <2>11, <2>12, <2>14, OneStep DEF LocalOK, SlotMoves
<1> QED  BY <1>3, <1>4

-----------------------------------------------------------------------------
(* Cancellation claims. *)

\* claimGenerationCancellationLocked on generation k, alone or on the way from
\* the drain of an unsettled send.
Claims(k) ==
    /\ cw[k].at = "none" /\ k <= count
    /\ bnd'[k] = [bnd[k] EXCEPT !.asked = TRUE]
    /\ turn'[k] = IF Bound(k) THEN [turn[k] EXCEPT !.decided = TRUE] ELSE turn[k]
    /\ cw'[k].at \in {"claimed", "lost", "turn"}
    /\ cw'[k].at = "turn" => bnd[k].pred = NoGen
    /\ cw'[k].pred = bnd[k].pred
    /\ cw'[k].bind = Bound(k)
    /\ cw'[k].started = turn[k].started
    /\ pc'[k] = pc[k] \/ (pc[k] = "drain" /\ pc'[k] = "close")
    /\ prev'[k] = prev[k]
    /\ ctxDone[k] => ctxDone'[k]
    /\ obs'[k] = obs[k]
    /\ router' = router

\* The fields of a claimed generation.
LEMMA ClaimFields ==
    ASSUME TurnInv, NEW k \in Gens, Claims(k)
    PROVE  /\ bnd'[k].asked
           /\ bnd'[k].pred = bnd[k].pred /\ bnd'[k].issued = bnd[k].issued
           /\ bnd'[k].safe = bnd[k].safe /\ bnd'[k].retain = bnd[k].retain
           /\ bnd'[k].closed = bnd[k].closed /\ bnd'[k].root = bnd[k].root
           /\ turn'[k].at = turn[k].at /\ turn'[k].sess = turn[k].sess
           /\ turn'[k].started = turn[k].started /\ turn'[k].returned = turn[k].returned
           /\ turn'[k].err = turn[k].err /\ turn'[k].drained = turn[k].drained
           /\ turn'[k].cut = turn[k].cut
           /\ Bound(k) => turn'[k].decided
           /\ ~Bound(k) => turn'[k].decided = turn[k].decided
<1>1. bnd[k] \in Boundary /\ turn[k] \in Turn  BY Parts
<1>2. CASE Bound(k)
  <2>1. turn'[k] = [turn[k] EXCEPT !.decided = TRUE]  BY <1>2 DEF Claims
  <2> QED  BY <1>1, <1>2, <2>1 DEF Claims, Boundary, Turn
<1>3. CASE ~Bound(k)
  <2>1. turn'[k] = turn[k]  BY <1>3 DEF Claims
  <2> QED  BY <1>1, <1>3, <2>1 DEF Claims, Boundary
<1> QED  BY <1>2, <1>3

LEMMA ClaimCalm ==
    ASSUME TurnInv, NEW k \in Gens, Claims(k), NoRevival
    PROVE  Calm(k) /\ (TurnOpen(k)' => TurnOpen(k))
<1>1. TurnOpen(k)' => TurnOpen(k)  BY ClaimFields DEF NoRevival, TurnOpen, Open
<1>2. pc[k] \notin Ahead => pc'[k] \notin Ahead  BY DEF Claims, Ahead
<1>3. Barred(k) => Barred(k)'
  <2>1. turn[k].at = "bound" => Bound(k)  BY DEF Bound
  <2> QED  BY <1>2, <2>1, ClaimFields DEF Barred, Claims
<1>4. router' = router  BY DEF Claims
<1> QED  BY <1>1, <1>3, <1>4, ClaimFields DEF Calm, Quiet, Over

LEMMA ClaimKept ==
    ASSUME TurnInv, NEW k \in Gens, Claims(k), NoRevival, \A j \in Gens : Calm(j),
           count' = count
    PROVE  LocalOK(k)'
<1>0. /\ OrderOK(k) /\ TurnOK(k) /\ VerdictOK(k) /\ BoundaryOK(k)
      /\ TurnOpen(k)' => TurnOpen(k)
  BY Parts, ClaimCalm
<1>1. OrderOK(k)'
  <2>1. ~(k > count)  BY SMTT(30), Parts, NAssumption DEF Claims, Gens, GenOrNone
  <2>2. pc'[k] = "idle" <=> pc[k] = "idle"  BY DEF Claims
  <2> QED  BY <1>0, <2>1, <2>2, ClaimFields DEF OrderOK, Claims
<1>2. TurnOK(k)'
  <2>1. turn[k].at = "none" => k \notin live' /\ \A j \in Gens : turn'[j].sess # k
    BY ClaimFields DEF NoRevival
  <2>2. turn[k].at = "bound" => turn'[k].decided  BY ClaimFields DEF Bound
  <2>3. turn[k].at \in {"none", "refused"} => turn'[k].decided = turn[k].decided
    BY ClaimFields DEF Bound
  <2>4. /\ pc[k] \in Late => pc'[k] \in Late
        /\ pc'[k] = "run" => pc[k] = "run"
        /\ router' = router
    BY DEF Claims, Late
  <2> QED  BY <1>0, <2>1, <2>2, <2>3, <2>4, ClaimFields DEF TurnOK
<1>3. VerdictOK(k)'
  <2>1. Bound(k)' <=> Bound(k)  BY ClaimFields DEF Bound
  <2>2. Bound(k) => bnd[k].pred = NoGen  BY <1>0 DEF TurnOK, Bound
  <2>3. bnd[k].pred = NoGen => QuietBefore(k)'  BY <1>0, Lasting DEF BoundaryOK, Claims
  <2>4. ~bnd[k].issued  BY <1>0 DEF VerdictOK, Claims
  <2>5. cw'[k].at \notin {"none", "end", "drain", "stopWait", "decide"}  BY DEF Claims
  <2> QED  BY <2>1, <2>2, <2>3, <2>4, <2>5, ClaimFields DEF VerdictOK, Claims
<1>4. BoundaryOK(k)'
  <2>1. pc'[k] \in {"start", "drain"} => pc[k] = pc'[k]  BY DEF Claims
  <2>2. ~bnd[k].issued /\ obs'[k].on = obs[k].on  BY <1>0 DEF VerdictOK, Claims
  <2> QED  BY <1>0, <2>1, <2>2, ClaimFields, Lasting DEF BoundaryOK, Claims
<1> QED  BY <1>1, <1>2, <1>3, <1>4 DEF LocalOK

\* A chain of claims taken under one lock hold.
LEMMA ClaimAll ==
    ASSUME TurnInv, TypeOK', count' = count, slot' = slot, live' = live,
           \A k \in Gens : Same(k) \/ Claims(k)
    PROVE  TurnInv'
<1>1. NoRevival
  <2>1. \A k \in Gens : turn'[k].sess = turn[k].sess /\ turn'[k].at = turn[k].at
    BY ClaimFields DEF Same
  <2> QED  BY <2>1, NothingRevived
<1>2. \A k \in Gens : Calm(k) /\ (TurnOpen(k)' => TurnOpen(k))  BY <1>1, SameCalm, ClaimCalm
<1>3. \A k \in Gens : LocalOK(k)'  BY <1>1, <1>2, SameKept, ClaimKept
<1>4. SlotOK'  BY <1>2, SlotKept DEF SlotMoves
<1>5. TurnExclusive'
  <2>1. TurnExclusive  BY DEF TurnInv
  <2> QED  BY <1>2, <2>1 DEF TurnExclusive
<1> QED  BY <1>3, <1>4, <1>5 DEF TurnInv, LocalOK

\* What the claim of a set of generations does to each of them.
LEMMA ClaimEach ==
    ASSUME TurnInv, NEW S, NEW head, NEW k \in Gens,
           bnd' = ClaimBoundary(S), cw' = ClaimWorker(S, head), turn' = ClaimTurn(S),
           UNCHANGED <<pc, prev, ctxDone, obs, router>>
    PROVE  Same(k) \/ Claims(k)
<1>1. CASE k \notin Claimed(S)
  <2>1. bnd'[k] = bnd[k] /\ cw'[k] = cw[k] /\ turn'[k] = turn[k]
    BY <1>1 DEF ClaimBoundary, ClaimWorker, ClaimTurn
  <2> QED  BY <2>1 DEF Same
<1>2. CASE k \in Claimed(S)
  <2>1. cw[k].at = "none" /\ k <= count  BY SMTT(30), <1>2, Parts DEF Claimed, Gens, GenOrNone
  <2>2. /\ bnd'[k] = [bnd[k] EXCEPT !.asked = TRUE]
        /\ turn'[k] = IF Bound(k) THEN [turn[k] EXCEPT !.decided = TRUE] ELSE turn[k]
        /\ cw'[k] = [cw[k] EXCEPT !.at = "claimed", !.head = head, !.pred = bnd[k].pred,
                                  !.bind = Bound(k), !.started = turn[k].started]
    BY <1>2 DEF ClaimBoundary, ClaimWorker, ClaimTurn
  <2>3. /\ cw'[k].at = "claimed" /\ cw'[k].pred = bnd[k].pred
        /\ cw'[k].bind = Bound(k) /\ cw'[k].started = turn[k].started
    BY SMTT(30), <2>2, Parts DEF Worker
  <2> QED  BY <2>1, <2>2, <2>3 DEF Claims
<1> QED  BY <1>1, <1>2

\* User stops and the claims of shutdown.
LEMMA StopKeeps ==
    ASSUME TurnInv, TypeOK', UserStop \/ ShutdownBegins
    PROVE  TurnInv'
<1>1. CASE StopReads
  <2>1. \A k \in Gens : Same(k)  BY <1>1 DEF StopReads, genVars, turnVars, Same
  <2>2. NoRevival  BY <1>1, NothingRevived DEF StopReads, turnVars
  <2> QED  BY <1>1, <2>1, <2>2, NoStep DEF StopReads, genVars, SlotMoves
<1>2. CASE StopClaims
  <2>1. PICK S, head : S = ClaimChain[stop] /\ head = stop  OBVIOUS
  <2>2. \A k \in Gens : Same(k) \/ Claims(k)
    BY <1>2, <2>1, ClaimEach DEF StopClaims, genVars
  <2> QED  BY <1>2, <2>2, ClaimAll DEF StopClaims, genVars
<1>3. ASSUME NEW g \in Gens, CancelOne(g) PROVE TurnInv'
  <2>1. \A k \in Gens : Same(k) \/ Claims(k)
    BY <1>3, ClaimEach DEF CancelOne, genVars
  <2> QED  BY <1>3, <2>1, ClaimAll DEF CancelOne, genVars
<1>4. CASE ShutdownBegins
  <2>1. PICK S : S = ClaimChain[slot]  OBVIOUS
  <2>2. \A k \in Gens : Same(k) \/ Claims(k)
    BY <1>4, <2>1, ClaimEach DEF ShutdownBegins, genVars
  <2> QED  BY <1>4, <2>2, ClaimAll DEF ShutdownBegins, genVars
<1> QED  BY <1>1, <1>2, <1>3, <1>4 DEF UserStop

\* SendInput did not return in time: the goroutine claims its own generation.
LEMMA SendUnsettledKeeps ==
    ASSUME TurnInv, TypeOK', NEW g \in Gens, SendUnsettled(g)
    PROVE  TurnInv'
<1>1. /\ pc[g] = "drain" /\ turn[g].started /\ pc' = [pc EXCEPT ![g] = "close"]
      /\ bnd' = ClaimBoundary({g}) /\ turn' = ClaimTurn({g})
      /\ ctxDone' = [ctxDone EXCEPT ![g] = @ \/ cw[g].at = "none"]
      /\ UNCHANGED <<count, slot, prev, obs, live, router>>
  BY DEF SendUnsettled, Goto
<1>2. \A k \in Gens \ {g} : bnd'[k] = bnd[k] /\ turn'[k] = turn[k] /\ pc'[k] = pc[k] /\ ctxDone'[k] = ctxDone[k]
  BY <1>1, Parts DEF ClaimBoundary, ClaimTurn, Claimed
<1>3. CASE cw[g].at # "none"
  <2>1. bnd'[g] = bnd[g] /\ turn'[g] = turn[g] /\ cw' = cw /\ ctxDone'[g] = ctxDone[g]
    BY SMTT(30), <1>1, <1>3, Parts DEF ClaimBoundary, ClaimTurn, Claimed, SendUnsettled
  <2>2. bnd' = bnd /\ turn' = turn /\ ctxDone' = ctxDone
    <3>1. \A k \in Gens : bnd'[k] = bnd[k] /\ turn'[k] = turn[k] /\ ctxDone'[k] = ctxDone[k]
      BY <1>2, <2>1
    <3> QED  BY <1>1, <3>1, Parts DEF ClaimBoundary, ClaimTurn
  <2>3. bnd[g].asked /\ turn[g].at # "bound"  BY <1>1, <1>3, Parts DEF VerdictOK, TurnOK
  <2>4. SlotMoves  BY <1>1 DEF SlotMoves
  <2>5. PICK x \in {"drain", "close", "dereg", "exit"} : x = "close"  OBVIOUS
  <2>6. pc' = [pc EXCEPT ![g] = x] /\ pc[g] # "idle" /\ x # "drain"  BY <1>1, <2>5
  <2> QED  BY <1>1, <2>1, <2>2, <2>3, <2>4, <2>6, LateStep
<1>4. CASE cw[g].at = "none"
  <2>1. g \in Claimed({g}) /\ g <= count
    BY SMTT(30), <1>1, <1>4, Parts, NAssumption DEF Claimed, OrderOK, Gens, GenOrNone
  <2>2. /\ bnd'[g] = [bnd[g] EXCEPT !.asked = TRUE]
        /\ turn'[g] = IF Bound(g) THEN [turn[g] EXCEPT !.decided = TRUE] ELSE turn[g]
    BY <1>1, <2>1 DEF ClaimBoundary, ClaimTurn
  <2>3. PICK a : a = IF Down THEN "lost" ELSE "turn"  OBVIOUS
  <2>4. cw' = [ClaimWorker({g}, g) EXCEPT ![g].at = a]  BY <1>4, <2>3 DEF SendUnsettled
  <2>5. /\ cw'[g].at = a /\ cw'[g].pred = bnd[g].pred
        /\ cw'[g].bind = Bound(g) /\ cw'[g].started = turn[g].started
    BY <2>1, <2>4, Parts DEF ClaimWorker, Worker
  <2>6. \A k \in Gens \ {g} : cw'[k] = cw[k]  BY <2>4 DEF ClaimWorker, Claimed
  <2>7. bnd[g].pred = NoGen  BY <1>1, Parts DEF TurnOK
  <2>8. pc'[g] = "close" /\ ctxDone'[g]  BY <1>1, <1>4, Parts
  <2>9. Claims(g)
    BY <1>1, <1>4, <2>1, <2>2, <2>3, <2>5, <2>7, <2>8 DEF Claims
  <2>10. \A k \in Gens \ {g} : Same(k)  BY <1>1, <1>2, <2>6 DEF Same
  <2>11. \A k \in Gens : Same(k) \/ Claims(k)  BY <2>9, <2>10
  <2> QED  BY <1>1, <2>11, ClaimAll
<1> QED  BY <1>3, <1>4

-----------------------------------------------------------------------------
(* The runtime turn of one generation, its worker and its watchers. *)

\* A step about the turn, the boundary, the observers and the worker of g: the
\* phases, the contexts and the sessions stay, and g may only give the router up.
TurnFrame(g) ==
    /\ UNCHANGED <<count, slot, pc, prev, ctxDone, live>>
    /\ \A k \in Gens \ {g} :
           bnd'[k] = bnd[k] /\ obs'[k] = obs[k] /\ cw'[k] = cw[k] /\ turn'[k] = turn[k]
    /\ router' = router \/ (router = g /\ router' = NoGen)
    /\ turn'[g].sess = turn[g].sess
    /\ turn'[g].at = "none" <=> turn[g].at = "none"
    /\ bnd'[g].asked = bnd[g].asked
    /\ bnd'[g].pred = bnd[g].pred
    /\ cw'[g].pred = cw[g].pred
    /\ cw[g].at = "none" => cw'[g].at = "none"
    /\ Barred(g) => /\ Barred(g)'
                    /\ TurnOpen(g)' => TurnOpen(g) /\ (turn[g].at = "sent" => turn'[g].at = "sent")

LEMMA TurnFrameCalm ==
    ASSUME TurnInv, NEW g \in Gens, TurnFrame(g)
    PROVE  /\ NoRevival
           /\ \A k \in Gens \ {g} : Same(k)
           /\ \A k \in Gens : Calm(k)
           /\ OrderOK(g)'
<1>1. NoRevival
  <2>1. \A k \in Gens : turn'[k].sess = turn[k].sess /\ (turn'[k].at = "none" <=> turn[k].at = "none")
    BY DEF TurnFrame
  <2> QED  BY <2>1, NothingRevived DEF TurnFrame
<1>2. \A k \in Gens \ {g} : Same(k)
  <2>1. \A k \in Gens \ {g} : router' = k <=> router = k  BY SMTT(30) DEF TurnFrame, Gens, NoGen
  <2> QED  BY <2>1 DEF TurnFrame, Same
<1>3. router # g => router' # g  BY DEF TurnFrame, Gens, NoGen
<1>4. Calm(g)  BY <1>3 DEF TurnFrame, Calm, Quiet, Over
<1>5. \A k \in Gens : Calm(k)  BY <1>1, <1>2, <1>4, SameCalm
<1>6. OrderOK(g)'  BY Parts DEF OrderOK, TurnFrame
<1> QED  BY <1>1, <1>2, <1>5, <1>6

LEMMA TurnStep ==
    ASSUME TurnInv, TypeOK', NEW g \in Gens, TurnFrame(g),
           TurnOK(g)', VerdictOK(g)', BoundaryOK(g)',
           (TurnOpen(g)' => TurnOpen(g)) \/ \A k \in Gens \ {g} : ~TurnOpen(k)
    PROVE  TurnInv'
<1>1. count' = count /\ SlotMoves  BY DEF TurnFrame, SlotMoves
<1> QED  BY <1>1, TurnFrameCalm, OneStep DEF LocalOK

\* A step of the turn alone.
LEMMA TurnOnly ==
    ASSUME TurnInv, TypeOK', NEW g \in Gens, TurnFrame(g), TurnOK(g)',
           UNCHANGED <<bnd, obs, cw>>,
           turn[g].started => turn'[g].started,
           cw[g].at # "none" => /\ Bound(g)' <=> Bound(g)
                                /\ turn'[g].started <=> turn[g].started
                                /\ turn[g].decided => turn'[g].decided,
           (TurnOpen(g)' => TurnOpen(g)) \/ \A k \in Gens \ {g} : ~TurnOpen(k)
    PROVE  TurnInv'
<1>1. \A k \in Gens : Calm(k)  BY TurnFrameCalm
<1>2. count' = count /\ pc' = pc  BY DEF TurnFrame
<1>3. VerdictOK(g)'  BY <1>1, VerdictKept
<1>4. BoundaryOK(g)'  BY <1>1, <1>2, BoundaryKept
<1> QED  BY <1>3, <1>4, TurnStep

\* The prompt is on its way or came back: the send goroutine and the terminal
\* event.  The turn goes from phase to phase and its boundary stays.
LEMMA SendReturnsKeeps ==
    ASSUME TurnInv, TypeOK', NEW g \in Gens, SendReturns(g)
    PROVE  TurnInv'
<1>1. /\ turn[g].at = "sending"
      /\ turn' = [turn EXCEPT ![g] = [@ EXCEPT !.at = "sent", !.returned = TRUE]]
      /\ UNCHANGED <<count, slot, pc, prev, ctxDone, bnd, obs, cw, live, router>>
  BY DEF SendReturns, genVars
<1>2. /\ turn'[g].at = "sent" /\ turn'[g].returned
      /\ turn'[g].sess = turn[g].sess /\ turn'[g].decided = turn[g].decided
      /\ turn'[g].started = turn[g].started /\ turn'[g].err = turn[g].err
      /\ turn'[g].drained = turn[g].drained /\ turn'[g].cut = turn[g].cut
      /\ \A k \in Gens \ {g} : turn'[k] = turn[k]
  BY <1>1, Parts DEF Turn
<1>3. TurnOpen(g)' <=> TurnOpen(g)  BY SMTT(30), <1>1, <1>2 DEF TurnOpen, Open
<1>4. turn[g].started  BY <1>1, Parts DEF TurnOK
<1>5. TurnFrame(g)  BY <1>1, <1>2, <1>3, <1>4 DEF TurnFrame, Barred
<1>6. TurnOK(g)'  BY <1>1, <1>2, <1>3, <1>4, Parts DEF TurnOK
<1> QED  BY <1>1, <1>2, <1>3, <1>4, <1>5, <1>6, TurnOnly DEF Bound

LEMMA FailureReturnedKeeps ==
    ASSUME TurnInv, TypeOK', NEW g \in Gens, FailureReturned(g)
    PROVE  TurnInv'
<1>1. /\ turn[g].at = "failing"
      /\ turn' = [turn EXCEPT ![g] = [@ EXCEPT !.at = "failed", !.returned = TRUE, !.err = TRUE]]
      /\ UNCHANGED <<count, slot, pc, prev, ctxDone, bnd, obs, cw, live, router>>
  BY DEF FailureReturned, genVars
<1>2. /\ turn'[g].at = "failed" /\ turn'[g].returned
      /\ turn'[g].sess = turn[g].sess /\ turn'[g].decided = turn[g].decided
      /\ turn'[g].started = turn[g].started
      /\ turn'[g].drained = turn[g].drained /\ turn'[g].cut = turn[g].cut
      /\ \A k \in Gens \ {g} : turn'[k] = turn[k]
  BY <1>1, Parts DEF Turn
<1>3. TurnOpen(g)' <=> TurnOpen(g)  BY SMTT(30), <1>1, <1>2 DEF TurnOpen, Open
<1>4. turn[g].started  BY <1>1, Parts DEF TurnOK
<1>5. TurnFrame(g)  BY <1>1, <1>2, <1>3, <1>4 DEF TurnFrame, Barred
<1>6. TurnOK(g)'  BY <1>1, <1>2, <1>3, <1>4, Parts DEF TurnOK
<1> QED  BY <1>1, <1>2, <1>3, <1>4, <1>5, <1>6, TurnOnly DEF Bound

\* cleanupFailedRuntimeSend stops the wrapper, or gives up waiting for it: the
\* tombstone stays.
LEMMA CleanupKeeps ==
    ASSUME TurnInv, TypeOK', NEW g \in Gens, CleanupStop(g) \/ CleanupTimesOut(g)
    PROVE  TurnInv'
<1>1. PICK a : a = IF turn[g].at = "failed" THEN "cleanup" ELSE "cleaned"  OBVIOUS
<1>2. /\ turn[g].at \in {"failed", "cleanup"}
      /\ turn' = [turn EXCEPT ![g].at = a]
      /\ UNCHANGED <<count, slot, pc, prev, ctxDone, bnd, obs, cw, live>>
  BY <1>1 DEF CleanupStop, CleanupTimesOut, genVars
<1>3. /\ turn'[g].at = a /\ turn'[g].returned = turn[g].returned
      /\ turn'[g].sess = turn[g].sess /\ turn'[g].decided = turn[g].decided
      /\ turn'[g].started = turn[g].started /\ turn'[g].err = turn[g].err
      /\ turn'[g].drained = turn[g].drained /\ turn'[g].cut = turn[g].cut
      /\ \A k \in Gens \ {g} : turn'[k] = turn[k]
  BY <1>2, Parts DEF Turn
<1>4. a \in {"cleanup", "cleaned"}  BY <1>1
<1>5. router' = router \/ (router = g /\ router' = NoGen)
  BY DEF CleanupStop, CleanupTimesOut, Retired
<1>6. TurnOpen(g)' <=> TurnOpen(g)  BY SMTT(30), <1>2, <1>3 DEF TurnOpen, Open
<1>7. turn[g].started /\ turn[g].returned  BY <1>2, Parts DEF TurnOK
<1>8. TurnFrame(g)  BY <1>2, <1>3, <1>4, <1>5, <1>6, <1>7 DEF TurnFrame, Barred
<1>9. router # g => router' # g  BY <1>5 DEF Gens, NoGen
<1>10. TurnOK(g)'
  BY <1>2, <1>3, <1>4, <1>6, <1>7, <1>9, Parts DEF TurnOK
<1> QED  BY <1>2, <1>3, <1>4, <1>6, <1>7, <1>8, <1>10, TurnOnly DEF Bound

\* The runtime ends the turn.
LEMMA TurnTerminalKeeps ==
    ASSUME TurnInv, TypeOK', NEW g \in Gens, TurnTerminal(g)
    PROVE  TurnInv'
<1>1. /\ TurnOpen(g) /\ router' = Retired(g)
      /\ turn' = [turn EXCEPT ![g] = [Finished(@) EXCEPT !.cut = FALSE]]
      /\ UNCHANGED <<count, slot, pc, prev, ctxDone, bnd, obs, cw, live>>
  BY DEF TurnTerminal, genVars
<1>2. /\ turn'[g].drained /\ ~turn'[g].cut
      /\ turn'[g].at = turn[g].at /\ turn'[g].returned = turn[g].returned
      /\ turn'[g].sess = turn[g].sess /\ turn'[g].decided = turn[g].decided
      /\ turn'[g].started = turn[g].started /\ turn'[g].err = turn[g].err
      /\ \A k \in Gens \ {g} : turn'[k] = turn[k]
  BY SMTT(30), <1>1, Parts DEF Turn, Finished
<1>3. ~TurnOpen(g)'  BY <1>2 DEF TurnOpen, Open
<1>4. turn[g].started  BY <1>1 DEF TurnOpen, Open
<1>5. (router' = router \/ (router = g /\ router' = NoGen)) /\ router' # g
  BY SMTT(30), <1>1 DEF Retired, Gens, NoGen
<1>6. TurnFrame(g)  BY <1>1, <1>2, <1>3, <1>4, <1>5 DEF TurnFrame, Barred
<1>7. TurnOK(g)'  BY <1>1, <1>2, <1>3, <1>4, <1>5, Parts DEF TurnOK
<1> QED  BY <1>1, <1>2, <1>3, <1>4, <1>6, <1>7, TurnOnly DEF Bound

\* SendInput failed: the tombstone is set before anything else.
LEMMA SendFailsKeeps ==
    ASSUME TurnInv, TypeOK', NEW g \in Gens, SendFails(g)
    PROVE  TurnInv'
<1>1. /\ turn[g].at = "sending" /\ turn' = [turn EXCEPT ![g].at = "failing"]
      /\ bnd' = [bnd EXCEPT ![g] = Unsafe(@, g, g)]
      /\ obs' = [obs EXCEPT ![g] = ObserveRuntime(@)]
      /\ UNCHANGED <<count, slot, pc, prev, ctxDone, cw, live, router>>
  BY DEF SendFails, genVars
<1>2. /\ turn'[g].at = "failing" /\ turn'[g].returned = turn[g].returned
      /\ turn'[g].sess = turn[g].sess /\ turn'[g].decided = turn[g].decided
      /\ turn'[g].started = turn[g].started /\ turn'[g].err = turn[g].err
      /\ turn'[g].drained = turn[g].drained /\ turn'[g].cut = turn[g].cut
      /\ \A k \in Gens \ {g} : turn'[k] = turn[k]
  BY <1>1, Parts DEF Turn
<1>3. /\ ~bnd'[g].safe /\ bnd'[g].retain /\ bnd'[g].root = g
      /\ bnd'[g].pred = bnd[g].pred /\ bnd'[g].asked = bnd[g].asked
      /\ bnd'[g].issued = bnd[g].issued /\ bnd'[g].closed = bnd[g].closed
      /\ \A k \in Gens \ {g} : bnd'[k] = bnd[k]
  BY <1>1, Parts DEF Unsafe, Boundary, Gens, NoGen
<1>4. /\ \/ obs'[g].watch = obs[g].watch /\ obs'[g].on = obs[g].on
         \/ obs'[g].watch \in {"runtime", "spent"}
      /\ \A k \in Gens \ {g} : obs'[k] = obs[k]
  BY <1>1, Parts DEF ObserveRuntime, Spawned, Observers
<1>5. TurnOpen(g)' <=> TurnOpen(g)  BY SMTT(30), <1>1, <1>2 DEF TurnOpen, Open
<1>6. turn[g].started  BY <1>1, Parts DEF TurnOK
<1>7. TurnFrame(g)  BY <1>1, <1>2, <1>3, <1>4, <1>5, <1>6 DEF TurnFrame, Barred
<1>8. TurnOK(g)'  BY <1>1, <1>2, <1>3, <1>5, <1>6, Parts DEF TurnOK
<1>9. \A k \in Gens : Calm(k)  BY <1>7, TurnFrameCalm
<1>10. VerdictOK(g)'  BY <1>1, <1>2, <1>3, <1>9, VerdictKept DEF Bound
<1>11. BoundaryOK(g)'
  <2>1. count' = count /\ pc'[g] = pc[g] /\ turn'[g].started  BY <1>1, <1>2, <1>6
  <2> QED  BY <1>3, <1>4, <1>9, <2>1, UnsafeBoundary
<1> QED  BY <1>5, <1>7, <1>8, <1>10, <1>11, TurnStep

\* A prompt may enter the runtime only when no other is open: the generations
\* ahead are quiet and the router is free of them, and a later one would have
\* waited until this one was barred.
LEMMA NoOtherOpen ==
    ASSUME TurnInv, NEW g \in Gens, turn[g].at # "none", ~Barred(g), router = g,
           NEW k \in Gens \ {g}
    PROVE  ~TurnOpen(k)
<1> SUFFICES ASSUME TurnOpen(k) PROVE FALSE  OBVIOUS
<1>1. k < g \/ g < k  BY SMTT(30) DEF Gens
<1>2. CASE k < g
  <2>1. QuietBefore(g)  BY UnlinkedQuiet
  <2>2. turn[k].at = "sent"  BY <1>2, <2>1 DEF QuietBefore, Quiet
  <2> QED  BY <2>2, Parts DEF TurnOK
<1>3. CASE g < k
  <2>1. turn[k].at # "none"  BY Parts DEF TurnOK, TurnOpen, Open
  <2>2. QuietBefore(k)  BY <2>1, UnlinkedQuiet
  <2> QED  BY <1>3, <2>2 DEF QuietBefore, Quiet
<1> QED  BY <1>1, <1>2, <1>3

\* beginRuntimeSend.
LEMMA BeginSendKeeps ==
    ASSUME TurnInv, TypeOK', NEW g \in Gens, BeginSend(g)
    PROVE  TurnInv'
<1>0. /\ turn[g].at = "bound"
      /\ UNCHANGED <<count, slot, pc, prev, ctxDone, bnd, obs, cw, live>>
  BY DEF BeginSend, genVars
<1>1. ~turn[g].started /\ ~turn[g].returned /\ ~turn[g].err /\ ~turn[g].cut  BY <1>0, Parts DEF TurnOK
<1>2. CASE turn[g].decided \/ bnd[g].asked \/ ctxDone[g]
  <2>1. /\ router' = Retired(g)
        /\ turn' = [turn EXCEPT ![g] = Finished([@ EXCEPT !.at = "abandoned", !.decided = TRUE])]
    BY <1>2 DEF BeginSend
  <2>2. /\ turn'[g].at = "abandoned" /\ turn'[g].decided /\ turn'[g].drained
        /\ turn'[g].sess = turn[g].sess /\ turn'[g].started = turn[g].started
        /\ turn'[g].returned = turn[g].returned /\ turn'[g].err = turn[g].err
        /\ ~turn'[g].cut
        /\ \A k \in Gens \ {g} : turn'[k] = turn[k]
    BY SMTT(30), <1>1, <2>1, Parts DEF Turn, Finished, Open
  <2>3. ~TurnOpen(g)'  BY <1>1, <2>2 DEF TurnOpen, Open
  <2>4. (router' = router \/ (router = g /\ router' = NoGen)) /\ router' # g
    BY SMTT(30), <2>1 DEF Retired, Gens, NoGen
  <2>5. TurnFrame(g)  BY <1>0, <1>1, <2>2, <2>3, <2>4 DEF TurnFrame, Barred
  <2>6. TurnOK(g)'  BY <1>0, <1>1, <2>2, <2>3, <2>4, Parts DEF TurnOK
  <2> QED  BY <1>0, <1>1, <2>2, <2>3, <2>5, <2>6, TurnOnly DEF Bound
<1>3. CASE ~(turn[g].decided \/ bnd[g].asked \/ ctxDone[g])
  <2>1. /\ router' = router
        /\ turn' = [turn EXCEPT ![g] =
                         [@ EXCEPT !.at = "sending", !.decided = TRUE, !.started = TRUE]]
    BY <1>3 DEF BeginSend
  <2>2. /\ turn'[g].at = "sending" /\ turn'[g].decided /\ turn'[g].started
        /\ turn'[g].sess = turn[g].sess /\ turn'[g].drained = turn[g].drained
        /\ turn'[g].returned = turn[g].returned /\ turn'[g].err = turn[g].err
        /\ turn'[g].cut = turn[g].cut
        /\ \A k \in Gens \ {g} : turn'[k] = turn[k]
    BY SMTT(30), <2>1, Parts DEF Turn
  <2>3. ~Barred(g)  BY <1>0, <1>1, <1>3 DEF Barred
  <2>4. router = g  BY <1>0, <1>3, Parts DEF TurnOK
  <2>5. \A k \in Gens \ {g} : ~TurnOpen(k)  BY <1>0, <2>3, <2>4, NoOtherOpen
  <2>6. cw[g].at = "none"  BY <1>3, Parts DEF VerdictOK
  <2>7. TurnFrame(g)  BY <1>0, <2>1, <2>2, <2>3 DEF TurnFrame
  <2>8. TurnOK(g)'  BY <1>0, <1>1, <2>1, <2>2, <2>4, Parts DEF TurnOK
  <2> QED  BY <1>0, <1>1, <2>2, <2>5, <2>6, <2>7, <2>8, TurnOnly
<1> QED  BY <1>2, <1>3

\* driveBootSession: the turn is admitted with the router, or refused.
LEMMA AdmitTurnKeeps ==
    ASSUME TurnInv, TypeOK', NEW g \in Gens, AdmitTurn(g)
    PROVE  TurnInv'
<1>0. PICK s : s = IF entry \in live THEN entry ELSE g  OBVIOUS
<1>1. PICK a : a = IF Admits(g) THEN "bound" ELSE "refused"  OBVIOUS
<1>2. /\ pc[g] = "run" /\ turn[g].at = "none"
      /\ turn' = [turn EXCEPT ![g] = [@ EXCEPT !.sess = s, !.at = a]]
      /\ live' = live \cup {s}
      /\ router' = IF Admits(g) THEN g ELSE router
      /\ UNCHANGED <<count, slot, pc, prev, ctxDone, bnd, obs, cw>>
  BY <1>0, <1>1 DEF AdmitTurn, genVars
<1>3. /\ turn'[g].at = a /\ turn'[g].sess = s
      /\ turn'[g].decided = turn[g].decided /\ turn'[g].started = turn[g].started
      /\ turn'[g].returned = turn[g].returned /\ turn'[g].err = turn[g].err
      /\ turn'[g].drained = turn[g].drained /\ turn'[g].cut = turn[g].cut
      /\ \A k \in Gens \ {g} : turn'[k] = turn[k]
  BY <1>2, Parts DEF Turn
<1>4. /\ ~turn[g].started /\ ~turn[g].returned /\ ~turn[g].err /\ ~turn[g].cut
      /\ ~turn[g].decided /\ ~turn[g].drained /\ router # g
      /\ \A k \in Gens : turn[k].sess # g
  BY <1>2, Parts DEF TurnOK
<1>5. s \in live \/ s = g  BY <1>0
<1>6. NoRevival
  <2>1. \A k \in Gens : turn[k].sess \in live' => turn[k].sess \in live
    BY <1>2, <1>4, <1>5
  <2>2. ASSUME NEW k \in Gens, turn'[k].at = "none"
        PROVE  k \notin live' /\ \A j \in Gens : turn'[j].sess # k
    <3>1. k # g /\ turn[k].at = "none"  BY <1>1, <1>3, <2>2
    <3>2. k \notin live /\ \A j \in Gens : turn[j].sess # k  BY <3>1, Parts DEF TurnOK
    <3>3. k # s  BY <1>5, <3>1, <3>2
    <3> QED  BY SMTT(30), <1>2, <1>3, <3>2, <3>3
  <2> QED  BY <2>1, <2>2 DEF NoRevival
<1>7. \A k \in Gens \ {g} : Same(k)
  <2>1. \A k \in Gens \ {g} : router' = k <=> router = k
    BY SMTT(30), <1>2 DEF Admits, Gens, NoGen
  <2> QED  BY <1>2, <1>3, <2>1 DEF Same
<1>8. ~TurnOpen(g)'  BY <1>3, <1>4 DEF TurnOpen, Open
<1>9. Barred(g) => a = "refused"  BY <1>1, <1>2, <1>4 DEF Barred, Admits, Ahead
<1>10. a = "refused" => router' # g  BY <1>1, <1>2, <1>4
<1>11. Calm(g)  BY <1>3, <1>8, <1>9, <1>10 DEF Calm, Quiet, Over, Barred
<1>12. \A k \in Gens : Calm(k)  BY <1>6, <1>7, <1>11, SameCalm
<1>13. OrderOK(g)'  BY <1>2, Parts DEF OrderOK
<1>14. TurnOK(g)'
  <2>1. a \in {"bound", "refused"} /\ (a = "bound" => router' = g)  BY <1>1, <1>2
  <2> QED  BY <1>2, <1>3, <1>4, <1>8, <1>10, <2>1, Parts DEF TurnOK, Late
<1>15. VerdictOK(g)'
  <2>1. cw[g].at # "none" => a = "refused"  BY <1>1, Parts DEF VerdictOK, Admits
  <2> QED  BY <1>2, <1>3, <1>4, <1>12, <2>1, VerdictKept DEF Bound
<1>16. BoundaryOK(g)'  BY <1>2, <1>4, <1>12, BoundaryKept
<1> QED  BY <1>2, <1>6, <1>7, <1>8, <1>11, <1>13, <1>14, <1>15, <1>16, OneStep DEF LocalOK, SlotMoves

\* Wrapper.Run returned.
LEMMA SessionExitsKeeps ==
    ASSUME TurnInv, TypeOK', NEW g \in Gens, SessionExits(g)
    PROVE  TurnInv'
<1>1. /\ live' = live \ {g}
      /\ UNCHANGED <<count, slot, pc, prev, ctxDone, bnd, obs, cw, turn, router>>
  BY DEF SessionExits, genVars
<1>2. NoRevival
  <2>1. live' \subseteq live  BY <1>1
  <2> QED  BY <1>1, <2>1, NothingRevived
<1>3. \A k \in Gens : Same(k)  BY <1>1 DEF Same
<1> QED  BY <1>1, <1>2, <1>3, NoStep DEF SlotMoves

\* cleanupFailedRuntimeSend resolves the boundary once the process is gone.
LEMMA CleanupTerminalKeeps ==
    ASSUME TurnInv, TypeOK', NEW g \in Gens, CleanupTerminal(g)
    PROVE  TurnInv'
<1>1. /\ turn[g].at = "cleanup" /\ turn[g].sess \notin live
      /\ turn' = [turn EXCEPT ![g] = Finished([@ EXCEPT !.at = "cleaned"])]
      /\ router' = Retired(g)
      /\ bnd' = [bnd EXCEPT ![g] = Safe(@)]
      /\ obs' = [obs EXCEPT ![g] = Released(@)]
      /\ UNCHANGED <<count, slot, pc, prev, ctxDone, cw, live>>
  BY DEF CleanupTerminal, genVars
<1>2. /\ turn'[g].at = "cleaned" /\ turn'[g].drained /\ ~turn'[g].cut
      /\ turn'[g].sess = turn[g].sess /\ turn'[g].decided = turn[g].decided
      /\ turn'[g].started = turn[g].started /\ turn'[g].returned = turn[g].returned
      /\ turn'[g].err = turn[g].err
      /\ \A k \in Gens \ {g} : turn'[k] = turn[k]
  BY <1>1, Parts DEF Turn, Finished, Open
<1>3. /\ bnd'[g].safe /\ bnd'[g].closed /\ ~bnd'[g].retain /\ bnd'[g].root = bnd[g].root
      /\ bnd'[g].pred = bnd[g].pred /\ bnd'[g].asked = bnd[g].asked
      /\ bnd'[g].issued = bnd[g].issued
      /\ \A k \in Gens \ {g} : bnd'[k] = bnd[k]
  BY SMTT(30), <1>1, Parts DEF Safe, Boundary
<1>4. /\ obs'[g].watch = obs[g].watch /\ obs'[g].on = obs[g].on
      /\ \A k \in Gens \ {g} : obs'[k] = obs[k]
  BY <1>1, Parts DEF Released, Observers
<1>5. turn[g].started /\ turn[g].returned  BY <1>1, Parts DEF TurnOK
<1>6. ~TurnOpen(g)'  BY <1>1, <1>2 DEF TurnOpen, Open
<1>7. (router' = router \/ (router = g /\ router' = NoGen)) /\ router' # g
  BY SMTT(30), <1>1 DEF Retired, Gens, NoGen
<1>8. TurnFrame(g)
  BY <1>1, <1>2, <1>3, <1>4, <1>5, <1>6, <1>7 DEF TurnFrame, Barred
<1>9. \A k \in Gens : Calm(k)  BY <1>8, TurnFrameCalm
<1>10. Quiet(g)' /\ Over(g)'  BY <1>2, <1>5, <1>6, <1>7 DEF Quiet, Over, Barred
<1>11. TurnOK(g)'  BY <1>1, <1>2, <1>3, <1>5, <1>6, <1>7, Parts DEF TurnOK
<1>12. VerdictOK(g)'  BY <1>1, <1>2, <1>3, <1>9, VerdictKept DEF Bound
<1>13. BoundaryOK(g)'
  <2>1. QuietBefore(g)  BY <1>1, UnlinkedQuiet
  <2>2. count' = count /\ turn'[g].started  BY <1>1, <1>2, <1>5
  <2> QED  BY <1>3, <1>4, <1>9, <1>10, <2>1, <2>2, SafeBoundary
<1> QED  BY <1>6, <1>8, <1>11, <1>12, <1>13, TurnStep

\* observeUnsafeRuntimeBoundary.
LEMMA RuntimeSafeKeeps ==
    ASSUME TurnInv, TypeOK', NEW g \in Gens, RuntimeSafe(g)
    PROVE  TurnInv'
<1>1. /\ obs[g].watch = "runtime" /\ turn[g].returned
      /\ turn[g].drained \/ turn[g].sess \notin live
      /\ turn' = [turn EXCEPT ![g] = Finished(@)]
      /\ router' = Retired(g)
      /\ bnd' = [bnd EXCEPT ![g] = Safe(@)]
      /\ obs' = [obs EXCEPT ![g] = Released([@ EXCEPT !.watch = "spent"])]
      /\ UNCHANGED <<count, slot, pc, prev, ctxDone, cw, live>>
  BY DEF RuntimeSafe, genVars
<1>2. turn[g].started /\ ~turn[g].cut  BY <1>1, Parts DEF TurnOK, BoundaryOK
<1>3. ~Open(turn[g])  BY <1>1, <1>2 DEF Open
<1>4. /\ turn'[g].drained /\ ~turn'[g].cut /\ turn'[g].at = turn[g].at
      /\ turn'[g].sess = turn[g].sess /\ turn'[g].decided = turn[g].decided
      /\ turn'[g].started = turn[g].started /\ turn'[g].returned = turn[g].returned
      /\ turn'[g].err = turn[g].err
      /\ \A k \in Gens \ {g} : turn'[k] = turn[k]
  BY <1>1, <1>3, Parts DEF Turn, Finished
<1>5. /\ bnd'[g].safe /\ bnd'[g].closed /\ ~bnd'[g].retain /\ bnd'[g].root = bnd[g].root
      /\ bnd'[g].pred = bnd[g].pred /\ bnd'[g].asked = bnd[g].asked
      /\ bnd'[g].issued = bnd[g].issued
      /\ \A k \in Gens \ {g} : bnd'[k] = bnd[k]
  BY SMTT(30), <1>1, Parts DEF Safe, Boundary
<1>6. /\ obs'[g].watch = "spent" /\ obs'[g].on = obs[g].on
      /\ \A k \in Gens \ {g} : obs'[k] = obs[k]
  BY <1>1, Parts DEF Released, Observers
<1>7. ~TurnOpen(g)'  BY <1>1, <1>2, <1>4 DEF TurnOpen, Open
<1>8. (router' = router \/ (router = g /\ router' = NoGen)) /\ router' # g
  BY SMTT(30), <1>1 DEF Retired, Gens, NoGen
<1>9. TurnFrame(g)
  BY <1>1, <1>2, <1>4, <1>5, <1>6, <1>7, <1>8 DEF TurnFrame, Barred
<1>10. \A k \in Gens : Calm(k)  BY <1>9, TurnFrameCalm
<1>11. Quiet(g)' /\ Over(g)'  BY <1>2, <1>4, <1>7, <1>8 DEF Quiet, Over, Barred
<1>12. TurnOK(g)'  BY <1>1, <1>2, <1>4, <1>5, <1>7, <1>8, Parts DEF TurnOK
<1>13. VerdictOK(g)'  BY <1>1, <1>4, <1>5, <1>10, VerdictKept DEF Bound
<1>14. BoundaryOK(g)'
  <2>1. turn[g].at # "none"  BY <1>2, Parts DEF TurnOK
  <2>2. QuietBefore(g)  BY <2>1, UnlinkedQuiet
  <2>3. count' = count /\ turn'[g].started  BY <1>1, <1>2, <1>4
  <2> QED  BY <1>5, <1>6, <1>10, <1>11, <2>2, <2>3, SafeBoundary
<1> QED  BY <1>7, <1>9, <1>12, <1>13, <1>14, TurnStep

\* observeUnsafePredecessor: the root's safe boundary answers for g too.
LEMMA InheritSafeKeeps ==
    ASSUME TurnInv, TypeOK', NEW g \in Gens, InheritSafe(g)
    PROVE  TurnInv'
<1>1. /\ obs[g].watch = "inherit" /\ bnd[obs[g].on].closed
      /\ bnd' = [bnd EXCEPT ![g] = Safe(@)]
      /\ obs' = [obs EXCEPT ![g] = Released([@ EXCEPT !.watch = "spent"])]
      /\ UNCHANGED <<count, slot, pc, prev, ctxDone, cw, turn, live, router>>
  BY DEF InheritSafe, genVars, turnVars
<1>2. PICK r \in Gens : r = obs[g].on  BY <1>1, Parts DEF BoundaryOK
<1>3. Over(g) /\ QuietFrom(r, g)
  <2>1. Over(g) /\ QuietFrom(obs[g].on, g)  BY <1>1, Parts DEF BoundaryOK
  <2> QED  BY <1>2, <2>1 DEF QuietFrom
<1>4. QuietUpTo(r)  BY <1>1, <1>2, Parts DEF BoundaryOK
<1>5. QuietBefore(g)
  <2>1. \A k \in Gens : k < g => k <= r \/ (r < k /\ k <= g)  BY SMTT(30) DEF Gens
  <2> QED  BY <1>3, <1>4, <2>1 DEF QuietUpTo, QuietFrom, QuietBefore
<1>6. /\ bnd'[g].safe /\ bnd'[g].closed /\ ~bnd'[g].retain /\ bnd'[g].root = bnd[g].root
      /\ bnd'[g].pred = bnd[g].pred /\ bnd'[g].asked = bnd[g].asked
      /\ bnd'[g].issued = bnd[g].issued
      /\ \A k \in Gens \ {g} : bnd'[k] = bnd[k]
  BY SMTT(30), <1>1, Parts DEF Safe, Boundary
<1>7. /\ obs'[g].watch = "spent" /\ obs'[g].on = obs[g].on
      /\ \A k \in Gens \ {g} : obs'[k] = obs[k]
  BY <1>1, Parts DEF Released, Observers
<1>8. TurnOpen(g)' <=> TurnOpen(g)  BY <1>1 DEF TurnOpen, Open
<1>9. Barred(g) => Barred(g)'  BY <1>1, <1>6 DEF Barred
<1>10. TurnFrame(g)  BY <1>1, <1>6, <1>7, <1>8, <1>9 DEF TurnFrame
<1>11. \A k \in Gens : Calm(k)  BY <1>10, TurnFrameCalm
<1>12. Over(g)' /\ Quiet(g)'  BY <1>3, <1>11 DEF Calm, Over, Quiet
<1>13. TurnOK(g)'
  <2>1. ~TurnOpen(g) /\ pc'[g] = pc[g] /\ ctxDone'[g] = ctxDone[g] /\ UNCHANGED <<turn, live, router>>
    BY <1>1, <1>3 DEF Over
  <2>2. turn[g].at # "none" => pc'[g] \in Late  BY <2>1, Parts DEF TurnOK
  <2> QED  BY <1>6, <2>1, <2>2, TurnKept
<1>14. VerdictOK(g)'  BY <1>1, <1>6, <1>11, VerdictKept DEF Bound
<1>15. BoundaryOK(g)'
  <2>1. count' = count /\ turn'[g] = turn[g]  BY <1>1
  <2> QED  BY <1>5, <1>6, <1>7, <1>11, <1>12, <2>1, SafeBoundary
<1> QED  BY <1>8, <1>10, <1>13, <1>14, <1>15, TurnStep

\* markGenerationSafe's release watcher, and watchers that shutdown ends.
LEMMA ObserverStep ==
    ASSUME TurnInv, TypeOK', NEW g \in Gens, SlotMoves,
           UNCHANGED <<count, pc, prev, ctxDone, bnd, cw, turn, live, router>>,
           \A k \in Gens \ {g} : obs'[k] = obs[k],
           obs'[g].watch \in {obs[g].watch, "spent"}, obs'[g].on = obs[g].on
    PROVE  TurnInv'
<1>1. \A k \in Gens \ {g} : Same(k)  BY DEF Same
<1>2. NoRevival  BY NothingRevived
<1>3. TurnOpen(g)' <=> TurnOpen(g)  BY DEF TurnOpen, Open
<1>4. Calm(g)  BY <1>3 DEF Calm, Quiet, Over, Barred
<1>5. \A k \in Gens : Calm(k)  BY <1>1, <1>2, <1>4, SameCalm
<1>6. OrderOK(g)'  BY Parts DEF OrderOK
<1>7. TurnOK(g)'
  <2>1. pc'[g] = pc[g] /\ ctxDone'[g] = ctxDone[g] /\ bnd'[g] = bnd[g] /\ UNCHANGED <<turn, live, router>>
    OBVIOUS
  <2>2. turn[g].at # "none" => pc'[g] \in Late  BY <2>1, Parts DEF TurnOK
  <2> QED  BY <2>1, <2>2, TurnKept
<1>8. VerdictOK(g)'  BY <1>5, VerdictKept DEF Bound
<1>9. BoundaryOK(g)'
  <2>1. BoundaryOK(g) /\ bnd'[g].root = bnd[g].root  BY Parts
  <2> QED  BY <1>5, <2>1, Lasting DEF BoundaryOK
<1> QED  BY <1>1, <1>2, <1>3, <1>4, <1>6, <1>7, <1>8, <1>9, OneStep DEF LocalOK

LEMMA WatcherKeeps ==
    ASSUME TurnInv, TypeOK', NEW g \in Gens, Watcher(g)
    PROVE  TurnInv'
<1>1. CASE ReleaseSafe(g)
  <2>1. /\ obs' = [obs EXCEPT ![g].release = "spent"]
        /\ UNCHANGED <<count, pc, prev, ctxDone, bnd, cw, turn, live, router>>
    BY <1>1 DEF ReleaseSafe, turnVars
  <2>2. /\ obs'[g].watch = obs[g].watch /\ obs'[g].on = obs[g].on
        /\ \A k \in Gens \ {g} : obs'[k] = obs[k]
    BY <2>1, Parts DEF Observers
  <2>3. SlotMoves
    <3>1. slot = g => g = count  BY SMTT(30), Parts DEF SlotOK, Gens, NoGen
    <3>2. bnd[g].safe => QuietUpTo(g)  BY Parts DEF BoundaryOK
    <3> QED  BY <1>1, <3>1, <3>2 DEF ReleaseSafe, SlotMoves
  <2> QED  BY <2>1, <2>2, <2>3, ObserverStep
<1>2. CASE WatcherEnds(g)
  <2>1. /\ \/ obs' = [obs EXCEPT ![g].watch = "spent"]
           \/ obs' = [obs EXCEPT ![g].release = "spent"]
        /\ UNCHANGED <<count, slot, pc, prev, ctxDone, bnd, cw, turn, live, router>>
    BY <1>2 DEF WatcherEnds, turnVars, genVars
  <2>2. /\ obs'[g].watch \in {obs[g].watch, "spent"} /\ obs'[g].on = obs[g].on
        /\ \A k \in Gens \ {g} : obs'[k] = obs[k]
    BY SMTT(30), <2>1, Parts DEF Observers
  <2> QED  BY <2>1, <2>2, ObserverStep DEF SlotMoves
<1> QED  BY <1>1, <1>2, RuntimeSafeKeeps, InheritSafeKeeps DEF Watcher

\* The context of g ends, alone or with the start of its worker.
LEMMA ContextEnds ==
    ASSUME TurnInv, TypeOK', NEW g \in Gens,
           UNCHANGED <<count, slot, pc, prev, bnd, obs, turn, live, router>>,
           ctxDone' = [ctxDone EXCEPT ![g] = TRUE],
           \A k \in Gens \ {g} : cw'[k] = cw[k],
           cw'[g].pred = cw[g].pred, cw'[g].bind = cw[g].bind, cw'[g].started = cw[g].started,
           \/ cw'[g] = cw[g]
           \/ cw[g].at = "claimed" /\ cw'[g].at \in {"lost", "done"}
           \/ cw[g].at = "claimed" /\ cw'[g].at = "turn" /\ cw[g].pred = NoGen
    PROVE  TurnInv'
<1>0. ctxDone'[g] /\ \A k \in Gens \ {g} : ctxDone'[k] = ctxDone[k]  BY Parts
<1>1. \A k \in Gens \ {g} : Same(k)  BY <1>0 DEF Same
<1>2. NoRevival  BY NothingRevived
<1>3. TurnOpen(g)' <=> TurnOpen(g)  BY DEF TurnOpen, Open
<1>4. Calm(g)  BY <1>0, <1>3 DEF Calm, Quiet, Over, Barred
<1>5. \A k \in Gens : Calm(k)  BY <1>1, <1>2, <1>4, SameCalm
<1>6. OrderOK(g)'  BY Parts DEF OrderOK
<1>7. TurnOK(g)'
  <2>1. bnd'[g] = bnd[g] /\ pc'[g] = pc[g] /\ UNCHANGED <<turn, live, router>>  OBVIOUS
  <2>2. turn[g].at # "none" => pc'[g] \in Late  BY <2>1, Parts DEF TurnOK
  <2> QED  BY <1>0, <2>1, <2>2, TurnKept
<1>8. BoundaryOK(g)'  BY <1>5, BoundaryKept
<1>9. VerdictOK(g)'
  <2>1. CASE cw'[g] = cw[g]  BY <1>5, <2>1, VerdictKept DEF Bound
  <2>2. CASE cw[g].at = "claimed" /\ cw'[g].at \in {"lost", "done", "turn"}
    <3>1. cw'[g].at \notin {"none", "end", "drain", "stopWait", "decide"}  BY <2>2
    <3>2. Bound(g)' <=> Bound(g)  BY DEF Bound
    <3>3. VerdictOK(g)  BY Parts
    <3>4. cw[g].pred = NoGen => QuietBefore(g)'  BY <1>5, <2>2, <3>3, Lasting DEF VerdictOK
    <3>5. cw'[g].at = "turn" => cw[g].pred = NoGen  BY <2>2
    <3> QED  BY <2>2, <3>1, <3>2, <3>3, <3>4, <3>5 DEF VerdictOK
  <2> QED  BY <2>1, <2>2
<1> QED  BY <1>1, <1>2, <1>3, <1>4, <1>6, <1>7, <1>8, <1>9, OneStep DEF LocalOK, SlotMoves

\* What the worker's own moves do to its record.
LEMMA WorkerFields ==
    ASSUME NEW w \in Worker, NEW a, NEW b
    PROVE  /\ [w EXCEPT !.at = a].at = a /\ [w EXCEPT !.at = a].pred = w.pred
           /\ [w EXCEPT !.at = a].bind = w.bind /\ [w EXCEPT !.at = a].started = w.started
           /\ [w EXCEPT !.at = a].predSafe = w.predSafe
           /\ [w EXCEPT !.at = a].turnSafe = w.turnSafe
           /\ Answered(w, b).at = "turn" /\ Answered(w, b).pred = w.pred
           /\ Answered(w, b).bind = w.bind /\ Answered(w, b).started = w.started
           /\ Answered(w, b).predSafe = b
           /\ Judged(w, b).at = "decide" /\ Judged(w, b).pred = w.pred
           /\ Judged(w, b).bind = w.bind /\ Judged(w, b).started = w.started
           /\ Judged(w, b).predSafe = w.predSafe /\ Judged(w, b).turnSafe = b
  BY DEF Worker, Answered, Judged

\* A step of the worker alone.
LEMMA WorkerOnly ==
    ASSUME TurnInv, TypeOK', NEW g \in Gens, NEW w,
           UNCHANGED <<count, slot, pc, prev, ctxDone, bnd, obs, turn, live, router>>,
           cw' = [cw EXCEPT ![g] = w],
           cw[g].at \notin {"none", "end"}, w.at \notin {"none", "end"},
           w.pred = cw[g].pred, w.bind = cw[g].bind, w.started = cw[g].started,
           w.at \in {"turn", "drain", "stopWait", "decide"} /\ w.predSafe => QuietBefore(g),
           w.at \in {"drain", "stopWait"} => w.started,
           w.at = "decide" /\ (w.turnSafe \/ ~w.started) => Over(g)
    PROVE  TurnInv'
<1>1. cw'[g] = w /\ \A k \in Gens \ {g} : cw'[k] = cw[k]  BY Parts
<1>2. TurnOpen(g)' <=> TurnOpen(g)  BY DEF TurnOpen, Open
<1>3. TurnFrame(g)  BY <1>1, <1>2 DEF TurnFrame, Barred
<1>4. \A k \in Gens : Calm(k)  BY <1>3, TurnFrameCalm
<1>5. TurnOK(g)'
  <2>1. pc'[g] = pc[g] /\ ctxDone'[g] = ctxDone[g] /\ bnd'[g] = bnd[g] /\ UNCHANGED <<turn, live, router>>
    OBVIOUS
  <2>2. turn[g].at # "none" => pc'[g] \in Late  BY <2>1, Parts DEF TurnOK
  <2> QED  BY <2>1, <2>2, TurnKept
<1>6. BoundaryOK(g)'  BY <1>4, BoundaryKept
<1>7. VerdictOK(g)'
  <2>1. VerdictOK(g)  BY Parts
  <2>2. Bound(g)' <=> Bound(g)  BY DEF Bound
  <2> QED  BY <1>1, <1>4, <2>1, <2>2, Lasting DEF VerdictOK
<1> QED  BY <1>2, <1>3, <1>5, <1>6, <1>7, TurnStep

\* What the worker hears of the generations ahead, and how it asks the runtime.
LEMMA WorkerKeeps ==
    ASSUME TurnInv, TypeOK', NEW g \in Gens,
           \/ WorkerPredDone(g) \/ WorkerPredIssued(g) \/ WorkerPredRead(g)
           \/ WorkerPredExpires(g) \/ CancelTurn(g) \/ TurnDrained(g)
           \/ StopRuntime(g) \/ StopExpires(g)
    PROVE  TurnInv'
<1>0. UNCHANGED <<count, slot, pc, prev, ctxDone, bnd, obs, turn, live, router>>
  BY DEF WorkerPredDone, WorkerPredIssued, WorkerPredRead, WorkerPredExpires, CancelTurn,
               TurnDrained, StopRuntime, StopExpires, genVars, turnVars
<1>1. cw[g] \in Worker /\ VerdictOK(g)  BY Parts
<1>2. ASSUME NEW a \in {"issued", "read"}, cw[g].at \in {"done", "issued"},
             cw' = [cw EXCEPT ![g].at = a]
      PROVE  TurnInv'
  <2>1. PICK w : w = [cw[g] EXCEPT !.at = a]  OBVIOUS
  <2>2. cw' = [cw EXCEPT ![g] = w]  BY <1>2, <2>1
  <2>3. w.at = a /\ w.pred = cw[g].pred /\ w.bind = cw[g].bind /\ w.started = cw[g].started
    BY <1>1, <2>1 DEF Worker, Answered, Judged
  <2> QED  BY <1>0, <1>2, <2>2, <2>3, WorkerOnly
<1>3. ASSUME NEW ok \in BOOLEAN, cw[g].at \in {"done", "issued", "read"}, ok => QuietBefore(g),
             cw' = [cw EXCEPT ![g] = Answered(@, ok)]
      PROVE  TurnInv'
  <2>1. PICK w : w = Answered(cw[g], ok)  OBVIOUS
  <2>2. cw' = [cw EXCEPT ![g] = w]  BY <1>3, <2>1
  <2>3. /\ w.at = "turn" /\ w.pred = cw[g].pred /\ w.bind = cw[g].bind
        /\ w.started = cw[g].started /\ w.predSafe = ok
    BY <1>1, <2>1 DEF Worker, Answered, Judged
  <2> QED  BY <1>0, <1>3, <2>2, <2>3, WorkerOnly
<1>4. ASSUME NEW a \in {"drain", "stopWait"}, cw[g].at \in {"turn", "drain"}, cw[g].started,
             cw' = [cw EXCEPT ![g].at = a]
      PROVE  TurnInv'
  <2>1. PICK w : w = [cw[g] EXCEPT !.at = a]  OBVIOUS
  <2>2. cw' = [cw EXCEPT ![g] = w]  BY <1>4, <2>1
  <2>3. /\ w.at = a /\ w.pred = cw[g].pred /\ w.bind = cw[g].bind
        /\ w.started = cw[g].started /\ w.predSafe = cw[g].predSafe
    BY <1>1, <2>1 DEF Worker, Answered, Judged
  <2>4. cw[g].predSafe => QuietBefore(g)  BY <1>1, <1>4 DEF VerdictOK
  <2> QED  BY <1>0, <1>4, <2>2, <2>3, <2>4, WorkerOnly
<1>5. ASSUME NEW ok \in BOOLEAN, cw[g].at \in {"turn", "drain", "stopWait"}, cw[g].started,
             ok => Over(g), cw' = [cw EXCEPT ![g] = Judged(@, ok)]
      PROVE  TurnInv'
  <2>1. PICK w : w = Judged(cw[g], ok)  OBVIOUS
  <2>2. cw' = [cw EXCEPT ![g] = w]  BY <1>5, <2>1
  <2>3. /\ w.at = "decide" /\ w.pred = cw[g].pred /\ w.bind = cw[g].bind
        /\ w.started = cw[g].started /\ w.predSafe = cw[g].predSafe /\ w.turnSafe = ok
    BY <1>1, <2>1 DEF Worker, Answered, Judged
  <2>4. cw[g].predSafe => QuietBefore(g)  BY <1>1, <1>5 DEF VerdictOK
  <2> QED  BY <1>0, <1>5, <2>2, <2>3, <2>4, WorkerOnly
<1>6. CASE WorkerPredDone(g)
  <2>1. PICK a \in {"issued", "read"} : a = IF bnd[cw[g].pred].asked THEN "issued" ELSE "read"
    OBVIOUS
  <2> QED  BY <1>2, <1>6, <2>1 DEF WorkerPredDone
<1>7. CASE WorkerPredIssued(g)  BY <1>2, <1>7 DEF WorkerPredIssued
<1>8. CASE WorkerPredRead(g)
  <2>0. cw[g].pred \in Gens  BY <1>8, Parts DEF PredecessorNamed, WorkerPredRead
  <2>1. PICK ok \in BOOLEAN : ok = bnd[cw[g].pred].safe  BY <2>0, Parts DEF Boundary
  <2>2. ok => QuietBefore(g)
    <3>2. PICK p \in Gens : p = cw[g].pred  BY <2>0
    <3>3. p \in {NoGen, g - 1}  BY <3>2, Parts DEF OrderOK
    <3> QED  BY <2>1, <3>2, <3>3, PredQuiet
  <2>3. cw[g].at = "read" /\ cw' = [cw EXCEPT ![g] = Answered(@, ok)]
    BY <1>8, <2>1 DEF WorkerPredRead
  <2> QED  BY <1>3, <2>2, <2>3
<1>9. CASE WorkerPredExpires(g)
  <2>1. cw[g].at \in {"done", "issued"} /\ cw' = [cw EXCEPT ![g] = Answered(@, FALSE)]
    BY <1>9 DEF WorkerPredExpires
  <2> QED  BY <1>3, <2>1
<1>10. CASE CancelTurn(g)  BY <1>4, <1>10 DEF CancelTurn
<1>11. CASE TurnDrained(g)
  <2>1. cw[g].at = "drain" /\ turn[g].drained  BY <1>11 DEF TurnDrained
  <2>2. cw[g].started /\ turn[g].started  BY <1>1, <2>1 DEF VerdictOK
  <2>3. ~turn[g].cut /\ router # g  BY <2>1, Parts DEF TurnOK
  <2>4. Over(g)  BY <2>1, <2>2, <2>3 DEF Over, Barred, TurnOpen, Open
  <2>5. cw' = [cw EXCEPT ![g] = Judged(@, TRUE)]  BY <1>11 DEF TurnDrained
  <2> QED  BY <1>5, <2>1, <2>2, <2>4, <2>5
<1>12. CASE StopRuntime(g)
  <2>1. cw[g].at \in {"turn", "drain"} /\ cw[g].started
    BY <1>1, <1>12 DEF StopRuntime, VerdictOK
  <2>2. CASE Down
    <3>1. cw' = [cw EXCEPT ![g] = Judged(@, FALSE)]  BY <1>12, <2>2 DEF StopRuntime
    <3> QED  BY <1>5, <2>1, <3>1
  <2>3. CASE ~Down  BY <1>4, <1>12, <2>1, <2>3 DEF StopRuntime
  <2> QED  BY <2>2, <2>3
<1>13. CASE StopExpires(g)
  <2>1. cw[g].at = "stopWait" /\ cw[g].started
    BY <1>1, <1>13 DEF StopExpires, VerdictOK
  <2>2. cw' = [cw EXCEPT ![g] = Judged(@, FALSE)]  BY <1>13 DEF StopExpires
  <2> QED  BY <1>5, <2>1, <2>2
<1> QED  BY <1>6, <1>7, <1>8, <1>9, <1>10, <1>11, <1>12, <1>13

\* gen.cancel() and the start of the worker; the bridge of a process going down.
LEMMA ContextKeeps ==
    ASSUME TurnInv, TypeOK', NEW g \in Gens, WorkerStarts(g) \/ Bridge(g)
    PROVE  TurnInv'
<1>0. /\ UNCHANGED <<count, slot, pc, prev, bnd, obs, turn, live, router>>
      /\ ctxDone' = [ctxDone EXCEPT ![g] = TRUE]
  BY DEF WorkerStarts, Bridge, turnVars
<1>1. CASE WorkerStarts(g)
  <2>1. PICK a : a = IF Down THEN "lost" ELSE IF cw[g].pred = NoGen THEN "turn" ELSE "done"
    OBVIOUS
  <2>2. cw[g].at = "claimed" /\ cw' = [cw EXCEPT ![g].at = a]  BY <1>1, <2>1 DEF WorkerStarts
  <2>3. cw'[g] = [cw[g] EXCEPT !.at = a] /\ \A k \in Gens \ {g} : cw'[k] = cw[k]
    BY <2>2, Parts
  <2>4. /\ cw'[g].at = a /\ cw'[g].pred = cw[g].pred /\ cw'[g].bind = cw[g].bind
        /\ cw'[g].started = cw[g].started
    <3>1. PICK w \in Worker : w = cw[g]  BY Parts
    <3> QED  BY <2>3, <3>1 DEF Worker
  <2>5. a \in {"lost", "done"} \/ (a = "turn" /\ cw[g].pred = NoGen)  BY <2>1
  <2> QED  BY <1>0, <2>2, <2>3, <2>4, <2>5, ContextEnds
<1>2. CASE Bridge(g)
  <2>1. cw' = cw  BY <1>2 DEF Bridge
  <2> QED  BY <1>0, <2>1, ContextEnds
<1> QED  BY <1>1, <1>2

\* The worker itself finishes a turn that is not open: one that was never sent, or
\* whose process is gone.
LEMMA WorkerFinishes ==
    ASSUME TurnInv, TypeOK', NEW g \in Gens, NEW ok,
           UNCHANGED <<count, slot, pc, prev, ctxDone, bnd, obs, live>>,
           turn' = [turn EXCEPT ![g] = Finished(@)], router' = Retired(g),
           cw' = [cw EXCEPT ![g] = Judged(@, ok)],
           cw[g].at \in {"turn", "stopWait"}, cw[g].bind, ~Open(turn[g])
    PROVE  TurnInv'
<1>0. /\ turn[g].decided /\ Bound(g) /\ (cw[g].predSafe => QuietBefore(g))
      /\ cw[g].started <=> turn[g].started
  BY Parts DEF VerdictOK
<1>1. /\ turn'[g].drained /\ ~turn'[g].cut /\ turn'[g].at = turn[g].at
      /\ turn'[g].sess = turn[g].sess /\ turn'[g].decided = turn[g].decided
      /\ turn'[g].started = turn[g].started /\ turn'[g].returned = turn[g].returned
      /\ turn'[g].err = turn[g].err
      /\ \A k \in Gens \ {g} : turn'[k] = turn[k]
  BY SMTT(30), Parts DEF Turn, Finished
<1>2. cw'[g] = Judged(cw[g], ok) /\ \A k \in Gens \ {g} : cw'[k] = cw[k]  BY Parts
<1>3. /\ cw'[g].at = "decide" /\ cw'[g].pred = cw[g].pred /\ cw'[g].bind = cw[g].bind
      /\ cw'[g].started = cw[g].started /\ cw'[g].predSafe = cw[g].predSafe
  <2>1. PICK w \in Worker : w = cw[g]  BY Parts
  <2>2. cw'[g] = Judged(w, ok)  BY <1>2, <2>1
  <2>3. /\ Judged(w, ok).at = "decide" /\ Judged(w, ok).pred = w.pred /\ Judged(w, ok).bind = w.bind
        /\ Judged(w, ok).started = w.started /\ Judged(w, ok).predSafe = w.predSafe
    BY SMTT(30), WorkerFields
  <2> QED  BY <2>1, <2>2, <2>3
<1>4. ~TurnOpen(g)'  BY <1>1 DEF TurnOpen, Open
<1>5. (router' = router \/ (router = g /\ router' = NoGen)) /\ router' # g
  BY SMTT(30) DEF Retired, Gens, NoGen
<1>6. Barred(g)'
  <2>1. turn[g].started \/ turn[g].at \in {"bound", "abandoned"}
    BY <1>0, Parts DEF Bound, TurnOK, Turn
  <2> QED  BY <1>0, <1>1, <2>1 DEF Barred
<1>7. TurnFrame(g)  BY <1>1, <1>2, <1>3, <1>4, <1>5, <1>6 DEF TurnFrame
<1>8. \A k \in Gens : Calm(k)  BY <1>7, TurnFrameCalm
<1>9. Over(g)'  BY <1>4, <1>5, <1>6 DEF Over
<1>10. TurnOK(g)'  BY <1>0, <1>1, <1>4, <1>5, Parts DEF TurnOK, Bound
<1>11. VerdictOK(g)'
  <2>1. VerdictOK(g)  BY Parts
  <2>2. Bound(g)' <=> Bound(g)  BY <1>1 DEF Bound
  <2> QED  BY <1>0, <1>1, <1>3, <1>8, <1>9, <2>1, <2>2, Lasting DEF VerdictOK
<1>12. BoundaryOK(g)'  BY <1>1, <1>8, BoundaryKept
<1> QED  BY <1>4, <1>7, <1>10, <1>11, <1>12, TurnStep

LEMMA FinishKeeps ==
    ASSUME TurnInv, TypeOK', NEW g \in Gens, ReleaseUnsent(g) \/ RuntimeTerminal(g)
    PROVE  TurnInv'
<1>1. CASE ReleaseUnsent(g)
  <2>1. PICK ok : cw' = [cw EXCEPT ![g] = Judged(@, ok)]  BY <1>1 DEF ReleaseUnsent
  <2>2. ~Open(turn[g])  BY <1>1, Parts DEF ReleaseUnsent, VerdictOK, Open
  <2> QED  BY <1>1, <2>1, <2>2, WorkerFinishes DEF ReleaseUnsent, genVars
<1>2. CASE RuntimeTerminal(g)
  <2>1. cw[g].bind
    <3>1. turn[g].started  BY <1>2, Parts DEF RuntimeTerminal, VerdictOK
    <3>2. Bound(g)  BY <3>1, Parts DEF Bound, TurnOK
    <3> QED  BY <1>2, <3>2, Parts DEF RuntimeTerminal, VerdictOK
  <2>2. ~Open(turn[g])  BY <1>2 DEF RuntimeTerminal, Open
  <2> QED  BY <1>2, <2>1, <2>2, WorkerFinishes DEF RuntimeTerminal, genVars
<1> QED  BY <1>1, <1>2

\* What a worker knows when it publishes its verdict.
LEMMA DecideKnows ==
    ASSUME TurnInv, NEW g \in Gens,
           cw[g].at = "decide" \/ (cw[g].at = "turn" /\ ~cw[g].bind)
    PROVE  /\ cw[g].turnSafe \/ ~cw[g].started => Over(g)
           /\ cw[g].predSafe => QuietBefore(g)
           /\ ~cw[g].predSafe => ~cw[g].started /\ cw[g].pred \in Gens
<1>1. VerdictOK(g) /\ TurnOK(g)  BY Parts
<1>2. cw[g].at = "turn" /\ ~cw[g].bind => Over(g)
  <2> SUFFICES ASSUME cw[g].at = "turn", ~cw[g].bind PROVE Over(g)  OBVIOUS
  <2>1. turn[g].at \in {"none", "refused"} /\ bnd[g].asked  BY <1>1 DEF VerdictOK, Bound
  <2>2. ~turn[g].started /\ router # g  BY <1>1, <2>1 DEF TurnOK
  <2> QED  BY <2>1, <2>2 DEF Over, Barred, TurnOpen, Open
<1>3. ~cw[g].predSafe => cw[g].pred \in Gens  BY Parts DEF PredecessorNamed
<1>4. cw[g].pred \in Gens => cw[g].pred # NoGen  BY SMTT(30) DEF Gens, NoGen
<1>5. ~cw[g].bind => ~cw[g].started  BY <1>1 DEF VerdictOK, TurnOK, Bound
<1> QED  BY <1>1, <1>2, <1>3, <1>4, <1>5 DEF VerdictOK

\* The verdict is published and cancelIssued closed.
LEMMA DecideKeeps ==
    ASSUME TurnInv, TypeOK', NEW g \in Gens, Decide(g)
    PROVE  TurnInv'
<1>1. /\ cw[g].at = "decide" \/ (cw[g].at = "turn" /\ ~cw[g].bind)
      /\ cw' = [cw EXCEPT ![g].at = "end"]
      /\ UNCHANGED <<count, slot, pc, prev, ctxDone, turn, live, router>>
  BY DEF Decide, genVars, turnVars
<1>2. cw'[g] = [cw[g] EXCEPT !.at = "end"] /\ \A k \in Gens \ {g} : cw'[k] = cw[k]
  BY <1>1, Parts
<1>3. /\ cw'[g].at = "end" /\ cw'[g].pred = cw[g].pred /\ cw'[g].bind = cw[g].bind
      /\ cw'[g].started = cw[g].started
  <2>1. PICK w \in Worker : w = cw[g]  BY Parts
  <2> QED  BY <1>2, <2>1 DEF Worker, Judged
<1>4. TurnOpen(g)' <=> TurnOpen(g)  BY <1>1 DEF TurnOpen, Open
<1>5. ASSUME bnd'[g].asked = bnd[g].asked, bnd'[g].pred = bnd[g].pred, bnd'[g].issued,
             \A k \in Gens \ {g} : bnd'[k] = bnd[k] /\ obs'[k] = obs[k],
             bnd'[g].retain \/ ~TurnOpen(g),
             (\A k \in Gens : Calm(k)) => BoundaryOK(g)'
      PROVE  TurnInv'
  <2>1. Barred(g) => Barred(g)'  BY <1>1, <1>5 DEF Barred
  <2>2. TurnFrame(g)  BY <1>1, <1>2, <1>3, <1>4, <1>5, <2>1 DEF TurnFrame
  <2>3. \A k \in Gens : Calm(k)  BY <2>2, TurnFrameCalm
  <2>4. TurnOK(g)'
    <3>1. pc'[g] = pc[g] /\ ctxDone'[g] = ctxDone[g] /\ UNCHANGED <<turn, live, router>>  BY <1>1
    <3>2. turn[g].at # "none" => pc'[g] \in Late  BY <3>1, Parts DEF TurnOK
    <3> QED  BY <1>5, <3>1, <3>2, TurnKept
  <2>5. VerdictOK(g)'
    <3>1. VerdictOK(g)  BY Parts
    <3>2. Bound(g)' <=> Bound(g)  BY <1>1 DEF Bound
    <3>3. cw[g].at # "none"  BY <1>1
    <3> QED  BY <1>1, <1>3, <1>5, <2>3, <3>1, <3>2, <3>3, Lasting DEF VerdictOK
  <2> QED  BY <1>4, <1>5, <2>2, <2>3, <2>4, <2>5, TurnStep
<1>6. CASE cw[g].predSafe /\ cw[g].turnSafe
  <2>1. /\ bnd' = [bnd EXCEPT ![g] = [Safe(@) EXCEPT !.issued = TRUE]]
        /\ obs' = [obs EXCEPT ![g] = Released(@)]
    BY <1>6 DEF Decide
  <2>2. /\ bnd'[g].closed /\ bnd'[g].root = bnd[g].root /\ bnd'[g].pred = bnd[g].pred
        /\ bnd'[g].asked = bnd[g].asked /\ bnd'[g].issued
        /\ \A k \in Gens \ {g} : bnd'[k] = bnd[k]
    BY <2>1, Parts DEF Safe, Boundary
  <2>3. /\ obs'[g].watch = obs[g].watch /\ obs'[g].on = obs[g].on
        /\ \A k \in Gens \ {g} : obs'[k] = obs[k]
    BY <2>1, Parts DEF Released, Observers
  <2>4. Over(g) /\ QuietBefore(g)  BY <1>1, <1>6, DecideKnows
  <2>5. ASSUME \A k \in Gens : Calm(k) PROVE BoundaryOK(g)'
    <3>1. Over(g)' /\ Quiet(g)'  BY <2>4, <2>5 DEF Calm, Over, Quiet
    <3>2. count' = count /\ turn'[g] = turn[g]  BY <1>1
    <3> QED  BY <2>2, <2>3, <2>4, <2>5, <3>1, <3>2, SafeBoundary
  <2> QED  BY <1>5, <2>2, <2>3, <2>4, <2>5 DEF Over
<1>7. CASE ~(cw[g].predSafe /\ cw[g].turnSafe)
  <2>1. PICK r : r = IF cw[g].predSafe THEN g ELSE UnsafeRoot(cw[g].pred)  OBVIOUS
  <2>2. PICK q : q = IF r = NoGen THEN g ELSE r  OBVIOUS
  <2>3. /\ bnd' = [bnd EXCEPT ![g] = [Unsafe(@, g, q) EXCEPT !.issued = TRUE]]
        /\ obs' = [obs EXCEPT ![g] = IF ~cw[g].turnSafe /\ cw[g].started
                                     THEN ObserveRuntime(@)
                                     ELSE ObservePredecessor(@, g, q)]
    BY <1>7, <2>1, <2>2 DEF Decide
  <2>4. q \in Gens /\ (q = g \/ (q < g /\ QuietFrom(q, g) /\ Over(g)))
    <3>1. CASE r = g \/ r = NoGen  BY <2>2, <3>1
    <3>2. CASE r # g /\ r # NoGen
      <4>1. ~cw[g].predSafe /\ cw[g].pred \in Gens /\ Over(g)
        BY <1>1, <2>1, <3>2, DecideKnows
      <4>2. PICK p \in Gens : p = cw[g].pred  BY <4>1
      <4>3. p \in {NoGen, g - 1} /\ r = UnsafeRoot(p) /\ Quiet(g)
        BY <2>1, <4>1, <4>2, Parts DEF OrderOK, Over, Quiet
      <4>4. r \in Gens /\ r < g /\ QuietFrom(r, g)  BY <3>2, <4>3, RootQuiet
      <4>5. q = r  BY <2>2, <3>2
      <4> QED  BY <4>1, <4>4, <4>5
    <3> QED  BY <3>1, <3>2
  <2>5. /\ ~bnd'[g].safe /\ bnd'[g].retain /\ bnd'[g].root = q
        /\ bnd'[g].pred = bnd[g].pred /\ bnd'[g].asked = bnd[g].asked
        /\ bnd'[g].issued /\ bnd'[g].closed = bnd[g].closed
        /\ \A k \in Gens \ {g} : bnd'[k] = bnd[k]
    <3>1. PICK b \in Boundary : b = bnd[g]  BY Parts
    <3>2. q # NoGen  BY SMTT(30), <2>4 DEF Gens, NoGen
    <3>3. bnd'[g] = [Unsafe(b, g, q) EXCEPT !.issued = TRUE]  BY <2>3, <3>1, Parts
    <3>4. \A k \in Gens \ {g} : bnd'[k] = bnd[k]  BY <2>3, Parts
    <3> QED  BY <3>1, <3>2, <3>3, <3>4 DEF Unsafe, Boundary
  <2>6. /\ \/ obs'[g].watch = obs[g].watch /\ obs'[g].on = obs[g].on
           \/ obs'[g].watch = "inherit" /\ obs'[g].on = q /\ q # g
           \/ obs'[g].watch = "runtime" /\ cw[g].started
           \/ obs'[g].watch = "spent"
        /\ \A k \in Gens \ {g} : obs'[k] = obs[k]
    BY <2>3, Parts DEF ObserveRuntime, ObservePredecessor, Spawned, Observers
  <2>7. cw[g].started => turn[g].started  BY <1>1, Parts DEF VerdictOK
  <2>8. ASSUME \A k \in Gens : Calm(k) PROVE BoundaryOK(g)'
    <3>1. count' = count /\ turn'[g] = turn[g] /\ pc'[g] = pc[g]  BY <1>1
    <3> QED  BY <2>4, <2>5, <2>6, <2>7, <2>8, <3>1, UnsafeBoundary
  <2> QED  BY <1>5, <2>5, <2>6, <2>8
<1> QED  BY <1>6, <1>7

-----------------------------------------------------------------------------
(* Registration, and the invariant. *)

\* A generation registers behind whatever holds the slot: if nothing does, then
\* all the generations before it are quiet.
LEMMA RegisterKeeps ==
    ASSUME TurnInv, TypeOK', NEW g \in Gens, NEW p, NEW phase,
           g = count + 1, p = slot, Register(g, p, phase),
           phase \in {"dropped", "start", "wait", "abort"},
           phase \in {"start", "abort"} => p = NoGen
    PROVE  TurnInv'
<1>0. /\ g > count /\ count = g - 1 /\ count' = g /\ slot' = g
      /\ \A k \in Gens \ {g} : (k <= count' <=> k <= count) /\ (k > count' <=> k > count)
      /\ \A k \in Gens : k < g => k <= count
  <2>1. count' = g /\ slot' = g /\ count \in Nat /\ g \in Nat
    BY SMTT(30), Parts, NAssumption DEF Register, Gens, GenOrNone
  <2> QED  BY SMTT(30), <2>1 DEF Gens
<1>1. /\ prev' = [prev EXCEPT ![g] = p] /\ pc' = [pc EXCEPT ![g] = phase]
      /\ bnd' = [bnd EXCEPT ![g].pred = p]
      /\ UNCHANGED <<ctxDone, obs, cw, turn, live, router>>
  BY DEF Register, turnVars
<1>2. /\ prev'[g] = p /\ pc'[g] = phase /\ bnd'[g].pred = p
      /\ bnd'[g].asked = bnd[g].asked /\ bnd'[g].issued = bnd[g].issued
      /\ bnd'[g].safe = bnd[g].safe /\ bnd'[g].retain = bnd[g].retain
      /\ bnd'[g].closed = bnd[g].closed /\ bnd'[g].root = bnd[g].root
  BY SMTT(30), <1>1, Parts DEF Boundary
<1>3. pc[g] = "idle" /\ cw[g].at = "none"  BY <1>0, Parts DEF OrderOK
<1>4. turn[g].at = "none" /\ router # g /\ ~turn[g].started
  BY <1>3, Parts DEF TurnOK, Late
<1>5. \A k \in Gens \ {g} : Same(k)  BY <1>1, Parts DEF Same
<1>6. NoRevival  BY <1>1, NothingRevived
<1>7. ~TurnOpen(g) /\ ~TurnOpen(g)'  BY <1>1, <1>4 DEF TurnOpen, Open
<1>8. Barred(g) => Barred(g)'  BY <1>1, <1>2, <1>3, <1>4 DEF Barred, Ahead
<1>9. Calm(g)  BY <1>1, <1>7, <1>8 DEF Calm, Quiet, Over
<1>10. \A k \in Gens : Calm(k)  BY <1>5, <1>6, <1>9, SameCalm
<1>11. p \in {NoGen, g - 1} /\ (p = NoGen => QuietBefore(g))
  <2>1. slot \in {NoGen, count} /\ (slot = NoGen => QuietUpTo(count))  BY Parts DEF SlotOK
  <2> QED  BY <1>0, <2>1 DEF QuietUpTo, QuietBefore
<1>12. OrderOK(g)'
  <2>1. g <= count' /\ ~(g > count') /\ phase # "idle"  BY SMTT(30), <1>0 DEF Gens
  <2> QED  BY <1>1, <1>2, <1>11, <2>1, Parts DEF OrderOK
<1>13. TurnOK(g)'
  <2>1. ctxDone'[g] = ctxDone[g] /\ UNCHANGED <<turn, live, router>> /\ pc'[g] # "run"
    BY <1>1, <1>2
  <2> QED  BY <1>2, <1>4, <2>1, TurnKept
<1>14. VerdictOK(g)'  BY <1>1, <1>2, <1>3, <1>10, VerdictKept
<1>15. BoundaryOK(g)'
  <2>1. BoundaryOK(g) /\ obs'[g].on = obs[g].on  BY <1>1, Parts
  <2>2. phase = "abort" => Quiet(g)'  BY <1>1, <1>2, <1>4, <1>7 DEF Quiet, Barred, Ahead
  <2>3. phase \notin {"drain", "close", "dereg"}  OBVIOUS
  <2> QED  BY <1>1, <1>2, <1>10, <1>11, <2>1, <2>2, <2>3, Lasting DEF BoundaryOK
<1>16. \A k \in Gens : LocalOK(k)'
  <2>1. \A k \in Gens \ {g} : LocalOK(k)'  BY <1>0, <1>5, <1>6, <1>10, SameKept
  <2> QED  BY <1>12, <1>13, <1>14, <1>15, <2>1 DEF LocalOK
<1>17. SlotOK'  BY SMTT(30), <1>0 DEF SlotOK, Gens, NoGen
<1>18. TurnExclusive'
  <2>1. \A k \in Gens : TurnOpen(k)' => TurnOpen(k)  BY <1>5, <1>6, <1>7, SameCalm
  <2>2. TurnExclusive  BY DEF TurnInv
  <2> QED  BY <2>1, <2>2 DEF TurnExclusive
<1> QED  BY <1>16, <1>17, <1>18 DEF TurnInv, LocalOK

LEMMA AdmissionKeeps ==
    ASSUME TurnInv, TypeOK', NEW g \in Gens, Admission(g)
    PROVE  TurnInv'
<1>1. CASE Launch(g)
  <2>1. PICK p, x : p = slot /\ x = IF Down THEN "dropped" ELSE IF slot = NoGen THEN "start" ELSE "wait"
    OBVIOUS
  <2>2. g = count + 1 /\ Register(g, p, x)  BY <1>1, <2>1 DEF Launch
  <2>3. x \in {"dropped", "start", "wait"} /\ (x = "start" => p = NoGen)  BY <2>1
  <2> QED  BY <2>1, <2>2, <2>3, RegisterKeeps
<1>2. CASE Wake(g)
  <2>1. PICK x : x = IF Down THEN "dropped" ELSE "start"  OBVIOUS
  <2>2. g = count + 1 /\ slot = NoGen /\ Register(g, NoGen, x)  BY <1>2, <2>1 DEF Wake
  <2> QED  BY <2>1, <2>2, RegisterKeeps
<1>3. CASE WakeFails(g)
  <2>1. g = count + 1 /\ slot = NoGen /\ Register(g, NoGen, "abort")  BY <1>3 DEF WakeFails
  <2> QED  BY <2>1, RegisterKeeps
<1> QED  BY <1>1, <1>2, <1>3 DEF Admission

\* Every step of the system keeps the invariant of the runtime turns.
LEMMA TurnInvStep == TurnInv /\ [Next]_vars => TurnInv'
<1> SUFFICES ASSUME TurnInv, [Next]_vars PROVE TurnInv'  OBVIOUS
<1>0. TypeOK'  BY TypeStep DEF TurnInv
<1>1. CASE UNCHANGED vars
  <2>1. /\ \A k \in Gens : Same(k)
        /\ count' = count /\ SlotMoves /\ live' = live /\ turn' = turn
    BY <1>1 DEF vars, Same, SlotMoves
  <2>2. NoRevival  BY <2>1, NothingRevived
  <2> QED  BY <1>0, <2>1, <2>2, NoStep
<1>2. ASSUME NEW g \in Gens, Goroutine(g) PROVE TurnInv'
  BY <1>0, <1>2, QueuedKeeps, RetainRootKeeps, UnlinkKeeps, RunKeeps, CompleteKeeps,
     SendUnsettledKeeps, LeaveKeeps
     DEF Goroutine
<1>3. ASSUME NEW g \in Gens, Drive(g) PROVE TurnInv'
  BY <1>0, <1>3, AdmitTurnKeeps, BeginSendKeeps, SendReturnsKeeps, SendFailsKeeps,
     FailureReturnedKeeps, CleanupKeeps, CleanupTerminalKeeps
     DEF Drive
<1>4. ASSUME NEW g \in Gens, Runtime(g) PROVE TurnInv'
  BY <1>0, <1>4, TurnTerminalKeeps, SessionExitsKeeps DEF Runtime
<1>5. ASSUME NEW g \in Gens, CancelWorker(g) PROVE TurnInv'
  BY <1>0, <1>5, ContextKeeps, WorkerKeeps, FinishKeeps, DecideKeeps DEF CancelWorker
<1>6. CASE LifecycleCloses
  <2>1. /\ \A k \in Gens : Same(k)
        /\ count' = count /\ SlotMoves /\ live' = live /\ turn' = turn
    BY <1>6 DEF LifecycleCloses, genVars, turnVars, Same, SlotMoves
  <2>2. NoRevival  BY <2>1, NothingRevived
  <2> QED  BY <1>0, <2>1, <2>2, NoStep
<1> QED
  BY <1>0, <1>1, <1>2, <1>3, <1>4, <1>5, <1>6, AdmissionKeeps, WatcherKeeps, StopKeeps, ContextKeeps
     DEF Next, Shutdown

LEMMA TurnInvInit == Init => TurnInv
<1> SUFFICES ASSUME Init PROVE TurnInv  OBVIOUS
<1>1. TypeOK  BY InitType
<1>2. \A g \in Gens :
         /\ pc[g] = "idle" /\ prev[g] = NoGen /\ ctxDone[g] = FALSE
         /\ bnd[g].pred = NoGen /\ bnd[g].asked = FALSE /\ bnd[g].issued = FALSE
         /\ bnd[g].safe = FALSE /\ bnd[g].closed = FALSE /\ bnd[g].root = NoGen
         /\ obs[g].watch = "off"
         /\ cw[g].at = "none" /\ cw[g].pred = NoGen
         /\ turn[g].at = "none" /\ turn[g].sess = NoGen /\ turn[g].decided = FALSE
         /\ turn[g].started = FALSE /\ turn[g].returned = FALSE /\ turn[g].err = FALSE
         /\ turn[g].drained = FALSE /\ turn[g].cut = FALSE
  BY DEF Init
<1>3. count = 0 /\ slot = NoGen /\ live = {} /\ router = NoGen  BY DEF Init
<1>4. \A g \in Gens : g # NoGen /\ g > count /\ ~(g <= count)  BY SMTT(30), <1>3 DEF Gens, NoGen
<1>5. SlotOK  BY <1>3, <1>4 DEF SlotOK, QuietUpTo
<1>6. \A g \in Gens : ~TurnOpen(g)  BY <1>2 DEF TurnOpen, Open
<1>7. ASSUME NEW g \in Gens PROVE OrderOK(g) /\ TurnOK(g)
  BY <1>2, <1>3, <1>4, <1>6 DEF OrderOK, TurnOK, Late
<1>8. ASSUME NEW g \in Gens PROVE VerdictOK(g) /\ BoundaryOK(g)
  BY <1>2, <1>4 DEF VerdictOK, BoundaryOK
<1>9. TurnExclusive  BY <1>6 DEF TurnExclusive
<1> QED  BY <1>1, <1>5, <1>7, <1>8, <1>9 DEF TurnInv

\* At every moment of every run a generation enters the runtime only behind
\* generations barred from it, with the router to itself.
THEOREM TurnInvariant == Spec => []TurnInv
  BY TurnInvInit, TurnInvStep, PTL DEF Spec

\* runtime_turn_boundary.go and generation_cancel.go: two prompts of one
\* conversation are never open in the runtime together.
THEOREM TurnsExclude == Spec => []TurnExclusive
<1>1. TurnInv => TurnExclusive  BY DEF TurnInv
<1> QED  BY <1>1, TurnInvariant, PTL

\* finishClaimedCancellation: a cancellation published as safe stays the full
\* boundary, with the turn over and the router handed back.
THEOREM IssuedStaysOver == Spec => []IssuedBoundary
<1>1. TurnInv => IssuedBoundary  BY DEF TurnInv, BoundaryOK, IssuedBoundary, Over
<1> QED  BY <1>1, TurnInvariant, PTL

-----------------------------------------------------------------------------
(* Who may lift a tombstone. *)

\* A step that marks one boundary safe lifts that tombstone and no other.
LEMMA OneLift ==
    ASSUME TypeOK, NEW g \in Gens, NEW b, bnd' = [bnd EXCEPT ![g] = b],
           NEW h \in Gens, bnd[h].retain, ~bnd'[h].retain
    PROVE  h = g /\ ~b.retain
  BY DEF TypeOK

LEMMA BoundaryRetain ==
    ASSUME NEW b \in Boundary, NEW x, NEW g, b.retain
    PROVE  /\ [b EXCEPT !.pred = x].retain
           /\ [b EXCEPT !.asked = TRUE].retain
           /\ [b EXCEPT !.safe = TRUE, !.closed = TRUE].retain
           /\ Unsafe(b, g, x).retain
           /\ [Unsafe(b, g, x) EXCEPT !.issued = TRUE].retain
  BY DEF Boundary, Unsafe

LEMMA TombstoneStep ==
    ASSUME TurnInv, Next, NEW h \in Gens, bnd[h].retain, ~bnd'[h].retain
    PROVE  ~TurnOpen(h)
<1>0. TypeOK /\ bnd' # bnd /\ bnd \in [Gens -> Boundary]  BY Parts
<1>1. \A S : bnd' # ClaimBoundary(S)
  <2> SUFFICES ASSUME NEW S, bnd' = ClaimBoundary(S) PROVE FALSE  OBVIOUS
  <2>1. bnd'[h] = [bnd[h] EXCEPT !.asked = TRUE] \/ bnd'[h] = bnd[h]  BY DEF ClaimBoundary
  <2> QED  BY <1>0, <2>1, BoundaryRetain
<1>2. \A g \in Gens : \A p : bnd' # [bnd EXCEPT ![g].pred = p]
  <2> SUFFICES ASSUME NEW g \in Gens, NEW p, bnd' = [bnd EXCEPT ![g] = [bnd[g] EXCEPT !.pred = p]]
               PROVE FALSE
    OBVIOUS
  <2>1. h = g /\ ~[bnd[g] EXCEPT !.pred = p].retain  BY <1>0, OneLift
  <2> QED  BY <1>0, <2>1, BoundaryRetain
<1>3. \A g \in Gens : \A x : bnd' # [bnd EXCEPT ![g] = Unsafe(bnd[g], g, x)]
  <2> SUFFICES ASSUME NEW g \in Gens, NEW x, bnd' = [bnd EXCEPT ![g] = Unsafe(bnd[g], g, x)]
               PROVE FALSE
    OBVIOUS
  <2>1. h = g /\ ~Unsafe(bnd[g], g, x).retain  BY <1>0, OneLift
  <2> QED  BY <1>0, <2>1, BoundaryRetain
<1>4. ASSUME NEW g \in Gens, Admission(g) PROVE FALSE
  <2>1. \E p, x : Register(g, p, x)  BY <1>4 DEF Admission, Launch, Wake, WakeFails
  <2> QED  BY <1>2, <2>1 DEF Register
<1>5. ASSUME NEW g \in Gens, Goroutine(g) PROVE FALSE
  <2>1. ~StartRun(g)  BY <1>2 DEF StartRun
  <2>2. ~RetainRoot(g)  BY <1>3 DEF RetainRoot
  <2>3. ~SendUnsettled(g)  BY <1>1 DEF SendUnsettled
  <2>4. ~Complete(g)
    <3> SUFFICES ASSUME Complete(g) PROVE FALSE  OBVIOUS
    <3>1. PICK b : b = IF bnd[g].asked \/ bnd[g].retain THEN bnd[g]
                       ELSE [bnd[g] EXCEPT !.safe = TRUE, !.closed = TRUE]
      OBVIOUS
    <3>2. bnd' = [bnd EXCEPT ![g] = b]  BY <3>1 DEF Complete
    <3>3. h = g /\ ~b.retain  BY <1>0, <3>2, OneLift
    <3> QED  BY <3>1, <3>3
  <2> QED
    BY <1>0, <1>5, <2>1, <2>2, <2>3, <2>4
       DEF Goroutine, PredecessorDone, PredecessorIssued, WaitAbandoned, ReadBoundary, Refused,
           HistoryFails, RunEnds, RunStalls, CloseDone, Deregister, DeregisterIssued
<1>6. ASSUME NEW g \in Gens, Drive(g) PROVE ~TurnOpen(h)
  <2>1. ~SendFails(g)  BY <1>3 DEF SendFails
  <2>2. CASE CleanupTerminal(g)
    <3>1. h = g  BY <1>0, <2>2, OneLift DEF CleanupTerminal
    <3> QED  BY <2>2, <3>1 DEF CleanupTerminal, TurnOpen, Open
  <2> QED
    BY <1>0, <1>6, <2>1, <2>2
       DEF Drive, AdmitTurn, BeginSend, SendReturns, FailureReturned, CleanupStop, CleanupTimesOut
<1>7. ASSUME NEW g \in Gens, Runtime(g) PROVE FALSE
  BY <1>0, <1>7 DEF Runtime, TurnTerminal, SessionExits
<1>8. ASSUME NEW g \in Gens, CancelWorker(g) PROVE ~TurnOpen(h)
  <2>1. CASE Decide(g)
    <3>1. CASE cw[g].predSafe /\ cw[g].turnSafe
      <4>1. h = g  BY <1>0, <2>1, <3>1, OneLift DEF Decide
      <4>2. cw[g].at = "decide" \/ (cw[g].at = "turn" /\ ~cw[g].bind)  BY <2>1 DEF Decide
      <4>3. Over(g)  BY <3>1, <4>2, DecideKnows
      <4> QED  BY <4>1, <4>3 DEF Over
    <3>2. CASE ~(cw[g].predSafe /\ cw[g].turnSafe)
      <4>1. PICK x : bnd' = [bnd EXCEPT ![g] = [Unsafe(bnd[g], g, x) EXCEPT !.issued = TRUE]]
        BY <2>1, <3>2 DEF Decide
      <4>2. h = g /\ ~[Unsafe(bnd[g], g, x) EXCEPT !.issued = TRUE].retain
        BY <1>0, <4>1, OneLift
      <4> QED  BY <1>0, <4>2, BoundaryRetain
    <3> QED  BY <3>1, <3>2
  <2> QED
    BY <1>0, <1>8, <2>1
       DEF CancelWorker, WorkerStarts, WorkerPredDone, WorkerPredIssued, WorkerPredRead,
           WorkerPredExpires, ReleaseUnsent, CancelTurn, TurnDrained, StopRuntime,
           RuntimeTerminal, StopExpires
<1>9. ASSUME NEW g \in Gens, Watcher(g) PROVE ~TurnOpen(h)
  <2>1. CASE InheritSafe(g)
    <3>1. h = g  BY <1>0, <2>1, OneLift DEF InheritSafe
    <3> QED  BY <2>1, <3>1, Parts DEF InheritSafe, BoundaryOK, Over
  <2>2. CASE RuntimeSafe(g)
    <3>1. h = g  BY <1>0, <2>2, OneLift DEF RuntimeSafe
    <3> QED  BY <2>2, <3>1, Parts DEF RuntimeSafe, TurnOK, TurnOpen, Open
  <2> QED  BY <1>0, <1>9, <2>1, <2>2 DEF Watcher, ReleaseSafe, WatcherEnds
<1>10. ~UserStop  BY <1>0, <1>1 DEF UserStop, StopReads, StopClaims, CancelOne
<1>11. ~Shutdown  BY <1>0, <1>1 DEF Shutdown, ShutdownBegins, LifecycleCloses, Bridge
<1> QED  BY <1>4, <1>5, <1>6, <1>7, <1>8, <1>9, <1>10, <1>11 DEF Next

\* observeUnsafeRuntimeBoundary, observeUnsafePredecessor, cleanupFailedRuntimeSend
\* and finishClaimedCancellation lift a tombstone only once the generation's own
\* turn is over in the runtime.
THEOREM TombstonesHold == Spec => TombstoneLifts
<1> DEFINE Lifts == \A g \in Gens : bnd[g].retain /\ ~bnd'[g].retain => ~TurnOpen(g)
<1>1. TurnInv /\ [Next]_vars => [Lifts]_vars  BY TombstoneStep
<1> QED  BY <1>1, TurnInvariant, PTL DEF Spec, TombstoneLifts
=============================================================================
