------------------------ MODULE ScheduleFiresProofs -------------------------
(***************************************************************************)
(* The safety of schedule fires, for every number of engines, schedules,   *)
(* occurrences, attempts, faults and edits.  TypeOK and FireInv are        *)
(* inductive together: that an attempt stays within max_retries rests on   *)
(* the claims, and what the claims say rests on the types.                 *)
(***************************************************************************)
EXTENDS ScheduleFires, TLAPS

\* A leaf that names no prover goes to Zenon.
USE ZenonT(30)

InFlight == [at : Working, fire : Fires, seen : Fences,
             result : {"none", "ok", "duplicate", "error"}]

\* What an engine holds at each point of its tick.
LEMMA EngineRecords ==
    ASSUME NEW r \in Engine
    PROVE  /\ r.at = "create" => r.fire \in Fires /\ r.next \in 1..Never
           /\ r.at = "disable" => r.fire \in Fires
           /\ r.at = "claim" => r.fire \in Fires /\ r.seen \in Fences
           /\ r.at \in Working => r \in InFlight
           /\ r.at = "observe" => r.fire \in Fires
BY SMTT(30) DEF Engine, Idle, Working, InFlight

\* A fire is named by its schedule and an occurrence.
LEMMA FireNames ==
    /\ \A f \in Fires : f[1] \in Schedules /\ f[2] \in Times
    /\ \A s \in Schedules, k \in Times : <<s, k>> \in Fires
BY DEF Fires

\* An engine that moves to another point of its tick stays well typed.
LEMMA EngineMoves ==
    ASSUME eng \in [Engines -> Engine], NEW e \in Engines, NEW r \in Engine, Become(e, r)
    PROVE  eng' \in [Engines -> Engine]
BY DEF Become

\* So does one that moves on within Enqueue.
LEMMA EnqueueMoves ==
    ASSUME eng \in [Engines -> Engine], NEW e \in Engines, eng[e] \in InFlight
    PROVE  /\ \A p \in Working : Goto(e, p) => eng' \in [Engines -> Engine]
           /\ \A x \in {"ok", "duplicate", "error"} : Finish(e, x) => eng' \in [Engines -> Engine]
<1>1. InFlight \subseteq Engine
  BY DEF Engine, InFlight
<1>2. \A p \in Working : [eng[e] EXCEPT !.at = p] \in InFlight
  BY DEF InFlight
<1>3. \A x \in {"ok", "duplicate", "error"} :
          [eng[e] EXCEPT !.at = "transition", !.result = x] \in InFlight
  BY DEF InFlight, Working
<1> QED
  BY <1>1, <1>2, <1>3 DEF Goto, Finish

\* The points of a tick that carry no claim are engine states.
LEMMA EngineStates ==
    /\ Idle \in Engine
    /\ \A f \in Fires, k \in 1..Never : [at |-> "create", fire |-> f, next |-> k] \in Engine
    /\ \A f \in Fires : [at |-> "disable", fire |-> f] \in Engine
    /\ \A f \in Fires, x \in Fences : [at |-> "claim", fire |-> f, seen |-> x] \in Engine
    /\ \A f \in Fires, x \in Fences :
           [at |-> "check", fire |-> f, seen |-> x, result |-> "none"] \in Engine
    /\ \A f \in Fires, x \in {"succeeded", "skipped", "exhausted"} :
           [at |-> "observe", fire |-> f, outcome |-> x] \in Engine
BY DEF Engine, Idle, Working

-----------------------------------------------------------------------------
(* Type correctness. *)

\* The updates of single columns keep a row well typed.
LEMMA RowExcept ==
    ASSUME NEW row \in Row
    PROVE  /\ [row EXCEPT !.accepted = TRUE] \in Row
           /\ \A x \in {"pending", "succeeded", "skipped", "retrying", "exhausted"} :
                  [row EXCEPT !.status = x] \in Row
BY DEF Row

\* A row that has an attempt left may be claimed; a recovered claim keeps its own.
LEMMA ClaimedRow ==
    ASSUME NEW row \in Row, row.status \in {"pending", "retrying", "claimed"},
           row.status # "claimed" => row.attempt < MaxAttempts
    PROVE  Claimed(row) \in Row /\ Fence(Claimed(row)) \in Fences /\ Fence(row) \in Fences
<1>1. MaxAttempts \in Nat /\ row.attempt \in 0..MaxAttempts /\ row.claim \in Nat
  BY ScheduleAssumption DEF Row
<1>2. (IF row.status = "claimed" THEN row.attempt ELSE row.attempt + 1) \in 0..MaxAttempts
  BY SMTT(30), <1>1
<1>3. Claimed(row) \in Row
  BY SMTT(30), <1>1, <1>2 DEF Claimed, Row
<1> QED
  BY <1>1, <1>2, <1>3 DEF Claimed, Fence, Fences, Row

\* Disabling a schedule keeps its row well typed.
LEMMA ScheduleExpires ==
    ASSUME sched \in [Schedules -> Schedule], NEW s \in Schedules, Expire(s) \/ UNCHANGED sched
    PROVE  sched' \in [Schedules -> Schedule]
<1>1. [sched[s] EXCEPT !.status = "expired"] \in Schedule
  BY DEF Schedule
<1> QED
  BY <1>1 DEF Expire

\* Creating a fire keeps the types.
LEMMA CreateType ==
    ASSUME TypeOK, NEW e \in Engines,
           CreateFire(e) \/ Disable(e) \/ \E s \in Schedules : ListSchedule(e, s)
    PROVE  TypeOK'
<1> USE ScheduleAssumption, EngineStates, FireNames
<1>1. CASE \E s \in Schedules : ListSchedule(e, s)
  <2> PICK s \in Schedules : ListSchedule(e, s)
    BY <1>1
  <2>1. sched[s].next \in Times /\ NextRun(s) \in 1..Never
    BY SMTT(30) DEF TypeOK, ListSchedule, DueSchedule, NextRun, Schedule, Times, Never
  <2>2. eng' \in [Engines -> Engine]
    BY <2>1, EngineMoves DEF TypeOK, ListSchedule
  <2> QED
    BY <2>2 DEF TypeOK, ListSchedule, rows
<1>2. CASE CreateFire(e)
  <2>1. eng[e].fire \in Fires /\ eng[e].next \in 1..Never
    BY <1>2, EngineRecords DEF TypeOK, CreateFire, At
  <2>2. eng' \in [Engines -> Engine]
    BY <1>2, <2>1, EngineMoves DEF TypeOK, CreateFire
  <2>3. sched' \in [Schedules -> Schedule]
    <3> DEFINE s == eng[e].fire[1]
    <3>1. sched' = sched \/ sched' = [sched EXCEPT ![s] = [sched[s] EXCEPT !.next = eng[e].next]]
      BY <1>2 DEF CreateFire, rows
    <3>2. sched[s] \in Schedule
      BY <2>1 DEF TypeOK
    <3>3. [sched[s] EXCEPT !.next = eng[e].next] \in Schedule
      BY <2>1, <3>2 DEF Schedule
    <3> HIDE DEF s
    <3> QED
      BY <3>1, <3>3 DEF TypeOK
  <2>4. fires' \in [Fires -> Row]
    <3>1. \/ fires' = fires
          \/ fires' = [fires EXCEPT ![eng[e].fire] = [fires[eng[e].fire] EXCEPT !.status = "pending"]]
      BY <1>2 DEF CreateFire, rows
    <3>2. [fires[eng[e].fire] EXCEPT !.status = "pending"] \in Row
      BY <2>1, RowExcept DEF TypeOK
    <3> QED
      BY <2>1, <3>1, <3>2 DEF TypeOK
  <2> QED
    BY SMTT(30), <1>2, <2>2, <2>3, <2>4 DEF TypeOK, CreateFire, Fault, NoFault
<1>3. CASE Disable(e)
  <2>1. eng[e].fire \in Fires
    BY <1>3, EngineRecords DEF TypeOK, Disable, At
  <2>2. eng' \in [Engines -> Engine]
    BY <1>3, EngineMoves DEF TypeOK, Disable
  <2>3. sched' \in [Schedules -> Schedule]
    BY <1>3, <2>1, ScheduleExpires DEF TypeOK, Disable
  <2> QED
    BY SMTT(30), <1>3, <2>2, <2>3 DEF TypeOK, Disable, Fault, NoFault
<1> QED
  BY <1>1, <1>2, <1>3

\* So does claiming one, because FireInv leaves an attempt to whatever is claimed
\* anew: attempt_count never passes max_retries.
LEMMA ClaimType ==
    ASSUME TypeOK, FireInv, NEW e \in Engines,
           ClaimFire(e) \/ \E f \in Fires : ListFire(e, f)
    PROVE  TypeOK'
<1> USE ScheduleAssumption, EngineStates
<1>1. CASE \E f \in Fires : ListFire(e, f)
  <2> PICK f \in Fires : ListFire(e, f)
    BY <1>1
  <2>1. Fence(fires[f]) \in Fences
    BY DEF TypeOK, ListFire, DueFire, Fence, Fences, Row
  <2>2. eng' \in [Engines -> Engine]
    BY <2>1, EngineMoves DEF TypeOK, ListFire
  <2> QED
    BY SMTT(30), <2>2 DEF TypeOK, ListFire, rows, Fault, NoFault
<1>2. CASE ClaimFire(e)
  <2> DEFINE f == eng[e].fire
  <2>1. f \in Fires /\ eng[e].seen \in Fences
    BY <1>2, EngineRecords DEF TypeOK, ClaimFire, At
  <2>2. CASE Fence(fires[f]) = eng[e].seen
    <3>1. fires[f] \in Row /\ fires[f].status \in {"pending", "retrying", "claimed"}
      BY SMTT(30), <2>1, <2>2 DEF TypeOK, Fence, Fences
    <3>2. fires[f].status # "claimed" => fires[f].attempt < MaxAttempts
      BY <2>1, <3>1 DEF FireInv, FireOK
    <3>3. Claimed(fires[f]) \in Row /\ Fence(Claimed(fires[f])) \in Fences
      BY <3>1, <3>2, ClaimedRow
    <3>4. eng' \in [Engines -> Engine]
      BY <1>2, <2>1, <2>2, <3>3, EngineMoves DEF TypeOK, ClaimFire
    <3>5. fires' \in [Fires -> Row]
      BY <1>2, <2>1, <2>2, <3>3 DEF TypeOK, ClaimFire
    <3> QED
      BY SMTT(30), <1>2, <3>4, <3>5 DEF TypeOK, ClaimFire, Fault, NoFault
  <2>3. CASE Fence(fires[f]) # eng[e].seen
    <3>1. eng' \in [Engines -> Engine]
      BY <1>2, <2>3, EngineMoves DEF TypeOK, ClaimFire
    <3> QED
      BY SMTT(30), <1>2, <2>3, <3>1 DEF TypeOK, ClaimFire, Fault, NoFault
  <2> QED
    BY <2>2, <2>3
<1> QED
  BY <1>1, <1>2

\* So does Enqueue.
LEMMA EnqueueType ==
    ASSUME TypeOK, NEW e \in Engines, Check(e) \/ Dispatch(e) \/ Mark(e)
    PROVE  TypeOK'
<1>1. eng[e] \in InFlight
  BY EngineRecords DEF TypeOK, Check, Dispatch, Mark, At, Working
<1>2. eng' \in [Engines -> Engine]
  BY <1>1, EnqueueMoves DEF TypeOK, Check, Dispatch, Mark, Working
<1>3. fires' \in [Fires -> Row]
  <2>1. eng[e].fire \in Fires
    BY <1>1 DEF InFlight
  <2> QED
    <3>1. \/ fires' = fires
          \/ fires' = [fires EXCEPT ![eng[e].fire] = [fires[eng[e].fire] EXCEPT !.accepted = TRUE]]
      BY DEF Check, Dispatch, Mark, rows
    <3>2. [fires[eng[e].fire] EXCEPT !.accepted = TRUE] \in Row
      BY <2>1, RowExcept DEF TypeOK
    <3> QED
      BY <2>1, <3>1, <3>2 DEF TypeOK
<1> QED
  BY SMTT(30), <1>2, <1>3, ScheduleAssumption DEF TypeOK, Check, Dispatch, Mark, rows, Fault, NoFault

\* So do the outcome of a fire and its observation.
LEMMA OutcomeType ==
    ASSUME TypeOK, NEW e \in Engines, Transition(e) \/ Observe(e)
    PROVE  TypeOK'
<1> USE ScheduleAssumption, EngineStates, FireNames
<1>1. CASE Transition(e)
  <2>1. eng[e] \in InFlight
    BY <1>1, EngineRecords DEF TypeOK, Transition, At, Working
  <2>2. Outcome(e) \in {"succeeded", "skipped", "retrying", "exhausted"}
    BY <2>1 DEF Outcome, InFlight
  <2>3. eng' \in [Engines -> Engine]
    BY <1>1, <2>1, <2>2, EngineMoves DEF TypeOK, Transition, InFlight
  <2>4. fires' \in [Fires -> Row]
    <3> DEFINE f == eng[e].fire
    <3>1. f \in Fires
      BY <2>1 DEF InFlight
    <3>2. fires' = fires \/ fires' = [fires EXCEPT ![f] = [fires[f] EXCEPT !.status = Outcome(e)]]
      BY <1>1 DEF Transition
    <3>3. [fires[f] EXCEPT !.status = Outcome(e)] \in Row
      BY <2>2, <3>1, RowExcept DEF TypeOK
    <3> HIDE DEF f
    <3> QED
      BY <3>1, <3>2, <3>3 DEF TypeOK
  <2> QED
    BY SMTT(30), <1>1, <2>3, <2>4 DEF TypeOK, Transition, Fault, NoFault
<1>2. CASE Observe(e)
  <2>1. eng[e].fire \in Fires
    BY <1>2, EngineRecords DEF TypeOK, Observe, At
  <2>2. eng' \in [Engines -> Engine]
    BY <1>2, <2>1, EngineMoves DEF TypeOK, Observe
  <2>3. sched' \in [Schedules -> Schedule]
    BY <1>2, <2>1, ScheduleExpires DEF TypeOK, Observe
  <2>4. observed' \in [Fires -> Nat]
    BY SMTT(30), <1>2, <2>1 DEF TypeOK, Observe
  <2> QED
    BY <1>2, <2>2, <2>3, <2>4 DEF TypeOK, Observe
<1> QED
  BY <1>1, <1>2

\* So do operators, the clock and a crash.
LEMMA OthersType ==
    ASSUME TypeOK, Operator \/ Tick \/ \E e \in Engines : Crash(e)
    PROVE  TypeOK'
<1> USE ScheduleAssumption
<1>1. CASE \E s \in Schedules : \E status \in {"active", "paused", sched[s].status} : SetStatus(s, status)
  BY SMTT(30), <1>1 DEF TypeOK, SetStatus, Edits, Schedule
<1>2. ASSUME NEW s \in Schedules, NEW status \in {"active", "paused", sched[s].status},
             NEW spec \in BOOLEAN, PatchRead(s, status, spec)
      PROVE  TypeOK'
  <2>1. sched[s] \in Schedule /\ FirstRun(s) \in 1..Never /\ status \in {"active", "paused", "expired"}
    BY SMTT(30), <1>2 DEF TypeOK, Schedule, FirstRun, Times, Never
  <2>2. \A k \in 1..Never : [sched[s] EXCEPT !.status = status, !.next = k] \in Schedule
    BY <2>1 DEF Schedule
  <2>3. PICK row \in Schedule : edit' = [at |-> "write", s |-> s, row |-> row]
    BY <1>2, <2>1, <2>2 DEF PatchRead, Schedule
  <2> QED
    BY SMTT(30), <1>2, <2>3 DEF TypeOK, PatchRead, Edits, rows
<1>3. CASE PatchWrite
  BY <1>3 DEF TypeOK, PatchWrite, NoEdit
<1>4. CASE Tick
  BY SMTT(30), <1>4 DEF TypeOK, Tick, rows, Times
<1>5. CASE \E e \in Engines : Crash(e)
  BY SMTT(30), <1>5, EngineMoves, EngineStates DEF TypeOK, Crash, rows, Fault
<1> QED
  BY <1>1, <1>2, <1>3, <1>4, <1>5 DEF Operator

\* Every step keeps the types.
LEMMA TypeStep == TypeOK /\ FireInv /\ [Next]_vars => TypeOK'
<1> SUFFICES ASSUME TypeOK, FireInv, [Next]_vars
             PROVE  TypeOK'
  OBVIOUS
<1>1. CASE UNCHANGED vars
  BY <1>1 DEF TypeOK, vars
<1> QED
  BY <1>1, CreateType, ClaimType, EnqueueType, OutcomeType, OthersType DEF Next, EngineStep

-----------------------------------------------------------------------------
(* Claims and outcomes. *)

\* What the fence of a claim compares: status, attempt_count and fired_at.
LEMMA FenceFields ==
    \A row, x : x \in Fences =>
        (Fence(row) = x <=> row.status = x.status /\ row.attempt = x.attempt /\ row.claim = x.claim)
BY SMTT(30) DEF Fence, Fences

\* An engine at work, or about to observe, has a fire, and at work a fence.
LEMMA EngineFacts ==
    ASSUME TypeOK, NEW d \in Engines
    PROVE  /\ eng[d].at \in Working \cup {"observe"} => eng[d].fire \in Fires
           /\ eng[d].at \in Working => eng[d].seen \in Fences
BY EngineRecords DEF TypeOK, InFlight

\* Where an engine holds neither a claim nor an outcome.
Free(r) == r.at \notin Working \cup {"observe"}

\* An engine that gives up, crashes or has only listed something disturbs no one.
LEMMA FreeKeeps ==
    ASSUME TypeOK, FireInv, NEW e \in Engines, NEW r, Free(r), Become(e, r),
           UNCHANGED <<fires, observed>>
    PROVE  FireInv'
<1>1. eng'[e] = r /\ \A d \in Engines \ {e} : eng'[d] = eng[d]
  BY DEF Become, TypeOK
<1>2. \A f \in Fires : FireOK(f)'
  BY DEF FireInv, FireOK, Terminal
<1>3. \A d \in Engines : ClaimOK(d)'
  BY SMTT(30), <1>1 DEF FireInv, ClaimOK, Holds, Fence, At, Free
<1>4. \A d \in Engines : OutcomeOK(d)'
  BY SMTT(30), <1>1 DEF FireInv, OutcomeOK, Terminal, At, Free
<1> QED
  BY <1>2, <1>3, <1>4 DEF FireInv

\* Creating a fire: nobody holds a claim on a row that did not exist.
LEMMA CreateKeeps ==
    ASSUME TypeOK, FireInv, NEW e \in Engines, CreateFire(e)
    PROVE  FireInv'
<1> DEFINE f == eng[e].fire
<1>1. f \in Fires
  BY EngineRecords DEF TypeOK, CreateFire, At
<1>2. CASE UNCHANGED fires
  <2>1. \E r : Free(r) /\ Become(e, r)
    BY DEF CreateFire, Free, Idle, Working
  <2> QED
    BY <1>2, <2>1, FreeKeeps DEF CreateFire
<1>3. CASE fires' # fires
  <2>1. /\ fires[f].status = "absent"
        /\ fires' = [fires EXCEPT ![f].status = "pending"]
        /\ observed' = observed
    BY <1>3 DEF CreateFire, rows
  <2>2. PICK r : Free(r) /\ Become(e, r)
    BY DEF CreateFire, Free, Idle, Working
  <2>3. eng'[e] = r /\ \A d \in Engines \ {e} : eng'[d] = eng[d]
    BY <2>2 DEF Become, TypeOK
  <2>4. /\ fires'[f].status = "pending" /\ fires'[f].claim = fires[f].claim
        /\ fires'[f].attempt = fires[f].attempt
        /\ \A h \in Fires \ {f} : fires'[h] = fires[h]
    BY <1>1, <2>1 DEF TypeOK, Row
  <2>5. \A h \in Fires : FireOK(h)'
    BY SMTT(30), <1>1, <2>1, <2>4 DEF FireInv, FireOK, Terminal
  <2>6. ASSUME NEW d \in Engines
        PROVE  ClaimOK(d)'
    <3>1. eng[d].at \in Working /\ eng[d].fire = f => eng[d].seen.claim # fires[f].claim
      BY SMTT(30), <2>1, EngineFacts, FenceFields DEF FireInv, ClaimOK, Holds
    <3>2. CASE d = e
      BY <2>2, <2>3, <3>2 DEF ClaimOK, Free
    <3>3. CASE d # e
      <4>1. ClaimOK(d) /\ eng'[d] = eng[d]
        BY <2>3, <3>3 DEF FireInv
      <4>2. eng[d].at \in Working => eng[d].fire \in Fires /\ eng[d].seen \in Fences
        BY EngineFacts
      <4>3. \A c \in Engines : eng'[c].at \in Working => eng'[c] = eng[c]
        BY <2>2, <2>3 DEF Free
      <4> QED
        BY SMTT(30), <1>1, <2>4, <3>1, <4>1, <4>2, <4>3, FenceFields DEF ClaimOK, Holds, At
    <3> QED
      BY <3>2, <3>3
  <2>7. ASSUME NEW d \in Engines
        PROVE  OutcomeOK(d)'
    BY SMTT(30), <1>1, <2>1, <2>2, <2>3, <2>4, EngineFacts DEF FireInv, OutcomeOK, Terminal, At, Free
  <2> QED
    BY <2>5, <2>6, <2>7 DEF FireInv
<1> QED
  BY <1>2, <1>3

\* A won claim is younger than every other: ClaimScheduleFire replaces fired_at,
\* "which fences the prior owner".
LEMMA ClaimKeeps ==
    ASSUME TypeOK, FireInv, NEW e \in Engines, ClaimFire(e)
    PROVE  FireInv'
<1> DEFINE f == eng[e].fire
<1>1. f \in Fires /\ eng[e].seen \in Fences
  BY EngineRecords DEF TypeOK, ClaimFire, At
<1>2. CASE Become(e, Idle) /\ UNCHANGED fires
  <2>1. Free(Idle)
    BY DEF Free, Idle, Working
  <2> QED
    BY <1>2, <2>1, FreeKeeps DEF ClaimFire
<1>3. CASE ~(Become(e, Idle) /\ UNCHANGED fires)
  <2> DEFINE row == Claimed(fires[f])
             mine == [at |-> "check", fire |-> f, seen |-> Fence(row), result |-> "none"]
  <2>1. /\ Fence(fires[f]) = eng[e].seen
        /\ fires' = [fires EXCEPT ![f] = row]
        /\ Become(e, mine)
        /\ observed' = observed
    BY <1>3 DEF ClaimFire
  <2>2. eng'[e] = mine /\ \A d \in Engines \ {e} : eng'[d] = eng[d]
    BY <2>1 DEF Become, TypeOK
  <2>3. fires'[f] = row /\ \A h \in Fires \ {f} : fires'[h] = fires[h]
    BY <1>1, <2>1 DEF TypeOK
  <2>4. fires[f].status \in {"pending", "retrying", "claimed"}
    BY SMTT(30), <1>1, <2>1 DEF Fence, Fences
  <2>5. row.status = "claimed" /\ row.claim = fires[f].claim + 1 /\ fires[f].claim \in Nat
    BY <1>1 DEF Claimed, TypeOK, Row
  <2>6. Fence(row) \in Fences /\ Fence(row).status = "claimed" /\ Fence(row).claim = row.claim
    <3>1. fires[f].status # "claimed" => fires[f].attempt < MaxAttempts
      BY <1>1, <2>4 DEF FireInv, FireOK
    <3>2. fires[f] \in Row
      BY <1>1 DEF TypeOK
    <3> QED
      BY <2>4, <2>5, <3>1, <3>2, ClaimedRow DEF Fence
  <2> HIDE DEF row
  <2>7. \A h \in Fires : FireOK(h)'
    BY <1>1, <2>1, <2>3, <2>4, <2>5 DEF FireInv, FireOK, Terminal
  <2>8. ASSUME NEW d \in Engines
        PROVE  ClaimOK(d)'
    <3>1. CASE d = e
      <4>1. \A c \in Engines \ {e} : eng[c].at \in Working /\ eng[c].fire = f =>
                /\ eng[c].seen.claim \in Nat
                /\ eng[c].seen.claim <= fires[f].claim
        BY EngineFacts DEF FireInv, ClaimOK, Fences
      <4>2. eng'[e].at = "check" /\ eng'[e].fire = f /\ eng'[e].seen = Fence(row)
        BY SMTT(30), <2>2
      <4>3. Holds(e)'
        BY <4>2, <2>3 DEF Holds
      <4>4. \A c \in Engines \ {e} : eng'[c].at \in Working /\ eng'[c].fire = f =>
                eng'[c].seen.claim # Fence(row).claim
        BY SMTT(30), <4>1, <2>2, <2>5, <2>6
      <4>5. Fence(row).claim <= row.claim
        BY SMTT(30), <2>5, <2>6
      <4> QED
        BY <3>1, <4>2, <4>3, <4>4, <4>5, <2>3, <2>6 DEF ClaimOK, At
    <3>2. CASE d # e
      <4>1. eng[d].at \in Working /\ eng[d].fire = f =>
                /\ eng[d].seen.claim \in Nat
                /\ eng[d].seen.claim <= fires[f].claim
        BY EngineFacts DEF FireInv, ClaimOK, Fences
      <4>2. ClaimOK(d) /\ eng'[d] = eng[d]
        BY <2>2, <3>2 DEF FireInv
      <4>3. eng[d].at \in Working => eng[d].fire \in Fires /\ eng[d].seen \in Fences
        BY EngineFacts
      <4>4. \A c \in Engines \ {d} : eng'[c].at \in Working => \/ eng'[c] = eng[c]
                                                            \/ eng'[c] = mine
        BY <2>2
      <4>5. mine.fire = f /\ mine.seen = Fence(row)
        OBVIOUS
      <4> HIDE DEF mine
      <4>6. \A c \in Engines \ {d} : eng'[d].at \in Working /\ eng'[c].at \in Working
                /\ eng'[c].fire = eng'[d].fire => eng'[c].seen.claim # eng'[d].seen.claim
        <5>1. \A c \in Engines \ {d} : eng[d].at \in Working /\ eng[c].at \in Working
                  /\ eng[c].fire = eng[d].fire => eng[c].seen.claim # eng[d].seen.claim
          BY <4>2 DEF ClaimOK
        <5> QED
          BY SMTT(30), <4>1, <4>2, <4>4, <4>5, <5>1, <2>5, <2>6
      <4>7. CASE eng[d].at \in Working /\ eng[d].fire = f
        <5>1. eng[d].seen.claim <= fires'[f].claim /\ eng[d].seen.claim # fires'[f].claim
          BY SMTT(30), <4>1, <4>7, <2>3, <2>5
        <5>2. ~Holds(d)'
          BY SMTT(30), <4>2, <4>7, <5>1 DEF Holds, Fence
        <5> QED
          BY <4>2, <4>6, <4>7, <5>1, <5>2 DEF ClaimOK
      <4>8. CASE eng[d].at \in Working /\ eng[d].fire # f
        BY <4>2, <4>3, <4>6, <4>8, <2>3 DEF ClaimOK, Holds, At
      <4> QED
        BY <4>2, <4>7, <4>8 DEF ClaimOK
    <3> QED
      BY <3>1, <3>2
  <2>9. ASSUME NEW d \in Engines
        PROVE  OutcomeOK(d)'
    BY SMTT(30), <1>1, <2>1, <2>2, <2>3, <2>4, EngineFacts DEF FireInv, OutcomeOK, Terminal, At
  <2> QED
    BY <2>7, <2>8, <2>9 DEF FireInv
<1> QED
  BY <1>2, <1>3

\* Enqueue before the receipt: the fire is dispatched under a claim only when its
\* receipt was not there, and nobody else can write it under that claim.
LEMMA DispatchKeeps ==
    ASSUME TypeOK, FireInv, NEW e \in Engines, Check(e) \/ Dispatch(e)
    PROVE  FireInv'
<1>1. eng[e].at \in Working /\ eng[e] \in InFlight
  BY EngineRecords DEF TypeOK, Check, Dispatch, At, Working
<1>2. UNCHANGED <<fires, observed>>
  BY DEF Check, Dispatch, rows
<1>3. \A d \in Engines \ {e} : eng'[d] = eng[d]
  BY DEF Check, Dispatch, Goto, Finish, TypeOK
<1>4. /\ eng'[e].fire = eng[e].fire
      /\ eng'[e].seen = eng[e].seen
      /\ eng'[e].at \in {"dispatch", "mark", "transition"}
      /\ eng'[e].at = "dispatch" => ~fires[eng[e].fire].accepted
  BY SMTT(30), <1>1 DEF Check, Dispatch, Goto, Finish, TypeOK, InFlight
<1>5. \A h \in Fires : FireOK(h)'
  BY <1>2 DEF FireInv, FireOK, Terminal
<1>6. ASSUME NEW d \in Engines
      PROVE  ClaimOK(d)'
  <2>1. \A c \in Engines : /\ eng'[c].fire = eng[c].fire
                           /\ eng'[c].seen = eng[c].seen
                           /\ eng'[c].at \in Working <=> eng[c].at \in Working
    BY <1>1, <1>3, <1>4 DEF Working
  <2>2. Holds(d)' <=> Holds(d)
    BY <1>2, <2>1 DEF Holds
  <2>3. At(d, "dispatch")' => At(d, "dispatch") \/ ~fires[eng[d].fire].accepted
    BY <1>3, <1>4 DEF At
  <2>4. ClaimOK(d)
    BY DEF FireInv
  <2> QED
    BY <1>2, <2>1, <2>2, <2>3, <2>4 DEF ClaimOK
<1>7. ASSUME NEW d \in Engines
      PROVE  OutcomeOK(d)'
  BY SMTT(30), <1>2, <1>3, <1>4 DEF FireInv, OutcomeOK, Terminal, At
<1> QED
  BY <1>5, <1>6, <1>7 DEF FireInv

\* The receipt itself: written under the claim, which no other engine has.
LEMMA MarkKeeps ==
    ASSUME TypeOK, FireInv, NEW e \in Engines, Mark(e)
    PROVE  FireInv'
<1> DEFINE f == eng[e].fire
<1>1. eng[e].at \in Working /\ eng[e] \in InFlight /\ f \in Fires /\ eng[e].seen \in Fences
  BY EngineRecords DEF TypeOK, Mark, At, Working, InFlight
<1>2. observed' = observed /\ \A d \in Engines \ {e} : eng'[d] = eng[d]
  BY DEF Mark, Finish, TypeOK
<1>3. /\ eng'[e].fire = f
      /\ eng'[e].seen = eng[e].seen
      /\ eng'[e].at = "transition"
  BY SMTT(30), <1>1 DEF Mark, Finish, TypeOK, InFlight
<1>4. \A h \in Fires : /\ fires'[h].status = fires[h].status
                       /\ fires'[h].attempt = fires[h].attempt
                       /\ fires'[h].claim = fires[h].claim
  BY SMTT(30), <1>1 DEF Mark, TypeOK, Row
<1>5. \A h \in Fires : fires'[h].accepted = fires[h].accepted \/ (h = f /\ Holds(e))
  BY <1>1 DEF Mark, TypeOK, Row
<1>6. \A h \in Fires : FireOK(h)'
  BY <1>2, <1>4 DEF FireInv, FireOK, Terminal
<1>7. ASSUME NEW d \in Engines
      PROVE  ClaimOK(d)'
  <2>1. eng[d].at \in Working => (Holds(d) <=> Holds(d)')
    <3>1. eng'[d].fire = eng[d].fire /\ eng'[d].seen = eng[d].seen
      BY <1>2, <1>3
    <3>2. eng[d].at \in Working => Fence(fires[eng[d].fire])' = Fence(fires[eng[d].fire])
      BY <1>4, <3>1, EngineFacts DEF Fence
    <3> QED
      BY <3>1, <3>2 DEF Holds
  <2>2. CASE d = e
    BY SMTT(30), <1>1, <1>2, <1>3, <1>4, <2>1, <2>2 DEF FireInv, ClaimOK, At, Working
  <2>3. CASE d # e
    <3>1. eng[d].at \in Working /\ eng[d].fire = f /\ Holds(d) /\ Holds(e) => FALSE
      BY SMTT(30), <1>1, <2>3, EngineFacts, FenceFields DEF FireInv, ClaimOK, Holds
    <3>2. \A c \in Engines : /\ eng'[c].fire = eng[c].fire
                             /\ eng'[c].seen = eng[c].seen
                             /\ eng'[c].at \in Working <=> eng[c].at \in Working
      BY <1>1, <1>2, <1>3 DEF Working
    <3>3. eng[d].at \in Working =>
              /\ fires'[eng[d].fire].claim = fires[eng[d].fire].claim
              /\ Holds(d) => fires'[eng[d].fire].accepted = fires[eng[d].fire].accepted
      BY <1>4, <1>5, <3>1, EngineFacts
    <3>4. ClaimOK(d)
      BY DEF FireInv
    <3> QED
      BY <1>2, <2>1, <2>3, <3>2, <3>3, <3>4 DEF ClaimOK, At
  <2> QED
    BY <2>2, <2>3
<1>8. ASSUME NEW d \in Engines
      PROVE  OutcomeOK(d)'
  BY SMTT(30), <1>2, <1>3, <1>4, EngineFacts DEF FireInv, OutcomeOK, Terminal, At
<1> QED
  BY <1>6, <1>7, <1>8 DEF FireInv

\* The outcome: decided under the claim, so by one engine, and never again.
LEMMA TransitionKeeps ==
    ASSUME TypeOK, FireInv, NEW e \in Engines, Transition(e)
    PROVE  FireInv'
<1> DEFINE f == eng[e].fire  to == Outcome(e)
<1>1. eng[e].at \in Working /\ eng[e] \in InFlight /\ f \in Fires /\ eng[e].seen \in Fences
  BY EngineRecords DEF TypeOK, Transition, At, Working, InFlight
<1>2. CASE Become(e, Idle) /\ UNCHANGED fires
  <2>1. Free(Idle)
    BY DEF Free, Idle, Working
  <2> QED
    BY <1>2, <2>1, FreeKeeps DEF Transition
<1>3. CASE ~(Become(e, Idle) /\ UNCHANGED fires)
  <2> DEFINE next == IF to = "retrying" THEN Idle
                     ELSE [at |-> "observe", fire |-> f, outcome |-> to]
  <2>1. /\ Holds(e)
        /\ fires' = [fires EXCEPT ![f].status = to]
        /\ Become(e, next)
        /\ observed' = observed
    BY <1>3 DEF Transition
  <2>2. eng'[e] = next /\ \A d \in Engines \ {e} : eng'[d] = eng[d]
    BY <2>1 DEF Become, TypeOK
  <2>3. /\ to \in {"succeeded", "skipped", "retrying", "exhausted"}
        /\ to = "retrying" => eng[e].seen.attempt < MaxAttempts
    BY <1>1 DEF Outcome, InFlight
  <2>4. /\ next.at \in {"idle", "observe"}
        /\ next.at = "observe" => next.fire = f /\ to # "retrying"
    BY DEF Idle
  <2>5. fires[f].status = "claimed" /\ fires[f].attempt = eng[e].seen.attempt
        /\ fires[f].claim = eng[e].seen.claim
    BY SMTT(30), <1>1, <2>1, FenceFields DEF Holds, FireInv, ClaimOK
  <2> HIDE DEF next, to
  <2>6. /\ fires'[f].status = to
        /\ fires'[f].attempt = fires[f].attempt
        /\ fires'[f].claim = fires[f].claim
        /\ \A h \in Fires \ {f} : fires'[h] = fires[h]
    BY <1>1, <2>1 DEF TypeOK, Row
  <2>7. observed[f] = 0 /\ \A d \in Engines : At(d, "observe") => eng[d].fire # f
    <3>1. ~Terminal(fires[f])
      BY <2>5 DEF Terminal
    <3>2. observed[f] \in Nat /\ observed[f] <= 1 /\ observed[f] # 1
      BY <1>1, <3>1 DEF FireInv, FireOK, TypeOK
    <3>3. observed[f] = 0
      BY SMTT(30), <3>2
    <3> QED
      BY <3>1, <3>3 DEF FireInv, OutcomeOK
  <2>8. \A h \in Fires : FireOK(h)'
    BY <1>1, <2>1, <2>3, <2>5, <2>6, <2>7 DEF FireInv, FireOK, Terminal
  <2>9. ASSUME NEW d \in Engines
        PROVE  ClaimOK(d)'
    <3>1. CASE d = e
      BY <2>2, <2>4, <3>1 DEF ClaimOK, Working
    <3>2. CASE d # e
      <4>1. eng[d].at \in Working /\ eng[d].fire = f => eng[d].seen.claim # fires[f].claim
        BY <1>1, <2>5, <3>2 DEF FireInv, ClaimOK
      <4>2. eng'[d] = eng[d] /\ ~(eng'[e].at \in Working)
        BY <2>2, <2>4, <3>2 DEF Working
      <4>3. CASE eng[d].at \in Working /\ eng[d].fire = f
        <5>1. ~Holds(d)'
          BY SMTT(30), <4>1, <4>2, <4>3, <2>6, EngineFacts, FenceFields DEF Holds
        <5> QED
          BY SMTT(30), <2>2, <2>6, <4>1, <4>2, <4>3, <5>1 DEF FireInv, ClaimOK, At
      <4>4. CASE eng[d].at \in Working /\ eng[d].fire # f
        <5>1. fires'[eng[d].fire] = fires[eng[d].fire]
          BY <2>6, <4>4, EngineFacts
        <5>2. Holds(d)' <=> Holds(d)
          BY <4>2, <5>1 DEF Holds, Fence
        <5> QED
          BY SMTT(30), <2>2, <4>2, <4>4, <5>1, <5>2 DEF FireInv, ClaimOK, At
      <4> QED
        BY <4>2, <4>3, <4>4 DEF ClaimOK
    <3> QED
      BY <3>1, <3>2
  <2>10. ASSUME NEW d \in Engines
         PROVE  OutcomeOK(d)'
    <3>1. CASE d = e
      BY <1>1, <2>1, <2>2, <2>3, <2>4, <2>6, <2>7, <3>1 DEF OutcomeOK, Terminal, At
    <3>2. CASE d # e
      BY SMTT(30), <1>1, <2>1, <2>2, <2>4, <2>6, <2>7, <3>2, EngineFacts DEF FireInv, OutcomeOK, Terminal, At
    <3> QED
      BY <3>1, <3>2
  <2> QED
    BY <2>8, <2>9, <2>10 DEF FireInv
<1> QED
  BY <1>2, <1>3

\* The observation: counted for the one engine that decided the outcome.
LEMMA ObserveKeeps ==
    ASSUME TypeOK, FireInv, NEW e \in Engines, Observe(e)
    PROVE  FireInv'
<1> DEFINE f == eng[e].fire
<1>1. f \in Fires /\ At(e, "observe")
  BY EngineRecords DEF TypeOK, Observe, At
<1>2. /\ fires' = fires
      /\ observed'[f] = observed[f] + 1
      /\ \A h \in Fires \ {f} : observed'[h] = observed[h]
  BY <1>1 DEF Observe, TypeOK
<1>3. eng'[e].at \in {"idle", "disable"} /\ \A d \in Engines \ {e} : eng'[d] = eng[d]
  BY DEF Observe, Become, Idle, TypeOK
<1>4. Terminal(fires[f]) /\ observed[f] = 0
  BY <1>1 DEF FireInv, OutcomeOK
<1>5. \A h \in Fires : FireOK(h)'
  BY SMTT(30), <1>2, <1>4 DEF FireInv, FireOK, Terminal
<1>6. ASSUME NEW d \in Engines
      PROVE  ClaimOK(d)'
  BY SMTT(30), <1>2, <1>3 DEF FireInv, ClaimOK, Holds, At, Working
<1>7. ASSUME NEW d \in Engines
      PROVE  OutcomeOK(d)'
  BY SMTT(30), <1>1, <1>2, <1>3, EngineFacts DEF FireInv, OutcomeOK, Terminal, At
<1> QED
  BY <1>5, <1>6, <1>7 DEF FireInv

\* Nothing else touches rows, claims or outcomes.
LEMMA FireStep == TypeOK /\ FireInv /\ [Next]_vars => FireInv'
<1> SUFFICES ASSUME TypeOK, FireInv, [Next]_vars
             PROVE  FireInv'
  OBVIOUS
<1>1. ASSUME NEW e \in Engines,
             Crash(e) \/ Disable(e) \/ (\E s \in Schedules : ListSchedule(e, s))
             \/ (\E f \in Fires : ListFire(e, f))
      PROVE  FireInv'
  <2>1. UNCHANGED <<fires, observed>> /\ \E r : Free(r) /\ Become(e, r)
    BY <1>1 DEF Crash, Disable, ListSchedule, ListFire, Free, Idle, Working, rows
  <2> QED
    BY <2>1, FreeKeeps
<1>2. CASE Operator \/ Tick \/ UNCHANGED vars
  <2>1. UNCHANGED <<fires, observed, eng>>
    BY <1>2 DEF Operator, SetStatus, PatchRead, PatchWrite, Tick, vars, rows
  <2>2. \A f \in Fires : FireOK(f)'
    BY <2>1 DEF FireInv, FireOK, Terminal
  <2>3. \A e \in Engines : ClaimOK(e)'
    BY <2>1 DEF FireInv, ClaimOK, Holds, At, Fence
  <2>4. \A e \in Engines : OutcomeOK(e)'
    BY <2>1 DEF FireInv, OutcomeOK, Terminal, At
  <2> QED
    BY <2>2, <2>3, <2>4 DEF FireInv
<1> QED
  BY <1>1, <1>2, CreateKeeps, ClaimKeeps, DispatchKeeps, MarkKeeps, TransitionKeeps, ObserveKeeps
     DEF Next, EngineStep

-----------------------------------------------------------------------------
\* The database starts with active schedules and no fire.
LEMMA FireInit == Init => TypeOK /\ FireInv
<1> SUFFICES ASSUME Init
             PROVE  TypeOK /\ FireInv
  OBVIOUS
<1> USE ScheduleAssumption DEF Init
<1>1. NoRow \in Row
  BY SMTT(30) DEF NoRow, Row
<1>2. TypeOK
  BY SMTT(30), <1>1, EngineStates DEF TypeOK, Times
<1>3. FireInv
  BY SMTT(30) DEF FireInv, FireOK, ClaimOK, OutcomeOK, NoRow, Idle, At, Working, Terminal
<1> QED
  BY <1>2, <1>3

\* Schedules, fires, engines and edits stay well typed; in particular attempt_count
\* never passes max_retries, however often claims are recovered.
THEOREM FireTypes == Spec => []TypeOK
<1> QED
  BY FireInit, TypeStep, FireStep, PTL DEF Spec

\* The rows, claims and outcomes of CreateScheduleFire, ClaimScheduleFire,
\* MarkScheduleFireDispatchAccepted and TransitionScheduleFire agree for ever.
THEOREM FireInvariant == Spec => []FireInv
<1> QED
  BY FireInit, TypeStep, FireStep, PTL DEF Spec

\* ClaimScheduleFire "fences the prior owner": claims on a fire are exclusive.
THEOREM ClaimsExclusive == Spec => []LeaseExclusive
<1>1. TypeOK /\ FireInv => LeaseExclusive
  BY SMTT(30), EngineFacts, FenceFields DEF FireInv, ClaimOK, Holds, LeaseExclusive
<1> QED
  BY <1>1, FireTypes, FireInvariant, PTL

\* TransitionScheduleFire decides a fire once, so PolicyObserver reports it once.
THEOREM OutcomesOnce == Spec => []OneOutcome
<1>1. FireInv => OneOutcome
  BY DEF FireInv, FireOK, OneOutcome
<1> QED
  BY <1>1, FireInvariant, PTL

\* RunnerAdapter.Enqueue never dispatches under a claim a fire whose receipt is there.
THEOREM ReceiptHonoured == Spec => []ReceiptRespected
<1>1. FireInv => ReceiptRespected
  BY DEF FireInv, ClaimOK, ReceiptRespected, At, Working
<1> QED
  BY <1>1, FireInvariant, PTL

\* CreateScheduleFire creates nothing for a schedule paused since it was listed.
THEOREM PausedSilent == Spec => PausedNeverFires
<1> DEFINE Quiet == \A f \in Fires : fires[f].status = "absent" /\ fires'[f].status # "absent"
                        => sched[f[1]].status = "active"
<1>1. TypeOK /\ FireInv /\ [Next]_vars => [Quiet]_vars
  <2> SUFFICES ASSUME TypeOK, FireInv, Next
               PROVE  Quiet
    OBVIOUS
  <2>1. CASE UNCHANGED fires
    BY <2>1
  <2>2. ASSUME NEW e \in Engines, CreateFire(e)
        PROVE  Quiet
    <3>1. eng[e].fire \in Fires
      BY <2>2, EngineRecords DEF TypeOK, CreateFire, At
    <3> QED
      BY <2>2, <3>1 DEF CreateFire, Advances, TypeOK, rows
  <2>3. ASSUME NEW e \in Engines, ClaimFire(e)
        PROVE  Quiet
    <3>1. eng[e].fire \in Fires /\ eng[e].seen \in Fences
      BY <2>3, EngineRecords DEF TypeOK, ClaimFire, At
    <3>2. Fence(fires[eng[e].fire]) = eng[e].seen => fires[eng[e].fire].status # "absent"
      BY SMTT(30), <3>1 DEF Fence, Fences
    <3> QED
      BY <2>3, <3>1, <3>2 DEF ClaimFire, TypeOK
  <2>4. ASSUME NEW e \in Engines, Mark(e) \/ Transition(e)
        PROVE  Quiet
    <3>1. eng[e].at \in Working /\ eng[e].fire \in Fires /\ eng[e].seen \in Fences
      BY <2>4, EngineFacts DEF Mark, Transition, At, Working
    <3>2. Holds(e) => fires[eng[e].fire].status # "absent"
      BY SMTT(30), <3>1 DEF Holds, Fence, Fences
    <3> QED
      BY <2>4, <3>1, <3>2 DEF Mark, Transition, TypeOK
  <2>5. ASSUME NEW e \in Engines,
               Crash(e) \/ Disable(e) \/ Check(e) \/ Dispatch(e) \/ Observe(e)
               \/ (\E s \in Schedules : ListSchedule(e, s)) \/ (\E f \in Fires : ListFire(e, f))
        PROVE  UNCHANGED fires
    BY <2>5 DEF Crash, Disable, Check, Dispatch, Observe, ListSchedule, ListFire, rows
  <2>6. Operator \/ Tick => UNCHANGED fires
    BY DEF Operator, SetStatus, PatchRead, PatchWrite, Tick, rows
  <2> QED
    BY <2>1, <2>2, <2>3, <2>4, <2>5, <2>6 DEF Next, EngineStep
<1> QED
  BY <1>1, FireTypes, FireInvariant, PTL DEF Spec, PausedNeverFires
=============================================================================
