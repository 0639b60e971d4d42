--------------------------- MODULE ScheduleFires ----------------------------
(***************************************************************************)
(* Agent schedules and their durable fires: the compare-and-set updates of *)
(* the actor_schedules and actor_schedule_runs tables, the runner with its *)
(* dispatch receipt, and operators who edit schedules meanwhile.           *)
(*                                                                         *)
(* The engine that drives them is a library; its steps are modelled from   *)
(* the interfaces it calls.  Two engines may share the database, and each  *)
(* may crash between any two calls.                                        *)
(*                                                                         *)
(* Time is counted in occurrences of the schedules.  A fire is named after *)
(* its schedule and the occurrence it was created for, and a claim after   *)
(* its number: claim timestamps differ.                                    *)
(***************************************************************************)
EXTENDS Naturals

CONSTANTS
    Engines,
    Schedules,
    MaxTime,      \* bound on the occurrences that come
    MaxAttempts,  \* max_retries: attempts in all
    MaxFaults,    \* bound on crashes, failed writes and overrun leases
    MaxEdits      \* bound on what operators do

ASSUME ScheduleAssumption ==
    /\ {MaxTime, MaxAttempts} \subseteq Nat \ {0}
    /\ {MaxFaults, MaxEdits} \subseteq Nat

Times == 1..MaxTime
Fires == Schedules \X Times
Never == MaxTime + 1  \* a next_run that does not come

VARIABLES
    now,
    sched,     \* actor_schedules
    fires,     \* actor_schedule_runs
    eng,       \* what each engine is doing
    edit,      \* ScheduleService.Patch between its read and its write
    observed,  \* history: terminal outcomes observed of a fire
    faults,
    edits

rows == <<sched, fires>>
vars == <<now, sched, fires, eng, edit, observed, faults, edits>>

Schedule == [kind : {"cron", "one_shot"},
             status : {"active", "paused", "expired"}, next : 1..Never]
Row == [status : {"absent", "pending", "claimed", "retrying", "succeeded", "skipped", "exhausted"},
        attempt : 0..MaxAttempts, claim : Nat, accepted : BOOLEAN]
NoRow == [status |-> "absent", attempt |-> 0, claim |-> 0, accepted |-> FALSE]

\* What the WHERE clauses of a claim and a transition compare.
Fence(row) == [status |-> row.status, attempt |-> row.attempt, claim |-> row.claim]
Fences == [status : {"pending", "claimed", "retrying"}, attempt : 0..MaxAttempts, claim : Nat]

Idle == [at |-> "idle"]
NoEdit == [at |-> "idle"]

Working == {"check", "dispatch", "mark", "transition"}
Engine ==
    {Idle}
    \cup [at : {"create"}, fire : Fires, next : 1..Never]
    \cup [at : {"disable"}, fire : Fires]
    \cup [at : {"claim"}, fire : Fires, seen : Fences]
    \cup [at : Working, fire : Fires, seen : Fences, result : {"none", "ok", "duplicate", "error"}]
    \cup [at : {"observe"}, fire : Fires, outcome : {"succeeded", "skipped", "exhausted"}]

TypeOK ==
    /\ now \in Times
    /\ sched \in [Schedules -> Schedule]
    /\ fires \in [Fires -> Row]
    /\ eng \in [Engines -> Engine]
    /\ edit \in {NoEdit} \cup [at : {"write"}, s : Schedules, row : Schedule]
    /\ observed \in [Fires -> Nat]
    /\ faults \in 0..MaxFaults
    /\ edits \in 0..MaxEdits

Init ==
    /\ now = 1
    /\ sched \in [Schedules -> {r \in Schedule : r.status = "active" /\ r.next = 1}]
    /\ fires = [f \in Fires |-> NoRow]
    /\ eng = [e \in Engines |-> Idle]
    /\ edit = NoEdit
    /\ observed = [f \in Fires |-> 0]
    /\ faults = 0
    /\ edits = 0

Fault == faults < MaxFaults /\ faults' = faults + 1
NoFault == UNCHANGED faults

At(e, p) == eng[e].at = p
Become(e, r) == eng' = [eng EXCEPT ![e] = r]
Goto(e, p) == eng' = [eng EXCEPT ![e].at = p]

-----------------------------------------------------------------------------
(* Creating a fire. *)

\* ListDueAgentSchedules.
DueSchedule(s) == sched[s].status = "active" /\ sched[s].next <= now

\* The engine's next_run: the first occurrence to come, or the far future.
NextRun(s) == IF sched[s].kind = "one_shot" THEN Never ELSE now + 1

ListSchedule(e, s) ==
    /\ At(e, "idle")
    /\ DueSchedule(s)
    /\ Become(e, [at |-> "create", fire |-> <<s, sched[s].next>>, next |-> NextRun(s)])
    /\ UNCHANGED <<now, rows, edit, observed, faults, edits>>

\* The schedule's status is not part of the compare-and-set.
AdvancesAnyway(s, k) == sched[s].next = k

\* The WHERE clause that advances the schedule.
Advances(s, k) == sched[s].status = "active" /\ sched[s].next = k

\* CreateScheduleFire: one transaction, which an existing fire or a schedule
\* that has changed turns into a no-op.
CreateFire(e) ==
    LET f == eng[e].fire
        s == f[1]
        created == fires[f].status = "absent" /\ Advances(s, f[2])
    IN
    /\ At(e, "create")
    /\ \/ /\ created /\ NoFault
          /\ sched' = [sched EXCEPT ![s].next = eng[e].next]
          /\ fires' = [fires EXCEPT ![f].status = "pending"]
       \/ /\ \/ ~created /\ NoFault
             \/ Fault
          /\ UNCHANGED rows
    /\ Become(e, Idle)
    /\ UNCHANGED <<now, edit, observed, edits>>

-----------------------------------------------------------------------------
(* Claiming a fire. *)

\* Claimed rows are never listed again.
DueUnclaimed(row) == row.status \in {"pending", "retrying"}

\* ListDueScheduleFires: due, or claimed under a lease that ran out.  Retry delays
\* and leases may run out at any time.
DueFire(row) == row.status \in {"pending", "retrying", "claimed"}

\* The fence leaves the claim timestamp out.
HoldsAttempt(e) ==
    LET row == fires[eng[e].fire] IN
    row.status = "claimed" /\ row.attempt = eng[e].seen.attempt

\* The fence of the receipt and of the transition: the claim is still this one.
Holds(e) == Fence(fires[eng[e].fire]) = eng[e].seen

\* A lease that runs out while its owner is at work is a fault.
Owned(f) == \E e \in Engines : eng[e].at \in Working /\ eng[e].fire = f /\ Holds(e)

ListFire(e, f) ==
    /\ At(e, "idle")
    /\ DueFire(fires[f])
    /\ IF Owned(f) THEN Fault ELSE NoFault
    /\ Become(e, [at |-> "claim", fire |-> f, seen |-> Fence(fires[f])])
    /\ UNCHANGED <<now, rows, edit, observed, edits>>

\* Recovery of an expired claim counts as an attempt.
ClaimedCounting(row) ==
    [status |-> "claimed", attempt |-> row.attempt + 1, claim |-> row.claim + 1,
     accepted |-> row.accepted]

\* The row after a claim; recovery of an expired claim keeps the attempt.
Claimed(row) ==
    [status |-> "claimed",
     attempt |-> IF row.status = "claimed" THEN row.attempt ELSE row.attempt + 1,
     claim |-> row.claim + 1, accepted |-> row.accepted]

\* ClaimScheduleFire: a fire that has changed since it was listed is left alone.
ClaimFire(e) ==
    LET f == eng[e].fire
        won == Fence(fires[f]) = eng[e].seen
    IN
    /\ At(e, "claim")
    /\ \/ /\ won /\ NoFault
          /\ fires' = [fires EXCEPT ![f] = Claimed(@)]
          /\ Become(e, [at |-> "check", fire |-> f, seen |-> Fence(Claimed(fires[f])),
                        result |-> "none"])
       \/ /\ ~won /\ NoFault
          /\ Become(e, Idle)
          /\ UNCHANGED fires
       \/ /\ Fault
          /\ Become(e, Idle)
          /\ UNCHANGED fires
    /\ UNCHANGED <<now, sched, edit, observed, edits>>

-----------------------------------------------------------------------------
(* RunnerAdapter.Enqueue. *)

Finish(e, result) == eng' = [eng EXCEPT ![e].at = "transition", ![e].result = result]

\* IsScheduleFireDispatchAccepted.
Check(e) ==
    /\ At(e, "check")
    /\ \/ fires[eng[e].fire].accepted /\ NoFault /\ Finish(e, "duplicate")
       \/ ~fires[eng[e].fire].accepted /\ NoFault /\ Goto(e, "dispatch")
       \/ Fault /\ Finish(e, "error")
    /\ UNCHANGED <<now, rows, edit, observed, edits>>

\* dispatch: the target takes the job or returns an error.
Dispatch(e) ==
    /\ At(e, "dispatch")
    /\ Goto(e, "mark") \/ Finish(e, "error")
    /\ UNCHANGED <<now, rows, edit, observed, faults, edits>>

\* The receipt is written whoever holds the claim.
MarkUnfenced(e) ==
    /\ At(e, "mark")
    /\ NoFault
    /\ fires' = [fires EXCEPT ![eng[e].fire].accepted = TRUE]
    /\ Finish(e, "ok")
    /\ UNCHANGED <<now, sched, edit, observed, edits>>

\* MarkScheduleFireDispatchAccepted.
Mark(e) ==
    /\ At(e, "mark")
    /\ \/ /\ Holds(e) /\ NoFault
          /\ fires' = [fires EXCEPT ![eng[e].fire].accepted = TRUE]
          /\ Finish(e, "ok")
       \/ /\ \/ ~Holds(e) /\ NoFault
             \/ Fault
          /\ Finish(e, "error")
          /\ UNCHANGED fires
    /\ UNCHANGED <<now, sched, edit, observed, edits>>

-----------------------------------------------------------------------------
(* The outcome. *)

\* The engine's verdict: a duplicate is skipped, an error retried while attempts
\* are left.
Outcome(e) ==
    CASE eng[e].result = "ok" -> "succeeded"
      [] eng[e].result = "duplicate" -> "skipped"
      [] OTHER -> IF eng[e].seen.attempt < MaxAttempts THEN "retrying" ELSE "exhausted"

\* The outcome is written whatever the row says.
TransitionAlways(e) ==
    /\ At(e, "transition")
    /\ NoFault
    /\ fires' = [fires EXCEPT ![eng[e].fire].status = Outcome(e)]
    /\ Become(e, IF Outcome(e) = "retrying" THEN Idle
                 ELSE [at |-> "observe", fire |-> eng[e].fire, outcome |-> Outcome(e)])
    /\ UNCHANGED <<now, sched, edit, observed, edits>>

\* TransitionScheduleFire; a stale owner's result and a failed write are dropped.
Transition(e) ==
    LET f == eng[e].fire  to == Outcome(e) IN
    /\ At(e, "transition")
    /\ \/ /\ Holds(e) /\ NoFault
          /\ fires' = [fires EXCEPT ![f].status = to]
          /\ Become(e, IF to = "retrying" THEN Idle
                       ELSE [at |-> "observe", fire |-> f, outcome |-> to])
       \/ /\ \/ ~Holds(e) /\ NoFault
             \/ Fault
          /\ Become(e, Idle)
          /\ UNCHANGED fires
    /\ UNCHANGED <<now, sched, edit, observed, edits>>

\* DisableSchedule.
Expire(s) == sched' = [sched EXCEPT ![s].status = "expired"]

\* PolicyObserver.Observe of a terminal outcome.  on_fail, which operators may edit,
\* is left open: "disable" expires the schedule of an exhausted fire; under "retry"
\* and "notify", and when that write fails, the schedule stays as it is.
Observe(e) ==
    LET f == eng[e].fire  outcome == eng[e].outcome IN
    /\ At(e, "observe")
    /\ observed' = [observed EXCEPT ![f] = @ + 1]
    /\ \/ outcome = "exhausted" /\ Expire(f[1])
       \/ UNCHANGED sched
    /\ Become(e, IF outcome = "succeeded" /\ sched[f[1]].kind = "one_shot"
                 THEN [at |-> "disable", fire |-> f] ELSE Idle)
    /\ UNCHANGED <<now, fires, edit, faults, edits>>

\* The engine disables a one-time schedule after a successful dispatch.
Disable(e) ==
    /\ At(e, "disable")
    /\ \/ NoFault /\ Expire(eng[e].fire[1])
       \/ Fault /\ UNCHANGED sched
    /\ Become(e, Idle)
    /\ UNCHANGED <<now, fires, edit, observed, edits>>

-----------------------------------------------------------------------------
(* Operators. *)

Edits == edits < MaxEdits /\ edits' = edits + 1

\* UpdateAgentScheduleStatus.
SetStatus(s, status) ==
    /\ Edits
    /\ sched' = [sched EXCEPT ![s].status = status]
    /\ UNCHANGED <<now, fires, eng, edit, observed, faults>>

\* ComputeAgentScheduleNextRun.
FirstRun(s) == IF sched[s].kind = "one_shot" THEN now ELSE now + 1

\* Patch reads the row and prepares the new one.  next_run is recomputed when the
\* spec changes or the schedule is reactivated, and else is what was read.
PatchRead(s, status, spec) ==
    LET old == sched[s]
        fresh == spec \/ (status = "active" /\ old.status # "active")
    IN
    /\ edit = NoEdit
    /\ Edits
    /\ edit' = [at |-> "write", s |-> s,
                row |-> [old EXCEPT !.status = status, !.next = IF fresh THEN FirstRun(s) ELSE @]]
    /\ UNCHANGED <<now, rows, eng, observed, faults>>

\* InsertAgentSchedule replaces the whole row.
PatchWrite ==
    /\ edit # NoEdit
    /\ sched' = [sched EXCEPT ![edit.s] = edit.row]
    /\ edit' = NoEdit
    /\ UNCHANGED <<now, fires, eng, observed, faults, edits>>

-----------------------------------------------------------------------------
(* Time and crashes. *)

Tick ==
    /\ now < MaxTime
    /\ now' = now + 1
    /\ UNCHANGED <<rows, eng, edit, observed, faults, edits>>

\* The engine's process dies and restarts.
Crash(e) ==
    /\ ~At(e, "idle")
    /\ Fault
    /\ Become(e, Idle)
    /\ UNCHANGED <<now, rows, edit, observed, edits>>

-----------------------------------------------------------------------------
EngineStep(e) ==
    \/ CreateFire(e) \/ Disable(e) \/ ClaimFire(e) \/ Check(e) \/ Dispatch(e)
    \/ Mark(e) \/ Transition(e) \/ Observe(e)

Operator ==
    \/ \E s \in Schedules : \E status \in {"active", "paused", sched[s].status} :
           SetStatus(s, status) \/ \E spec \in BOOLEAN : PatchRead(s, status, spec)
    \/ PatchWrite

Next ==
    \/ \E e \in Engines, s \in Schedules : ListSchedule(e, s)
    \/ \E e \in Engines, f \in Fires : ListFire(e, f)
    \/ \E e \in Engines : EngineStep(e) \/ Crash(e)
    \/ Operator
    \/ Tick

Spec == Init /\ [][Next]_vars

\* Every tick of an engine visits every due schedule and every due fire; leases
\* and retry delays run out, and a begun Patch is written.
Fairness ==
    /\ \A e \in Engines : WF_vars(EngineStep(e))
    /\ \A s \in Schedules : SF_vars(\E e \in Engines : ListSchedule(e, s))
    /\ \A f \in Fires : SF_vars(\E e \in Engines : ListFire(e, f))
    /\ WF_vars(PatchWrite)

FairSpec == Spec /\ Fairness

-----------------------------------------------------------------------------
(* Properties. *)

Terminal(row) == row.status \in {"succeeded", "skipped", "exhausted"}

\* "Concurrent engines produce one terminal observation": whatever is recovered,
\* retried or repeated, on_fail is applied and the outcome reported at most once.
OneOutcome == \A f \in Fires : observed[f] <= 1

\* The claim timestamp "fences the prior owner": as long as a fire carries the
\* claim of an engine that works on it, nobody else has decided its outcome, and
\* no other engine works under the same claim.
LeaseExclusive ==
    \A e \in Engines : eng[e].at \in Working =>
        LET f == eng[e].fire  mine == eng[e].seen.claim IN
        /\ fires[f].claim = mine => fires[f].status = "claimed"
        /\ \A d \in Engines \ {e} :
               eng[d].at \in Working /\ eng[d].fire = f => eng[d].seen.claim # mine

\* The holder of a claim never dispatches a fire whose receipt is recorded: "a
\* stale owner cannot record success after another engine has recovered its lease".
ReceiptRespected ==
    \A e \in Engines : At(e, "dispatch") /\ Holds(e) => ~fires[eng[e].fire].accepted

\* A fire that may be claimed anew has an attempt left, and only a settled one has
\* been observed, once.
FireOK(f) ==
    /\ fires[f].status \in {"absent", "pending", "retrying"} => fires[f].attempt < MaxAttempts
    /\ observed[f] <= 1
    /\ observed[f] = 1 => Terminal(fires[f])

\* An engine at work has a claim no younger than the row's; if it has the row's own,
\* it agrees with the row, has the claim alone and respects the receipt.
ClaimOK(e) == eng[e].at \in Working =>
    LET f == eng[e].fire  mine == eng[e].seen IN
    /\ mine.status = "claimed"
    /\ mine.claim <= fires[f].claim
    /\ mine.claim = fires[f].claim => Holds(e)
    /\ At(e, "dispatch") /\ Holds(e) => ~fires[f].accepted
    /\ \A d \in Engines \ {e} :
           eng[d].at \in Working /\ eng[d].fire = f => eng[d].seen.claim # mine.claim

\* An engine about to observe an outcome is the only one, of a settled fire.
OutcomeOK(e) == At(e, "observe") =>
    LET f == eng[e].fire IN
    /\ Terminal(fires[f])
    /\ observed[f] = 0
    /\ \A d \in Engines \ {e} : At(d, "observe") => eng[d].fire # f

\* The inductive invariant of fires: rows, claims and outcomes agree whatever was
\* recovered, retried or lost.
FireInv ==
    /\ \A f \in Fires : FireOK(f)
    /\ \A e \in Engines : ClaimOK(e) /\ OutcomeOK(e)

\* A schedule that was paused or expired after an engine listed it creates no fire.
PausedNeverFires ==
    [][\A f \in Fires : fires[f].status = "absent" /\ fires'[f].status # "absent"
           => sched[f[1]].status = "active"]_vars

\* Every fire reaches a terminal state, through crashes, lost claims and retries:
\* again and again it is either not created yet or settled.
FireSettles == \A f \in Fires : []<>(fires[f].status = "absent" \/ Terminal(fires[f]))

\* A schedule that is due does not stay so for ever: it fires, or an operator
\* stops it.
DueFires == \A s \in Schedules : []<>~DueSchedule(s)
=============================================================================
