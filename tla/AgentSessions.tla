---------------------------- MODULE AgentSessions ----------------------------
(***************************************************************************)
(* The runtime processes of one chat session: the SessionManager's binding *)
(* (runtime/agent/session_manager.go), Boot and its run goroutine          *)
(* (runtime/agent/agent.go), the turn that looks a process up or boots one *)
(* and the observer that hands a crash to the recovery broker              *)
(* (service/chat_boot_drive.go), the broker's retry                        *)
(* (recovery/broker/orchestration.go), the turn that stops the process it  *)
(* uses (service/chat.go), and the three ways a process is dismissed:      *)
(* reboot, archive and shutdown.                                           *)
(*                                                                         *)
(* A process is one *Session: the wrapper, its run goroutine and the Boot  *)
(* call that made it.  The operations of the manager run under its mutex   *)
(* and are one step; everything between two of them can interleave.        *)
(* Sessions of different ids share only `closed`, so one id is enough.     *)
(* Procs bounds the processes something still refers to, not how many are  *)
(* booted: a process that is reaped and unreferenced may be booted anew,   *)
(* as a pointer is.                                                        *)
(***************************************************************************)
EXTENDS FiniteSets, Integers

CONSTANTS Procs,        \* the processes that can exist at once
          NoProc,       \* nil
          MaxRetries,   \* the broker's maxRetries
          Scenarios     \* bound: the sets of Happenings that meet in one behaviour

(* A turn's stream breaks, a turn stops its process, the runtime is        *)
(* rebooted, the session archived, the service shut down.                  *)
Happenings == {"break", "stop", "reboot", "archive", "shutdown"}

ASSUME SessionAssumption ==
  NoProc \notin Procs /\ MaxRetries \in Nat /\ Scenarios \subseteq SUBSET Happenings

(* The calls of OnSessionExit: the observer of process p makes call p, the *)
(* goroutine that reports a turn's broken stream makes call NoProc (bound: *)
(* one such report at a time).                                             *)
Notice == NoProc

Calls == Procs \cup {Notice}

VARIABLES
  bound,      \* SessionManager.sessions[id]
  pending,    \* SessionManager.pending
  lease,      \* SessionManager.recovering[id]: the process being recovered
  closed,     \* SessionManager.closed
  run,        \* where the run goroutine of each process is
  dismissed,  \* running processes that their Boot, an adoption, a reboot that has not
              \* failed, an archive or Shutdown told to stop
  boot,       \* where the Boot call of each process is
  turn,       \* driveBootSession: where it is and the process it looks at
  obs,        \* observeSessionForRecovery of each process
  displaced,  \* chatServiceImpl.displacedSessions
  rebooting,  \* chatServiceImpl.rebootingSessions
  reboot,     \* rebootRuntime: where it is and the process it stops
  attempts,   \* classifierState.attemptCount, up to the first one over the cap
  call,       \* each OnSessionExit call: where it is, its attempt, its process
  archived,   \* the session row is archived
  hook,       \* the archive hook has still to run
  shut,       \* chatServiceImpl.Shutdown: where it is
  snap,       \* the processes Shutdown still has to reap
  evicted,    \* history: running processes whose binding a cold boot took
  scenario    \* the one this behaviour is of

managerVars == <<bound, pending, lease, closed>>
procVars == <<run, dismissed, boot>>
chatVars == <<turn, obs, displaced, rebooting, reboot>>
brokerVars == <<attempts, call>>
endVars == <<archived, hook, shut, snap, scenario>>
sessionVars == <<managerVars, procVars, chatVars, brokerVars, endVars, evicted>>

At(where, p) == [pc |-> where, proc |-> p]

Idle == At("idle", NoProc)

CallIdle == [pc |-> "idle", over |-> FALSE, proc |-> NoProc]

(* Wrapper.Run has not returned: the process may be running.               *)
Alive(p) == run[p] \in {"launching", "live"}

(* Session.runDone is closed.                                              *)
RunDone(p) == run[p] \in {"done", "reaped"}

(* A request to stop reaches only a process that still runs.  A process a  *)
(* turn stops is not dismissed: it stays bound, and nothing tells its      *)
(* observer.                                                               *)
Dismiss(S) == dismissed' = dismissed \cup {p \in S \cap Procs : Alive(p)}

(* A flag is only of use to an observer that has not consulted it yet.     *)
Flagged(S) == {p \in S \cap Procs : Alive(p) \/ obs[p] = "waiting"}

(* The bound process, if it runs and was not dismissed.                    *)
Evictable == {p \in Procs \ dismissed : bound = p /\ Alive(p)}

(* Broker Boots set Options.IsRelaunch.                                    *)
IsRelaunch(p) == \E c \in Calls : call[c].proc = p

(* Nothing refers to p.                                                    *)
Unused(p) ==
  /\ run[p] \in {"none", "reaped"} /\ boot[p] = "none" /\ obs[p] = "none"
  /\ p \notin {bound, turn.proc, reboot.proc} \cup pending \cup snap

SessionInit ==
  /\ bound = NoProc /\ pending = {} /\ lease = NoProc /\ closed = FALSE
  /\ run = [p \in Procs |-> "none"]
  /\ dismissed = {}
  /\ boot = [p \in Procs |-> "none"]
  /\ turn = Idle
  /\ obs = [p \in Procs |-> "none"]
  /\ displaced = {} /\ rebooting = {} /\ reboot = Idle
  /\ attempts = 0
  /\ call = [c \in Calls |-> CallIdle]
  /\ archived = FALSE /\ hook = FALSE /\ shut = "serving" /\ snap = {}
  /\ evicted = {}
  /\ scenario \in Scenarios

-----------------------------------------------------------------------------
(***************************************************************************)
(* SessionManager: each operation is one critical section.                 *)
(***************************************************************************)

(* Mutant: a closed manager still admits launches.                         *)
AdmitLaunchClosed(p) == pending' = pending \cup {p}

(* AdmitLaunch: registered before Wrapper.Run starts, unless closed.       *)
AdmitLaunch(p) == ~closed /\ pending' = pending \cup {p}

(* Mutant: a recovery in progress does not keep a cold boot out.           *)
RefusedWhenClosed(p) == closed

(* RegisterReady on the readiness callback of p: refused when admission is *)
(* closed; pending until adoption for a relaunch; refused while a recovery *)
(* reserves the id; otherwise bound, over whatever is bound by then.       *)
Refused(p) == closed \/ (~IsRelaunch(p) /\ lease # NoProc)

RegisterReady(p) ==
  IF Refused(p) \/ IsRelaunch(p)
  THEN UNCHANGED <<bound, pending, evicted>>
  ELSE /\ bound' = p
       /\ pending' = pending \ {p}
       /\ evicted' = evicted \cup Evictable

(* Retire: unbinds exactly p.                                              *)
Retire(p) == bound' = IF bound = p THEN NoProc ELSE bound

(* BeginRecovery(p): the exact binding becomes a lease.  The lease number  *)
(* is fresh; a process is recovered once, so the process stands for it.    *)
Recoverable(p) == ~closed /\ bound = p

BeginRecovery(p) ==
  IF Recoverable(p) THEN bound' = NoProc /\ lease' = p ELSE UNCHANGED <<bound, lease>>

(* EndRecovery: only the lease that is still current is released.          *)
EndRecovery(p) == lease' = IF lease = p THEN NoProc ELSE lease

(* CloseAgentSession: LoadAndDelete, then Stop.                            *)
CloseAgentSession == bound' = NoProc /\ Dismiss({bound})

-----------------------------------------------------------------------------
(***************************************************************************)
(* Boot and the run goroutine.                                             *)
(***************************************************************************)

(* Boot up to the launch of the run goroutine.  The session is a new one:  *)
(* no flag and no request to stop is about it.                             *)
Launches(p) ==
  /\ Unused(p)
  /\ AdmitLaunch(p)
  /\ run' = [run EXCEPT ![p] = "launching"]
  /\ boot' = [boot EXCEPT ![p] = "waiting"]
  /\ dismissed' = dismissed \ {p}
  /\ displaced' = displaced \ {p}
  /\ rebooting' = rebooting \ {p}

(* sink.onReady, on the run goroutine: RegisterReady, then readyCh.        *)
Ready(p) ==
  /\ run[p] = "launching"
  /\ run' = [run EXCEPT ![p] = "live"]
  /\ RegisterReady(p)
  /\ boot' = IF boot[p] = "waiting"
             THEN [boot EXCEPT ![p] = IF Refused(p) THEN "refused" ELSE "ready"]
             ELSE boot
  /\ UNCHANGED <<lease, closed, dismissed, chatVars, brokerVars, endVars>>

(* Wrapper.Run returns, of itself or because it was told to stop, and      *)
(* runDone is closed.                                                      *)
RunReturns(p) ==
  /\ Alive(p)
  /\ run' = [run EXCEPT ![p] = "done"]
  /\ evicted' = evicted \ {p}
  /\ UNCHANGED <<managerVars, dismissed, boot, chatVars, brokerVars, endVars>>

(* The other defers: DiscardPending, then runCleanupDone.                  *)
RunCleansUp(p) ==
  /\ run[p] = "done"
  /\ run' = [run EXCEPT ![p] = "reaped"]
  /\ pending' = pending \ {p}
  /\ UNCHANGED <<bound, lease, closed, dismissed, boot, chatVars, brokerVars, endVars,
                 evicted>>

(* Boot's select takes readyCh: it returns the session, or stops the one   *)
(* that was refused.                                                       *)
BootSeesReady(p) ==
  /\ boot[p] \in {"ready", "refused"}
  /\ boot' = [boot EXCEPT ![p] = IF @ = "ready" THEN "returned" ELSE "stopping"]
  /\ Dismiss(IF boot[p] = "refused" THEN {p} ELSE {})
  /\ UNCHANGED <<managerVars, run, chatVars, brokerVars, endVars, evicted>>

(* Boot's select takes runDone; it may, even when readyCh is closed too.   *)
BootSeesExit(p) ==
  /\ boot[p] \in {"waiting", "ready", "refused"}
  /\ RunDone(p)
  /\ boot' = [boot EXCEPT ![p] = "failed"]
  /\ UNCHANGED <<managerVars, run, dismissed, chatVars, brokerVars, endVars, evicted>>

(* Boot's select takes ctx.Done, as the turn was stopped or the retry      *)
(* canceled: runCancel, then Boot waits for runDone.                       *)
BootCanceled(p) ==
  /\ boot[p] \in {"waiting", "ready", "refused"}
  /\ boot' = [boot EXCEPT ![p] = "stopping"]
  /\ Dismiss({p})
  /\ UNCHANGED <<managerVars, run, chatVars, brokerVars, endVars, evicted>>

(* The wait for runDone is over and Boot returns its error.                *)
BootFails(p) ==
  /\ boot[p] = "stopping"
  /\ RunDone(p)
  /\ boot' = [boot EXCEPT ![p] = "failed"]
  /\ UNCHANGED <<managerVars, run, dismissed, chatVars, brokerVars, endVars, evicted>>

-----------------------------------------------------------------------------
(***************************************************************************)
(* A turn: driveBootSession.  The generation queue runs one turn of a      *)
(* session at a time, and the conversation gate keeps a reboot out.        *)
(***************************************************************************)

TurnMoves(to) ==
  /\ turn' = to
  /\ UNCHANGED <<obs, displaced, rebooting, reboot, endVars>>

TurnStarts ==
  /\ turn.pc = "idle" /\ reboot.pc = "idle"
  /\ TurnMoves(At("lookup", NoProc))
  /\ UNCHANGED <<managerVars, procVars, brokerVars, evicted>>

(* LoadLive.                                                               *)
TurnLooksUp ==
  /\ turn.pc = "lookup"
  /\ TurnMoves(IF bound # NoProc /\ ~RunDone(bound)
               THEN At("using", bound) ELSE At("load", NoProc))
  /\ UNCHANGED <<managerVars, procVars, brokerVars, evicted>>

(* Load: what is bound by now is taken for stale.                          *)
TurnLoads ==
  /\ turn.pc = "load"
  /\ TurnMoves(At(IF bound = NoProc THEN "check" ELSE "retire", bound))
  /\ UNCHANGED <<managerVars, procVars, brokerVars, evicted>>

(* Retire(stale); the loop starts over when it is not bound any more.      *)
TurnRetires ==
  /\ turn.pc = "retire"
  /\ Retire(turn.proc)
  /\ evicted' = IF bound = turn.proc THEN evicted \cup Evictable ELSE evicted
  /\ TurnMoves(At(IF bound = turn.proc THEN "check" ELSE "lookup", NoProc))
  /\ UNCHANGED <<pending, lease, closed, procVars, brokerVars>>

(* sessionEnded before Boot.                                               *)
TurnChecksEnded ==
  /\ turn.pc = "check"
  /\ TurnMoves(IF archived THEN Idle ELSE At("boot", NoProc))
  /\ UNCHANGED <<managerVars, procVars, brokerVars, evicted>>

TurnBoots ==
  /\ turn.pc = "boot"
  /\ \E p \in Procs : Launches(p) /\ turn' = At("booting", p)
  /\ UNCHANGED <<bound, lease, closed, obs, reboot, brokerVars, endVars, evicted>>

(* Boot fails before it launches anything, or admission is closed.         *)
TurnBootRefused ==
  /\ turn.pc = "boot"
  /\ TurnMoves(Idle)
  /\ UNCHANGED <<managerVars, procVars, brokerVars, evicted>>

TurnBootFails ==
  /\ turn.pc = "booting" /\ boot[turn.proc] = "failed"
  /\ boot' = [boot EXCEPT ![turn.proc] = "none"]
  /\ TurnMoves(Idle)
  /\ UNCHANGED <<managerVars, run, dismissed, brokerVars, evicted>>

(* sessionEnded after Boot: an ended session's process is closed here;     *)
(* otherwise the observer starts and the turn goes on.                     *)
TurnBooted ==
  /\ turn.pc = "booting" /\ boot[turn.proc] = "returned"
  /\ boot' = [boot EXCEPT ![turn.proc] = "none"]
  /\ \/ /\ archived
        /\ CloseAgentSession
        /\ turn' = Idle
        /\ UNCHANGED obs
     \/ /\ ~archived
        /\ turn' = At("using", turn.proc)
        /\ obs' = [obs EXCEPT ![turn.proc] = "waiting"]
        /\ UNCHANGED <<bound, dismissed>>
  /\ UNCHANGED <<pending, lease, closed, run, displaced, rebooting, reboot, brokerVars,
                 endVars, evicted>>

TurnEnds ==
  /\ turn.pc = "using"
  /\ TurnMoves(Idle)
  /\ UNCHANGED <<managerVars, procVars, brokerVars, evicted>>

(* The turn's stream broke: notifyRecoveryBrokerForHTTPStreamError starts  *)
(* an OnSessionExit of its own, with the process still bound.              *)
TurnBreaks ==
  /\ "break" \in scenario
  /\ turn.pc = "using"
  /\ call[Notice].pc = "idle"
  /\ call' = [call EXCEPT ![Notice].pc = "exit"]
  /\ TurnMoves(Idle)
  /\ UNCHANGED <<managerVars, procVars, attempts, evicted>>

(* The process the turn captured is stopped: by finishClaimedCancellation, *)
(* when the user canceled and the runtime cannot cancel a turn or failed   *)
(* to, or by cleanupFailedRuntimeSend, when SendInput failed.  Neither     *)
(* sets a flag, and the process stays bound; it exits by RunReturns.       *)
TurnStops ==
  /\ "stop" \in scenario
  /\ turn.pc = "using"
  /\ TurnMoves([turn EXCEPT !.pc = "stopping"])
  /\ UNCHANGED <<managerVars, procVars, brokerVars, evicted>>

(* Wait returned, to the one that stopped it or to the watcher of a stop   *)
(* that timed out: until then the turn keeps its slot.                     *)
TurnStopped ==
  /\ turn.pc = "stopping" /\ run[turn.proc] = "reaped"
  /\ TurnMoves(Idle)
  /\ UNCHANGED <<managerVars, procVars, brokerVars, evicted>>

-----------------------------------------------------------------------------
(***************************************************************************)
(* The observer of a process: observeSessionForRecovery.                   *)
(***************************************************************************)

(* Wait returns; the flags of a deliberate stop are consumed.  The error   *)
(* of Wrapper.Run is an ExitError or it is not.                            *)
ObserverWakes(p) ==
  /\ obs[p] = "waiting" /\ run[p] = "reaped"
  /\ \E crash \in BOOLEAN :
       obs' = [obs EXCEPT ![p] =
                 CASE p \in displaced -> "retire"
                   [] p \notin displaced /\ (p \in rebooting \/ ~crash) -> "clear"
                   [] OTHER -> "begin"]
  /\ displaced' = displaced \ {p}
  /\ rebooting' = rebooting \ {p}
  /\ UNCHANGED <<managerVars, procVars, turn, reboot, brokerVars, endVars, evicted>>

(* Retire, and ClearSession where the exit was a reboot or clean and the   *)
(* binding was still this process.                                         *)
ObserverRetires(p) ==
  /\ obs[p] \in {"retire", "clear"}
  /\ Retire(p)
  /\ attempts' = IF obs[p] = "clear" /\ bound = p THEN 0 ELSE attempts
  /\ obs' = [obs EXCEPT ![p] = "none"]
  /\ UNCHANGED <<pending, lease, closed, procVars, turn, displaced, rebooting, reboot,
                 call, endVars, evicted>>

(* BeginRecovery: the observer that owns the binding calls the broker, any *)
(* other one leaves.                                                       *)
ObserverBegins(p) ==
  /\ obs[p] = "begin"
  /\ BeginRecovery(p)
  /\ obs' = [obs EXCEPT ![p] = IF Recoverable(p) THEN "recovering" ELSE "none"]
  /\ call' = [call EXCEPT ![p].pc = IF Recoverable(p) THEN "exit" ELSE "idle"]
  /\ UNCHANGED <<pending, closed, procVars, turn, displaced, rebooting, reboot, attempts,
                 endVars, evicted>>

(* OnSessionExit returned: the deferred EndRecovery.                       *)
ObserverEnds(p) ==
  /\ obs[p] = "recovering" /\ call[p].pc = "idle"
  /\ EndRecovery(p)
  /\ obs' = [obs EXCEPT ![p] = "none"]
  /\ UNCHANGED <<bound, pending, closed, procVars, turn, displaced, rebooting, reboot,
                 brokerVars, endVars, evicted>>

-----------------------------------------------------------------------------
(***************************************************************************)
(* The broker: OnSessionExit on the goroutine of call c.                   *)
(***************************************************************************)

(* attemptCount is counted and read under the broker's lock.               *)
OnSessionExit(c) ==
  /\ call[c].pc = "exit"
  /\ attempts' = IF attempts > MaxRetries THEN attempts ELSE attempts + 1
  /\ call' = [call EXCEPT ![c].pc = "classify", ![c].over = attempts' > MaxRetries]
  /\ UNCHANGED <<managerVars, procVars, chatVars, endVars, evicted>>

(* Within the cap the classifier may choose a retry, after a remediation   *)
(* or not.                                                                 *)
Retries(c) ==
  /\ call[c].pc = "classify" /\ ~call[c].over
  /\ call' = [call EXCEPT ![c].pc = "dispatch"]
  /\ UNCHANGED <<managerVars, procVars, chatVars, attempts, endVars, evicted>>

(* escalatePermanent: the cap, a permanent class, or a remediation, a      *)
(* launch or a Boot that failed.  The attempt count is dropped.            *)
EscalatesPermanent(c) ==
  LET p == call[c].proc
  IN /\ \/ call[c].pc \in {"classify", "dispatch"} /\ UNCHANGED boot
        \/ /\ call[c].pc = "booting" /\ boot[p] = "failed"
           /\ boot' = [boot EXCEPT ![p] = "none"]
     /\ attempts' = 0
     /\ call' = [call EXCEPT ![c] = CallIdle]
     /\ UNCHANGED <<managerVars, run, dismissed, chatVars, endVars, evicted>>

(* The user canceled the retry before it was dispatched.                   *)
RetryCanceled(c) ==
  /\ call[c].pc = "dispatch"
  /\ call' = [call EXCEPT ![c] = CallIdle]
  /\ UNCHANGED <<managerVars, procVars, chatVars, attempts, endVars, evicted>>

(* DispatchRetry: Boot with IsRelaunch.                                    *)
DispatchRetry(c) ==
  /\ call[c].pc = "dispatch"
  /\ \E p \in Procs : /\ Launches(p)
                      /\ call' = [call EXCEPT ![c].pc = "booting", ![c].proc = p]
  /\ UNCHANGED <<bound, lease, closed, turn, obs, reboot, attempts, endVars, evicted>>

(* Mutant: the predecessor is displaced and left running.                  *)
AdoptsQuietly(c) ==
  LET p == call[c].proc
  IN /\ call[c].pc = "booting" /\ boot[p] = "returned"
     /\ call' = [call EXCEPT ![c] = CallIdle]
     /\ boot' = [boot EXCEPT ![p] = "none"]
     /\ ~closed
     /\ pending' = pending \ {p}
     /\ lease' = NoProc
     /\ bound' = p
     /\ obs' = [obs EXCEPT ![p] = "waiting"]
     /\ UNCHANGED <<closed, run, dismissed, turn, displaced, rebooting, reboot, attempts,
                    endVars, evicted>>

(* adoptReplacementSession on the replacement Boot returned: refused when  *)
(* admission is closed, and then stopped; otherwise Adopt binds it, drops  *)
(* the lease, and the predecessor it displaced is flagged and stopped.     *)
(* Each Stop runs on a goroutine of its own, which the model counts as     *)
(* sent from here on.                                                          *)
Adopts(c) ==
  LET p == call[c].proc
      prev == {bound} \ {NoProc, p}
  IN /\ call[c].pc = "booting" /\ boot[p] = "returned"
     /\ call' = [call EXCEPT ![c] = CallIdle]
     /\ boot' = [boot EXCEPT ![p] = "none"]
     /\ \/ /\ closed
           /\ Dismiss({p})
           /\ UNCHANGED <<bound, pending, lease, displaced, obs>>
        \/ /\ ~closed
           /\ pending' = pending \ {p}
           /\ lease' = NoProc
           /\ bound' = p
           /\ displaced' = displaced \cup Flagged(prev)
           /\ Dismiss(prev)
           /\ obs' = [obs EXCEPT ![p] = "waiting"]
     /\ UNCHANGED <<closed, run, turn, rebooting, reboot, attempts, endVars, evicted>>

-----------------------------------------------------------------------------
(***************************************************************************)
(* Stopping on purpose.                                                    *)
(***************************************************************************)

(* rebootRuntime finds the bound process; a turn in flight refuses it.     *)
RebootLoads ==
  /\ "reboot" \in scenario
  /\ reboot.pc = "idle" /\ turn.pc = "idle" /\ bound # NoProc
  /\ reboot' = At("flag", bound)
  /\ UNCHANGED <<managerVars, procVars, turn, obs, displaced, rebooting, brokerVars,
                 endVars, evicted>>

(* Mutant: Stop without the flag.                                          *)
RebootStopsUnflagged ==
  /\ reboot.pc = "flag"
  /\ reboot' = [reboot EXCEPT !.pc = "stopping"]
  /\ Dismiss({reboot.proc})
  /\ UNCHANGED <<managerVars, run, boot, turn, obs, displaced, rebooting, brokerVars,
                 endVars, evicted>>

(* Mutant: the flag, and no Stop.                                          *)
RebootStopsNothing ==
  /\ reboot.pc = "flag"
  /\ reboot' = [reboot EXCEPT !.pc = "stopping"]
  /\ rebooting' = rebooting \cup Flagged({reboot.proc})
  /\ UNCHANGED <<managerVars, procVars, turn, obs, displaced, brokerVars, endVars,
                 evicted>>

(* The flag, then Stop.                                                    *)
RebootStops ==
  /\ reboot.pc = "flag"
  /\ reboot' = [reboot EXCEPT !.pc = "stopping"]
  /\ rebooting' = rebooting \cup Flagged({reboot.proc})
  /\ Dismiss({reboot.proc})
  /\ UNCHANGED <<managerVars, run, boot, turn, obs, displaced, brokerVars, endVars,
                 evicted>>

(* Stop was acknowledged: the exact process is unbound.                    *)
RebootEvicts ==
  /\ reboot.pc = "stopping"
  /\ Retire(reboot.proc)
  /\ reboot' = Idle
  /\ UNCHANGED <<pending, lease, closed, procVars, turn, obs, displaced, rebooting,
                 brokerVars, endVars, evicted>>

(* Stop failed: the flag is taken back.  The process, if it is still bound *)
(* and Shutdown has not stopped it too, is dismissed no longer: should it  *)
(* exit after all, for the Stop or by itself, that is a crash to its       *)
(* observer.                                                               *)
RebootGivesUp ==
  /\ reboot.pc = "stopping"
  /\ rebooting' = rebooting \ {reboot.proc}
  /\ dismissed' = IF bound = reboot.proc /\ reboot.proc \notin snap
                  THEN dismissed \ {reboot.proc} ELSE dismissed
  /\ reboot' = Idle
  /\ UNCHANGED <<managerVars, run, boot, turn, obs, displaced, brokerVars, endVars,
                 evicted>>

(* Archive writes the row, then runs the hook.                             *)
Archives ==
  /\ "archive" \in scenario
  /\ ~archived
  /\ archived' = TRUE /\ hook' = TRUE
  /\ UNCHANGED <<managerVars, procVars, chatVars, brokerVars, shut, snap, evicted,
                 scenario>>

ArchiveHook ==
  /\ hook
  /\ hook' = FALSE
  /\ CloseAgentSession
  /\ UNCHANGED <<pending, lease, closed, run, boot, chatVars, brokerVars, archived, shut,
                 snap, evicted, scenario>>

CloseAdmission ==
  /\ "shutdown" \in scenario
  /\ shut = "serving"
  /\ closed' = TRUE
  /\ shut' = "closing"
  /\ UNCHANGED <<bound, pending, lease, procVars, chatVars, brokerVars, archived, hook,
                 snap, evicted, scenario>>

(* Mutant: the snapshot holds a nil binding too.                           *)
ShutdownStopsNil ==
  /\ shut = "closing"
  /\ snap' = pending \cup {bound}
  /\ Dismiss(snap')
  /\ shut' = "reaping"
  /\ UNCHANGED <<managerVars, run, boot, chatVars, brokerVars, archived, hook, evicted,
                 scenario>>

(* Mutant: launches that are not bound yet are waited for, not canceled.   *)
ShutdownStopsBound ==
  /\ shut = "closing"
  /\ snap' = {bound} \ {NoProc}
  /\ Dismiss(snap')
  /\ shut' = "reaping"
  /\ UNCHANGED <<managerVars, run, boot, chatVars, brokerVars, archived, hook, evicted,
                 scenario>>

(* Shutdown's snapshot of bound and pending processes, each of them        *)
(* canceled or stopped.                                                    *)
ShutdownStops ==
  /\ shut = "closing"
  /\ snap' = pending \cup ({bound} \ {NoProc})
  /\ Dismiss(snap')
  /\ shut' = "reaping"
  /\ UNCHANGED <<managerVars, run, boot, chatVars, brokerVars, archived, hook, evicted,
                 scenario>>

(* One process of the snapshot: Wait returned, as it is reaped or as the   *)
(* deadline passed, then CompareAndDelete.                                 *)
ShutdownReaps(p) ==
  /\ p \in snap
  /\ shut = "expired" \/ (shut = "reaping" /\ run[p] = "reaped")
  /\ snap' = snap \ {p}
  /\ Retire(p)
  /\ UNCHANGED <<pending, lease, closed, procVars, chatVars, brokerVars, archived, hook,
                 shut, evicted, scenario>>

(* Every result is in and launches.Wait returned.                          *)
ShutdownReturns ==
  /\ shut = "reaping" /\ snap = {} /\ pending = {}
  /\ shut' = "clean"
  /\ UNCHANGED <<managerVars, procVars, chatVars, brokerVars, archived, hook, snap,
                 evicted, scenario>>

(* The deadline of the shutdown passed first.                              *)
ShutdownExpires ==
  /\ shut = "reaping"
  /\ shut' = "expired"
  /\ UNCHANGED <<managerVars, procVars, chatVars, brokerVars, archived, hook, snap,
                 evicted, scenario>>

-----------------------------------------------------------------------------
SessionNext ==
  \/ TurnStarts \/ TurnLooksUp \/ TurnLoads \/ TurnRetires \/ TurnChecksEnded
  \/ TurnBoots \/ TurnBootRefused \/ TurnBootFails \/ TurnBooted \/ TurnEnds \/ TurnBreaks
  \/ TurnStops \/ TurnStopped
  \/ \E p \in Procs :
       \/ Ready(p) \/ RunReturns(p) \/ RunCleansUp(p)
       \/ BootSeesReady(p) \/ BootSeesExit(p) \/ BootCanceled(p) \/ BootFails(p)
       \/ ObserverWakes(p) \/ ObserverRetires(p) \/ ObserverBegins(p) \/ ObserverEnds(p)
       \/ ShutdownReaps(p)
  \/ \E c \in Calls :
       \/ OnSessionExit(c) \/ Retries(c) \/ EscalatesPermanent(c) \/ RetryCanceled(c)
       \/ DispatchRetry(c) \/ Adopts(c)
  \/ RebootLoads \/ RebootStops \/ RebootEvicts \/ RebootGivesUp
  \/ Archives \/ ArchiveHook
  \/ CloseAdmission \/ ShutdownStops \/ ShutdownReturns \/ ShutdownExpires

SessionSpec == SessionInit /\ [][SessionNext]_sessionVars

-----------------------------------------------------------------------------
(***************************************************************************)
(* Properties.                                                             *)
(***************************************************************************)

(* What the variables of each part range over.                             *)
ManagerTypes ==
  /\ bound \in Procs \cup {NoProc} /\ lease \in Procs \cup {NoProc}
  /\ pending \subseteq Procs /\ closed \in BOOLEAN

ProcTypes ==
  /\ run \in [Procs -> {"none", "launching", "live", "done", "reaped"}]
  /\ dismissed \subseteq Procs /\ evicted \subseteq Procs
  /\ boot \in [Procs -> {"none", "waiting", "ready", "refused", "stopping", "returned",
                         "failed"}]

ChatTypes ==
  /\ turn \in [pc : {"idle", "lookup", "load", "retire", "check", "boot", "booting",
                     "using", "stopping"},
               proc : Procs \cup {NoProc}]
  /\ obs \in [Procs -> {"none", "waiting", "retire", "clear", "begin", "recovering"}]
  /\ displaced \subseteq Procs /\ rebooting \subseteq Procs
  /\ reboot \in [pc : {"idle", "flag", "stopping"}, proc : Procs \cup {NoProc}]

BrokerTypes ==
  /\ attempts \in 0..(MaxRetries + 1)
  /\ call \in [Calls -> [pc : {"idle", "exit", "classify", "dispatch", "booting"},
                         over : BOOLEAN, proc : Procs \cup {NoProc}]]

EndTypes ==
  /\ archived \in BOOLEAN /\ hook \in BOOLEAN
  /\ shut \in {"serving", "closing", "reaping", "clean", "expired"}
  /\ snap \subseteq Procs /\ scenario \in Scenarios

(* The type invariant: the manager, the processes, the chat service, the  *)
(* broker and the shutdown.                                                *)
SessionTypeOK == ManagerTypes /\ ProcTypes /\ ChatTypes /\ BrokerTypes /\ EndTypes

(* Somebody will stop p or can still find it.                              *)
Tracked(p) == p = bound \/ p \in pending \/ p \in dismissed

(* A running process is bound, launching, or dismissed: adoption,          *)
(* refused adoption, reboot, archive and shutdown never lose one.  Only a  *)
(* cold boot that takes the binding of a running process does.             *)
NothingLeaks == \A p \in Procs : Alive(p) => Tracked(p) \/ p \in evicted

(* No running process is out of everybody's sight, as                      *)
(* adoptReplacementSession promises ("never leave an untracked Wrapper").  *)
NoneUntracked == \A p \in Procs : Alive(p) => Tracked(p)

(* While a recovery reserves the id nothing is bound, and the reservation  *)
(* is that of an observer still at work, which will release it.            *)
RecoveryExclusive == lease # NoProc => bound = NoProc /\ obs[lease] = "recovering"

(* A process that an adoption displaced, a reboot is stopping or has       *)
(* stopped, the archive hook closed or Shutdown stopped is never taken for *)
(* a crash: the flags, the exact-binding check and the closed manager      *)
(* between them keep its observer from the broker.  A process a turn       *)
(* stopped, or that a reboot failed to, may well be.                       *)
DismissedIsNoCrash == \A p \in Procs : obs[p] = "recovering" => p \notin dismissed

(* When Shutdown returns in time nothing is bound or launching, and every  *)
(* process still running was dismissed by whoever unbound it.              *)
ShutdownLeavesNone ==
  shut = "clean" => /\ bound = NoProc /\ pending = {}
                    /\ \A p \in Procs : Alive(p) => p \in dismissed \cup evicted

(* Where the Boot of a process can still succeed.                          *)
Booting(p) == boot[p] \in {"waiting", "ready", "returned"}

(* Every Boot has one caller, a turn or a call of the broker made for a    *)
(* recovery, and what the broker boots is neither bound nor rebooted       *)
(* before it is adopted.                                                   *)
OneCaller ==
  /\ turn.pc = "booting" => turn.proc \in Procs /\ boot[turn.proc] # "none"
  /\ \A p \in Procs : call[p].pc # "idle" => obs[p] = "recovering"
  /\ \A c \in Calls :
       /\ (call[c].pc = "booting") = (call[c].proc # NoProc)
       /\ call[c].proc # NoProc =>
            /\ boot[call[c].proc] # "none"
            /\ call[c].proc \notin {bound, reboot.proc}
            /\ turn.pc = "booting" => call[c].proc # turn.proc
            /\ \A d \in Calls \ {c} : call[d].proc # call[c].proc

(* Before admission closes, a bound process that was dismissed and may     *)
(* have an observer is flagged, and one the broker boots is not dismissed. *)
DismissalsFlagged ==
  ~closed => \A p \in dismissed :
    /\ bound = p /\ (Booting(p) \/ obs[p] \in {"waiting", "begin"}) =>
         p \in displaced \cup rebooting /\ obs[p] # "begin"
    /\ Booting(p) => run[p] # "launching" /\ \A c \in Calls : call[c].proc # p

(* A process has no observer before Boot has returned it, an observer past *)
(* its wait has seen its process reaped, a process that launches is found  *)
(* by nobody but its Boot, a reboot that waits has dismissed its process,  *)
(* and Shutdown all of its snapshot, outside of which nothing is bound by  *)
(* then.                                                                   *)
CoreInv ==
  /\ RecoveryExclusive /\ NothingLeaks
  /\ \A p \in Procs :
       /\ boot[p] # "none" => obs[p] = "none"
       /\ obs[p] \notin {"none", "waiting"} => run[p] = "reaped"
       /\ run[p] = "launching" => /\ boot[p] \in {"waiting", "stopping"}
                                 /\ p \notin {bound, reboot.proc}
  /\ reboot.pc # "idle" => reboot.proc \in Procs
  /\ reboot.pc = "stopping" /\ Alive(reboot.proc) => reboot.proc \in dismissed
  /\ shut # "serving" \/ snap # {} => closed
  /\ shut = "reaping" => bound \in snap \cup {NoProc}
  /\ \A p \in snap : Alive(p) => p \in dismissed
  /\ shut = "clean" => bound = NoProc /\ pending = {}

(* The inductive invariant.                                                *)
SessionInv ==
  SessionTypeOK /\ CoreInv /\ OneCaller /\ DismissalsFlagged /\ DismissedIsNoCrash
=============================================================================
