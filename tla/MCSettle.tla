------------------------------ MODULE MCSettle ------------------------------
(* What must come to an end, side by side: mail on its way to an actor,    *)
(* tabs that watch a message, the shutdown of a session's processes; and   *)
(* the index of the session's streams.  A behaviour is one of one of       *)
(* these: `part` never changes, so that being fair to the step of the part *)
(* that is on is being fair to all of them.                                *)
EXTENDS TetherDelivery, MessageStreams, SessionIndex

CONSTANTS Procs, NoProc

VARIABLES part, binding, pending, lease, sealed, run, dismissed, boot, turn, obs, displaced,
          rebooting, reboot, attempts, call, archived, hook, shut, snap, evicted, scenario

processVars == <<binding, pending, lease, sealed, run, dismissed, boot, turn, obs, displaced,
                 rebooting, reboot, attempts, call, archived, hook, shut, snap, evicted,
                 scenario>>

Processes == INSTANCE AgentSessions WITH
    MaxRetries <- 1, Scenarios <- {{"shutdown"}}, bound <- binding, closed <- sealed

OnMail == part = "mail" /\ UNCHANGED <<part, streamVars, indexVars, processVars>>
OnTabs == part = "tabs" /\ UNCHANGED <<part, vars, indexVars, processVars>>
OnIndex == part = "index" /\ UNCHANGED <<part, vars, streamVars, processVars>>
OnReap == part = "reap" /\ UNCHANGED <<part, vars, streamVars, indexVars, scenario>>

MCInit ==
    /\ Init /\ StreamInit /\ IndexInit /\ Processes!SessionInit
    /\ part \in {"mail", "tabs", "index", "reap"}

MCNext ==
    \/ OnMail /\ Next
    \/ OnTabs /\ StreamNext
    \/ OnIndex /\ IndexNext
    \/ OnReap /\ Processes!SessionNext

mcVars == <<part, vars, streamVars, indexVars, processVars>>

(* The fairness of TetherDelivery, that of MessageStreams, and the run     *)
(* goroutine of a process told to stop with Shutdown's own goroutines: the *)
(* deadline of Shutdown is no part of it.                                  *)
MCFairness ==
    /\ WF_mcVars(\/ OnMail /\ Watch
                 \/ OnTabs /\ CloseProduce
                 \/ OnReap /\ Processes!ShutdownReturns)
    /\ WF_mcVars((OnMail /\ List) \/ (OnTabs /\ Pump))
    /\ WF_mcVars(OnTabs /\ PumpEnds)
    /\ \A t \in Threads : WF_mcVars(OnMail /\ HandlerStep(t))
    /\ \A x \in Msgs \cup Tabs :
         /\ SF_mcVars(\/ OnMail /\ x \in Msgs /\ Resume(x)
                      \/ OnTabs /\ x \in Tabs /\ Reconnect(x))
         /\ WF_mcVars(\/ OnMail /\ x \in Msgs /\ Due(x)
                      \/ OnTabs /\ x \in Tabs /\ NotFound(x))
    /\ \A i \in Sessions \cup Conns :
         WF_mcVars(\/ OnMail /\ i \in Sessions /\ TurnEnds(i)
                   \/ OnTabs /\ i \in Conns /\ Serve(i))
    /\ \A p \in Procs : /\ WF_mcVars(OnReap /\ p \in dismissed /\ Processes!RunReturns(p))
                        /\ WF_mcVars(OnReap /\ Processes!RunCleansUp(p))
                        /\ WF_mcVars(OnReap /\ Processes!ShutdownReaps(p))

MCSpec == MCInit /\ [][MCNext]_mcVars /\ MCFairness

(* Shutdown waits for nothing but processes it told to stop: it returns    *)
(* without the help of its deadline, whatever is booting or being adopted. *)
ShutdownEnds == []<>(shut # "reaping")
=============================================================================
