------------------------- MODULE AgentSessionsProofs -------------------------
EXTENDS AgentSessions, TLAPS

\* A leaf that names no prover goes to Zenon.
USE ZenonT(30)

USE SessionAssumption DEF Notice, Calls, At, Idle, CallIdle, managerVars, procVars, chatVars,
    brokerVars, endVars

(* Every step keeps the types.                                             *)
LEMMA TypeStep ==
  ASSUME SessionTypeOK, SessionNext
  PROVE  SessionTypeOK'
<1>1. ASSUME TurnStarts  PROVE SessionTypeOK'
  BY <1>1 DEF TurnStarts, TurnMoves, SessionTypeOK, ManagerTypes, ProcTypes, ChatTypes,
    BrokerTypes, EndTypes
<1>2. ASSUME TurnLooksUp  PROVE SessionTypeOK'
  BY SMTT(30), <1>2 DEF TurnLooksUp, TurnMoves, SessionTypeOK, ManagerTypes, ProcTypes, ChatTypes,
    BrokerTypes, EndTypes
<1>3. ASSUME TurnLoads  PROVE SessionTypeOK'
  BY SMTT(30), <1>3 DEF TurnLoads, TurnMoves, SessionTypeOK, ManagerTypes, ProcTypes, ChatTypes,
    BrokerTypes, EndTypes
<1>4. ASSUME TurnRetires  PROVE SessionTypeOK'
  BY <1>4 DEF TurnRetires, TurnMoves, Retire, Evictable, SessionTypeOK, ManagerTypes,
    ProcTypes, ChatTypes, BrokerTypes, EndTypes
<1>5. ASSUME TurnChecksEnded  PROVE SessionTypeOK'
  BY SMTT(30), <1>5 DEF TurnChecksEnded, TurnMoves, SessionTypeOK, ManagerTypes, ProcTypes,
    ChatTypes, BrokerTypes, EndTypes
<1>6. ASSUME TurnBoots  PROVE SessionTypeOK'
  <2>1. ManagerTypes'
    BY <1>6 DEF SessionTypeOK, ManagerTypes, TurnBoots, Launches, AdmitLaunch
  <2>2. ProcTypes'
    BY <1>6 DEF SessionTypeOK, ManagerTypes, ProcTypes, TurnBoots, Launches, AdmitLaunch
  <2>3. ChatTypes'
    BY SMTT(30), <1>6 DEF SessionTypeOK, ManagerTypes, ChatTypes, TurnBoots, Launches, AdmitLaunch
  <2>4. BrokerTypes'
    BY <1>6 DEF SessionTypeOK, BrokerTypes, TurnBoots, Launches, AdmitLaunch
  <2>5. EndTypes'
    BY <1>6 DEF SessionTypeOK, EndTypes, TurnBoots, Launches, AdmitLaunch
  <2> QED  BY <2>1, <2>2, <2>3, <2>4, <2>5 DEF SessionTypeOK
<1>7. ASSUME TurnBootRefused  PROVE SessionTypeOK'
  BY SMTT(30), <1>7 DEF TurnBootRefused, TurnMoves, SessionTypeOK, ManagerTypes, ProcTypes,
    ChatTypes, BrokerTypes, EndTypes
<1>8. ASSUME TurnBootFails  PROVE SessionTypeOK'
  <2>1. ManagerTypes'
    BY <1>8 DEF SessionTypeOK, ManagerTypes, TurnBootFails, TurnMoves
  <2>2. ProcTypes'
    BY <1>8 DEF SessionTypeOK, ManagerTypes, ProcTypes, TurnBootFails, TurnMoves
  <2>3. ChatTypes'
    BY <1>8 DEF SessionTypeOK, ManagerTypes, ChatTypes, TurnBootFails, TurnMoves
  <2>4. BrokerTypes'
    BY <1>8 DEF SessionTypeOK, BrokerTypes, TurnBootFails, TurnMoves
  <2>5. EndTypes'
    BY <1>8 DEF SessionTypeOK, EndTypes, TurnBootFails, TurnMoves
  <2> QED  BY <2>1, <2>2, <2>3, <2>4, <2>5 DEF SessionTypeOK
<1>9. ASSUME TurnBooted  PROVE SessionTypeOK'
  <2>1. ManagerTypes'
    BY <1>9 DEF SessionTypeOK, ManagerTypes, TurnBooted, CloseAgentSession, Dismiss
  <2>2. ProcTypes'
    BY <1>9 DEF SessionTypeOK, ManagerTypes, ProcTypes, TurnBooted, CloseAgentSession,
      Dismiss
  <2>3. ChatTypes'
    BY SMTT(30), <1>9 DEF SessionTypeOK, ManagerTypes, ChatTypes, TurnBooted, CloseAgentSession,
      Dismiss
  <2>4. BrokerTypes'
    BY <1>9 DEF SessionTypeOK, BrokerTypes, TurnBooted, CloseAgentSession, Dismiss
  <2>5. EndTypes'
    BY <1>9 DEF SessionTypeOK, EndTypes, TurnBooted, CloseAgentSession, Dismiss
  <2> QED  BY <2>1, <2>2, <2>3, <2>4, <2>5 DEF SessionTypeOK
<1>10. ASSUME TurnEnds  PROVE SessionTypeOK'
  BY SMTT(30), <1>10 DEF TurnEnds, TurnMoves, SessionTypeOK, ManagerTypes, ProcTypes, ChatTypes,
    BrokerTypes, EndTypes
<1>11. ASSUME TurnBreaks  PROVE SessionTypeOK'
  BY SMTT(30), <1>11 DEF TurnBreaks, TurnMoves, SessionTypeOK, ManagerTypes, ProcTypes, ChatTypes,
    BrokerTypes, EndTypes
<1>12. ASSUME NEW p \in Procs, Ready(p)  PROVE SessionTypeOK'
  <2>1. ManagerTypes'
    BY <1>12 DEF SessionTypeOK, ManagerTypes, Ready, RegisterReady, Refused, Evictable,
      Alive
  <2>2. ProcTypes'
    BY <1>12 DEF SessionTypeOK, ManagerTypes, ProcTypes, Ready, RegisterReady, Refused,
      Evictable, Alive
  <2>3. ChatTypes'
    BY <1>12 DEF SessionTypeOK, ManagerTypes, ChatTypes, Ready, RegisterReady, Refused,
      Evictable, Alive
  <2>4. BrokerTypes'
    BY <1>12 DEF SessionTypeOK, BrokerTypes, Ready, RegisterReady, Refused, Evictable,
      Alive
  <2>5. EndTypes'
    BY <1>12 DEF SessionTypeOK, EndTypes, Ready, RegisterReady, Refused, Evictable,
      Alive
  <2> QED  BY <2>1, <2>2, <2>3, <2>4, <2>5 DEF SessionTypeOK
<1>13. ASSUME NEW p \in Procs, RunReturns(p)  PROVE SessionTypeOK'
  BY SMTT(30), <1>13 DEF RunReturns, Alive, SessionTypeOK, ManagerTypes, ProcTypes, ChatTypes,
    BrokerTypes, EndTypes
<1>14. ASSUME NEW p \in Procs, RunCleansUp(p)  PROVE SessionTypeOK'
  BY SMTT(30), <1>14 DEF RunCleansUp, SessionTypeOK, ManagerTypes, ProcTypes, ChatTypes,
    BrokerTypes, EndTypes
<1>15. ASSUME NEW p \in Procs, BootSeesReady(p)  PROVE SessionTypeOK'
  BY SMTT(30), <1>15 DEF BootSeesReady, Dismiss, Alive, SessionTypeOK, ManagerTypes, ProcTypes,
    ChatTypes, BrokerTypes, EndTypes
<1>16. ASSUME NEW p \in Procs, BootSeesExit(p)  PROVE SessionTypeOK'
  BY SMTT(30), <1>16 DEF BootSeesExit, SessionTypeOK, ManagerTypes, ProcTypes, ChatTypes,
    BrokerTypes, EndTypes
<1>17. ASSUME NEW p \in Procs, BootCanceled(p)  PROVE SessionTypeOK'
  BY SMTT(30), <1>17 DEF BootCanceled, Dismiss, Alive, SessionTypeOK, ManagerTypes, ProcTypes,
    ChatTypes, BrokerTypes, EndTypes
<1>18. ASSUME NEW p \in Procs, BootFails(p)  PROVE SessionTypeOK'
  BY SMTT(30), <1>18 DEF BootFails, SessionTypeOK, ManagerTypes, ProcTypes, ChatTypes,
    BrokerTypes, EndTypes
<1>19. ASSUME NEW p \in Procs, ObserverWakes(p)  PROVE SessionTypeOK'
  BY SMTT(30), <1>19 DEF ObserverWakes, SessionTypeOK, ManagerTypes, ProcTypes, ChatTypes,
    BrokerTypes, EndTypes
<1>20. ASSUME NEW p \in Procs, ObserverRetires(p)  PROVE SessionTypeOK'
  BY SMTT(30), <1>20 DEF ObserverRetires, Retire, SessionTypeOK, ManagerTypes, ProcTypes,
    ChatTypes, BrokerTypes, EndTypes
<1>21. ASSUME NEW p \in Procs, ObserverBegins(p)  PROVE SessionTypeOK'
  BY SMTT(30), <1>21 DEF ObserverBegins, BeginRecovery, Recoverable, SessionTypeOK, ManagerTypes,
    ProcTypes, ChatTypes, BrokerTypes, EndTypes
<1>22. ASSUME NEW p \in Procs, ObserverEnds(p)  PROVE SessionTypeOK'
  BY SMTT(30), <1>22 DEF ObserverEnds, EndRecovery, SessionTypeOK, ManagerTypes, ProcTypes,
    ChatTypes, BrokerTypes, EndTypes
<1>23. ASSUME NEW p \in Procs, ShutdownReaps(p)  PROVE SessionTypeOK'
  BY SMTT(30), <1>23 DEF ShutdownReaps, Retire, SessionTypeOK, ManagerTypes, ProcTypes, ChatTypes,
    BrokerTypes, EndTypes
<1>24. ASSUME NEW c \in Calls, OnSessionExit(c)  PROVE SessionTypeOK'
  BY SMTT(30), <1>24 DEF OnSessionExit, SessionTypeOK, ManagerTypes, ProcTypes, ChatTypes,
    BrokerTypes, EndTypes
<1>25. ASSUME NEW c \in Calls, Retries(c)  PROVE SessionTypeOK'
  BY SMTT(30), <1>25 DEF Retries, SessionTypeOK, ManagerTypes, ProcTypes, ChatTypes, BrokerTypes,
    EndTypes
<1>26. ASSUME NEW c \in Calls, EscalatesPermanent(c)  PROVE SessionTypeOK'
  <2>1. ManagerTypes'
    BY <1>26 DEF SessionTypeOK, ManagerTypes, EscalatesPermanent
  <2>2. ProcTypes'
    BY <1>26 DEF SessionTypeOK, ManagerTypes, ProcTypes, EscalatesPermanent
  <2>3. ChatTypes'
    BY <1>26 DEF SessionTypeOK, ManagerTypes, ChatTypes, EscalatesPermanent
  <2>4. BrokerTypes'
    BY SMTT(30), <1>26 DEF SessionTypeOK, BrokerTypes, EscalatesPermanent
  <2>5. EndTypes'
    BY <1>26 DEF SessionTypeOK, EndTypes, EscalatesPermanent
  <2> QED  BY <2>1, <2>2, <2>3, <2>4, <2>5 DEF SessionTypeOK
<1>27. ASSUME NEW c \in Calls, RetryCanceled(c)  PROVE SessionTypeOK'
  BY SMTT(30), <1>27 DEF RetryCanceled, SessionTypeOK, ManagerTypes, ProcTypes, ChatTypes,
    BrokerTypes, EndTypes
<1>28. ASSUME NEW c \in Calls, DispatchRetry(c)  PROVE SessionTypeOK'
  <2>1. ManagerTypes'
    BY <1>28 DEF SessionTypeOK, ManagerTypes, DispatchRetry, Launches, AdmitLaunch
  <2>2. ProcTypes'
    BY <1>28 DEF SessionTypeOK, ManagerTypes, ProcTypes, DispatchRetry, Launches,
      AdmitLaunch
  <2>3. ChatTypes'
    BY <1>28 DEF SessionTypeOK, ManagerTypes, ChatTypes, DispatchRetry, Launches,
      AdmitLaunch
  <2>4. BrokerTypes'
    BY SMTT(30), <1>28 DEF SessionTypeOK, BrokerTypes, DispatchRetry, Launches, AdmitLaunch
  <2>5. EndTypes'
    BY <1>28 DEF SessionTypeOK, EndTypes, DispatchRetry, Launches, AdmitLaunch
  <2> QED  BY <2>1, <2>2, <2>3, <2>4, <2>5 DEF SessionTypeOK
<1>29. ASSUME NEW c \in Calls, Adopts(c)  PROVE SessionTypeOK'
  <2>1. ManagerTypes'
    BY <1>29 DEF SessionTypeOK, ManagerTypes, BrokerTypes, Adopts, Dismiss, Flagged
  <2>2. ProcTypes'
    BY <1>29 DEF SessionTypeOK, ManagerTypes, ProcTypes, Adopts, Dismiss, Flagged
  <2>3. ChatTypes'
    BY <1>29 DEF SessionTypeOK, ManagerTypes, ChatTypes, Adopts, Dismiss, Flagged
  <2>4. BrokerTypes'
    BY <1>29 DEF SessionTypeOK, BrokerTypes, Adopts, Dismiss, Flagged
  <2>5. EndTypes'
    BY <1>29 DEF SessionTypeOK, EndTypes, Adopts, Dismiss, Flagged
  <2> QED  BY <2>1, <2>2, <2>3, <2>4, <2>5 DEF SessionTypeOK
<1>30. ASSUME RebootLoads  PROVE SessionTypeOK'
  BY <1>30 DEF RebootLoads, SessionTypeOK, ManagerTypes, ProcTypes, ChatTypes,
    BrokerTypes, EndTypes
<1>31. ASSUME RebootStops  PROVE SessionTypeOK'
  BY SMTT(30), <1>31 DEF RebootStops, Dismiss, Flagged, SessionTypeOK, ManagerTypes, ProcTypes,
    ChatTypes, BrokerTypes, EndTypes
<1>32. ASSUME RebootEvicts  PROVE SessionTypeOK'
  BY SMTT(30), <1>32 DEF RebootEvicts, Retire, SessionTypeOK, ManagerTypes, ProcTypes, ChatTypes,
    BrokerTypes, EndTypes
<1>33. ASSUME RebootGivesUp  PROVE SessionTypeOK'
  BY SMTT(30), <1>33 DEF RebootGivesUp, SessionTypeOK, ManagerTypes, ProcTypes, ChatTypes,
    BrokerTypes, EndTypes
<1>34. ASSUME Archives  PROVE SessionTypeOK'
  BY SMTT(30), <1>34 DEF Archives, SessionTypeOK, ManagerTypes, ProcTypes, ChatTypes, BrokerTypes,
    EndTypes
<1>35. ASSUME ArchiveHook  PROVE SessionTypeOK'
  <2>1. ManagerTypes'
    BY <1>35 DEF SessionTypeOK, ManagerTypes, ArchiveHook, CloseAgentSession, Dismiss
  <2>2. ProcTypes'
    BY <1>35 DEF SessionTypeOK, ManagerTypes, ProcTypes, ArchiveHook, CloseAgentSession,
      Dismiss
  <2>3. ChatTypes'
    BY <1>35 DEF SessionTypeOK, ManagerTypes, ChatTypes, ArchiveHook, CloseAgentSession,
      Dismiss
  <2>4. BrokerTypes'
    BY <1>35 DEF SessionTypeOK, BrokerTypes, ArchiveHook, CloseAgentSession, Dismiss
  <2>5. EndTypes'
    BY <1>35 DEF SessionTypeOK, EndTypes, ArchiveHook, CloseAgentSession, Dismiss
  <2> QED  BY <2>1, <2>2, <2>3, <2>4, <2>5 DEF SessionTypeOK
<1>36. ASSUME CloseAdmission  PROVE SessionTypeOK'
  BY SMTT(30), <1>36 DEF CloseAdmission, SessionTypeOK, ManagerTypes, ProcTypes, ChatTypes,
    BrokerTypes, EndTypes
<1>37. ASSUME ShutdownStops  PROVE SessionTypeOK'
  BY SMTT(30), <1>37 DEF ShutdownStops, Dismiss, SessionTypeOK, ManagerTypes, ProcTypes, ChatTypes,
    BrokerTypes, EndTypes
<1>38. ASSUME ShutdownReturns  PROVE SessionTypeOK'
  BY SMTT(30), <1>38 DEF ShutdownReturns, SessionTypeOK, ManagerTypes, ProcTypes, ChatTypes,
    BrokerTypes, EndTypes
<1>39. ASSUME ShutdownExpires  PROVE SessionTypeOK'
  BY SMTT(30), <1>39 DEF ShutdownExpires, SessionTypeOK, ManagerTypes, ProcTypes, ChatTypes,
    BrokerTypes, EndTypes
<1>40. ASSUME TurnStops  PROVE SessionTypeOK'
  BY SMTT(30), <1>40 DEF TurnStops, TurnMoves, SessionTypeOK, ManagerTypes, ProcTypes, ChatTypes,
    BrokerTypes, EndTypes
<1>41. ASSUME TurnStopped  PROVE SessionTypeOK'
  BY SMTT(30), <1>41 DEF TurnStopped, TurnMoves, SessionTypeOK, ManagerTypes, ProcTypes, ChatTypes,
    BrokerTypes, EndTypes
<1> QED  BY <1>1, <1>2, <1>3, <1>4, <1>5, <1>6, <1>7, <1>8, <1>9, <1>10, <1>11, <1>12,
         <1>13, <1>14, <1>15, <1>16, <1>17, <1>18, <1>19, <1>20, <1>21, <1>22, <1>23,
         <1>24, <1>25, <1>26, <1>27, <1>28, <1>29, <1>30, <1>31, <1>32, <1>33, <1>34,
         <1>35, <1>36, <1>37, <1>38, <1>39, <1>40, <1>41 DEF SessionNext

(* Every step keeps what is running in sight and the lease exclusive.       *)
LEMMA CoreStep ==
  ASSUME SessionInv, SessionNext
  PROVE  CoreInv'
<1> USE DEF SessionInv, SessionTypeOK, ManagerTypes, ProcTypes, ChatTypes, BrokerTypes,
        EndTypes, RecoveryExclusive, NothingLeaks, Tracked, Alive, CoreInv
<1>1. ASSUME TurnRetires  PROVE CoreInv'
  BY SMTT(30), <1>1 DEF TurnRetires, TurnMoves, Retire, Evictable
<1>2. ASSUME TurnBoots  PROVE CoreInv'
  BY SMTT(30), <1>2 DEF TurnBoots, Launches, AdmitLaunch, Unused
<1>3. ASSUME TurnBootFails  PROVE CoreInv'
  BY SMTT(30), <1>3 DEF TurnBootFails, TurnMoves
<1>4. ASSUME TurnBooted  PROVE CoreInv'
  BY SMTT(30), <1>4 DEF TurnBooted, CloseAgentSession, Dismiss
<1>5. ASSUME NEW p \in Procs, Ready(p)  PROVE CoreInv'
  BY SMTT(30), <1>5 DEF Ready, RegisterReady, Refused, Evictable, IsRelaunch
<1>6. ASSUME NEW p \in Procs, RunReturns(p)  PROVE CoreInv'
  BY SMTT(30), <1>6 DEF RunReturns
<1>7. ASSUME NEW p \in Procs, RunCleansUp(p)  PROVE CoreInv'
  BY SMTT(30), <1>7 DEF RunCleansUp
<1>8. ASSUME NEW p \in Procs, BootSeesReady(p)  PROVE CoreInv'
  BY SMTT(30), <1>8 DEF BootSeesReady, Dismiss
<1>9. ASSUME NEW p \in Procs, BootSeesExit(p)  PROVE CoreInv'
  BY SMTT(30), <1>9 DEF BootSeesExit, RunDone
<1>10. ASSUME NEW p \in Procs, BootCanceled(p)  PROVE CoreInv'
  BY SMTT(30), <1>10 DEF BootCanceled, Dismiss
<1>11. ASSUME NEW p \in Procs, BootFails(p)  PROVE CoreInv'
  BY SMTT(30), <1>11 DEF BootFails, RunDone
<1>12. ASSUME NEW p \in Procs, ObserverWakes(p)  PROVE CoreInv'
  BY SMTT(30), <1>12 DEF ObserverWakes
<1>13. ASSUME NEW p \in Procs, ObserverRetires(p)  PROVE CoreInv'
  BY SMTT(30), <1>13 DEF ObserverRetires, Retire
<1>14. ASSUME NEW p \in Procs, ObserverBegins(p)  PROVE CoreInv'
  BY SMTT(30), <1>14 DEF ObserverBegins, BeginRecovery, Recoverable
<1>15. ASSUME NEW p \in Procs, ObserverEnds(p)  PROVE CoreInv'
  BY SMTT(30), <1>15 DEF ObserverEnds, EndRecovery
<1>16. ASSUME NEW p \in Procs, ShutdownReaps(p)  PROVE CoreInv'
  BY SMTT(30), <1>16 DEF ShutdownReaps, Retire
<1>17. ASSUME NEW c \in Calls, EscalatesPermanent(c)  PROVE CoreInv'
  BY SMTT(30), <1>17 DEF EscalatesPermanent
<1>18. ASSUME NEW c \in Calls, DispatchRetry(c)  PROVE CoreInv'
  BY SMTT(30), <1>18 DEF DispatchRetry, Launches, AdmitLaunch, Unused
<1>19. ASSUME NEW c \in Calls, Adopts(c)  PROVE CoreInv'
  BY SMTT(30), <1>19 DEF Adopts, Dismiss, Flagged
<1>20. ASSUME RebootLoads  PROVE CoreInv'
  BY <1>20 DEF RebootLoads
<1>21. ASSUME RebootStops  PROVE CoreInv'
  BY <1>21 DEF RebootStops, Dismiss, Flagged
<1>22. ASSUME RebootEvicts  PROVE CoreInv'
  BY SMTT(30), <1>22 DEF RebootEvicts, Retire
<1>23. ASSUME RebootGivesUp  PROVE CoreInv'
  BY SMTT(30), <1>23 DEF RebootGivesUp
<1>24. ASSUME ArchiveHook  PROVE CoreInv'
  BY SMTT(30), <1>24 DEF ArchiveHook, CloseAgentSession, Dismiss
<1>25. ASSUME CloseAdmission  PROVE CoreInv'
  BY <1>25 DEF CloseAdmission
<1>26. ASSUME ShutdownStops  PROVE CoreInv'
  BY SMTT(30), <1>26 DEF ShutdownStops, Dismiss
<1>27. ASSUME ShutdownReturns  PROVE CoreInv'
  BY <1>27 DEF ShutdownReturns
<1>28. ASSUME ShutdownExpires  PROVE CoreInv'
  BY <1>28 DEF ShutdownExpires
<1>29. ASSUME UNCHANGED <<bound, lease, pending, closed, run, dismissed, boot, obs, reboot, shut, snap, evicted>>
       PROVE  CoreInv'
  BY <1>29
<1> QED  BY <1>1, <1>2, <1>3, <1>4, <1>5, <1>6, <1>7, <1>8, <1>9, <1>10, <1>11, <1>12,
         <1>13, <1>14, <1>15, <1>16, <1>17, <1>18, <1>19, <1>20, <1>21, <1>22, <1>23,
         <1>24, <1>25, <1>26, <1>27, <1>28, <1>29 DEF SessionNext, TurnStarts,
         TurnMoves, TurnLooksUp, TurnLoads, TurnChecksEnded, TurnBootRefused, TurnEnds,
         TurnStops, TurnStopped, TurnBreaks, OnSessionExit, Retries, RetryCanceled, Archives

(* Every step leaves each Boot one caller.                                 *)
LEMMA CallerStep ==
  ASSUME SessionInv, SessionNext
  PROVE  OneCaller'
<1> USE DEF SessionInv, SessionTypeOK, ManagerTypes, ProcTypes, ChatTypes,
        BrokerTypes, OneCaller
<1>1. ASSUME TurnStarts  PROVE OneCaller'
  BY SMTT(30), <1>1 DEF TurnStarts, TurnMoves
<1>2. ASSUME TurnLooksUp  PROVE OneCaller'
  BY SMTT(30), <1>2 DEF TurnLooksUp, TurnMoves
<1>3. ASSUME TurnLoads  PROVE OneCaller'
  BY SMTT(30), <1>3 DEF TurnLoads, TurnMoves
<1>4. ASSUME TurnRetires  PROVE OneCaller'
  BY SMTT(30), <1>4 DEF TurnRetires, TurnMoves, Retire, Evictable
<1>5. ASSUME TurnChecksEnded  PROVE OneCaller'
  BY SMTT(30), <1>5 DEF TurnChecksEnded, TurnMoves
<1>6. ASSUME TurnBoots  PROVE OneCaller'
  BY SMTT(30), <1>6 DEF TurnBoots, Launches, AdmitLaunch, Unused
<1>7. ASSUME TurnBootRefused  PROVE OneCaller'
  BY SMTT(30), <1>7 DEF TurnBootRefused, TurnMoves
<1>8. ASSUME TurnBootFails  PROVE OneCaller'
  BY SMTT(30), <1>8 DEF TurnBootFails, TurnMoves
<1>9. ASSUME TurnBooted  PROVE OneCaller'
  BY SMTT(30), <1>9 DEF CoreInv, TurnBooted, CloseAgentSession, Dismiss
<1>10. ASSUME TurnEnds  PROVE OneCaller'
  BY SMTT(30), <1>10 DEF TurnEnds, TurnMoves
<1>11. ASSUME TurnBreaks  PROVE OneCaller'
  BY SMTT(30), <1>11 DEF TurnBreaks, TurnMoves
<1>12. ASSUME NEW p \in Procs, Ready(p)  PROVE OneCaller'
  BY SMTT(30), <1>12 DEF Ready, RegisterReady, Refused, Evictable, IsRelaunch
<1>13. ASSUME NEW p \in Procs, BootSeesReady(p)  PROVE OneCaller'
  BY SMTT(30), <1>13 DEF BootSeesReady, Dismiss
<1>14. ASSUME NEW p \in Procs, BootSeesExit(p)  PROVE OneCaller'
  BY SMTT(30), <1>14 DEF BootSeesExit, RunDone
<1>15. ASSUME NEW p \in Procs, BootCanceled(p)  PROVE OneCaller'
  BY SMTT(30), <1>15 DEF BootCanceled, Dismiss
<1>16. ASSUME NEW p \in Procs, BootFails(p)  PROVE OneCaller'
  BY SMTT(30), <1>16 DEF BootFails, RunDone
<1>17. ASSUME NEW p \in Procs, ObserverWakes(p)  PROVE OneCaller'
  BY SMTT(30), <1>17 DEF ObserverWakes
<1>18. ASSUME NEW p \in Procs, ObserverRetires(p)  PROVE OneCaller'
  BY SMTT(30), <1>18 DEF ObserverRetires, Retire
<1>19. ASSUME NEW p \in Procs, ObserverBegins(p)  PROVE OneCaller'
  BY SMTT(30), <1>19 DEF ObserverBegins, BeginRecovery, Recoverable
<1>20. ASSUME NEW p \in Procs, ObserverEnds(p)  PROVE OneCaller'
  BY SMTT(30), <1>20 DEF ObserverEnds, EndRecovery
<1>21. ASSUME NEW p \in Procs, ShutdownReaps(p)  PROVE OneCaller'
  BY SMTT(30), <1>21 DEF ShutdownReaps, Retire
<1>22. ASSUME NEW c \in Calls, OnSessionExit(c)  PROVE OneCaller'
  BY SMTT(30), <1>22 DEF OnSessionExit
<1>23. ASSUME NEW c \in Calls, Retries(c)  PROVE OneCaller'
  BY SMTT(30), <1>23 DEF Retries
<1>24. ASSUME NEW c \in Calls, EscalatesPermanent(c)  PROVE OneCaller'
  BY SMTT(30), <1>24 DEF EscalatesPermanent
<1>25. ASSUME NEW c \in Calls, RetryCanceled(c)  PROVE OneCaller'
  BY SMTT(30), <1>25 DEF RetryCanceled
<1>26. ASSUME NEW c \in Calls, DispatchRetry(c)  PROVE OneCaller'
  BY SMTT(30), <1>26 DEF DispatchRetry, Launches, AdmitLaunch, Unused
<1>27. ASSUME NEW c \in Calls, Adopts(c)  PROVE OneCaller'
  BY SMTT(30), <1>27 DEF CoreInv, Adopts, Dismiss, Flagged
<1>28. ASSUME RebootLoads  PROVE OneCaller'
  BY SMTT(30), <1>28 DEF RebootLoads
<1>29. ASSUME RebootStops  PROVE OneCaller'
  BY SMTT(30), <1>29 DEF RebootStops, Dismiss, Flagged
<1>30. ASSUME RebootEvicts  PROVE OneCaller'
  BY SMTT(30), <1>30 DEF RebootEvicts, Retire
<1>31. ASSUME RebootGivesUp  PROVE OneCaller'
  BY SMTT(30), <1>31 DEF RebootGivesUp
<1>32. ASSUME ArchiveHook  PROVE OneCaller'
  BY SMTT(30), <1>32 DEF ArchiveHook, CloseAgentSession, Dismiss
<1>33. ASSUME UNCHANGED <<bound, boot, turn, obs, reboot, call>>
       PROVE  OneCaller'
  BY SMTT(30), <1>33
<1>34. ASSUME TurnStops  PROVE OneCaller'
  BY SMTT(30), <1>34 DEF TurnStops, TurnMoves
<1>35. ASSUME TurnStopped  PROVE OneCaller'
  BY SMTT(30), <1>35 DEF TurnStopped, TurnMoves
<1> QED  BY <1>1, <1>2, <1>3, <1>4, <1>5, <1>6, <1>7, <1>8, <1>9, <1>10, <1>11, <1>12,
         <1>13, <1>14, <1>15, <1>16, <1>17, <1>18, <1>19, <1>20, <1>21, <1>22, <1>23,
         <1>24, <1>25, <1>26, <1>27, <1>28, <1>29, <1>30, <1>31, <1>32, <1>33, <1>34,
         <1>35 DEF SessionNext, RunReturns, Alive, RunCleansUp, Archives, CloseAdmission,
         ShutdownStops, Dismiss, ShutdownReturns, ShutdownExpires

(* Every step keeps dismissals flagged.                                    *)
LEMMA FlagStep ==
  ASSUME SessionInv, SessionNext
  PROVE  DismissalsFlagged' /\ DismissedIsNoCrash'
<1> USE DEF SessionInv, SessionTypeOK, ManagerTypes, ProcTypes, ChatTypes,
        BrokerTypes, OneCaller, DismissalsFlagged, Booting, DismissedIsNoCrash, Alive
<1>0. \A p \in Procs :
        /\ boot[p] # "none" => obs[p] = "none"
        /\ obs[p] \notin {"none", "waiting"} => run[p] = "reaped"
        /\ run[p] = "launching" => /\ boot[p] \in {"waiting", "stopping"}
                                  /\ p \notin {bound, reboot.proc}
  BY DEF CoreInv
<1>1. ASSUME TurnRetires  PROVE DismissalsFlagged' /\ DismissedIsNoCrash'
  BY SMTT(30), <1>1 DEF TurnRetires, TurnMoves, Retire, Evictable
<1>2. ASSUME TurnBoots  PROVE DismissalsFlagged' /\ DismissedIsNoCrash'
  BY SMTT(30), <1>2 DEF TurnBoots, Launches, AdmitLaunch, Unused
<1>3. ASSUME TurnBootFails  PROVE DismissalsFlagged' /\ DismissedIsNoCrash'
  BY SMTT(30), <1>3 DEF TurnBootFails, TurnMoves
<1>4. ASSUME TurnBooted  PROVE DismissalsFlagged' /\ DismissedIsNoCrash'
  <2> DEFINE q == turn.proc
  <2>1. /\ q \in Procs /\ boot[q] = "returned" /\ obs[q] = "none"
        /\ boot' = [boot EXCEPT ![q] = "none"]
        /\ UNCHANGED <<closed, run, displaced, rebooting, call>>
    BY <1>0, <1>4 DEF TurnBooted
  <2>2. CASE archived
    <3>1. /\ bound' = NoProc /\ obs' = obs
          /\ dismissed' = dismissed \cup {r \in Procs : r = bound /\ Alive(r)}
      BY SMTT(30), <1>4, <2>2 DEF TurnBooted, CloseAgentSession, Dismiss
    <3>2. DismissalsFlagged'
      BY SMTT(30), <1>0, <2>1, <3>1
    <3>3. DismissedIsNoCrash'
      BY <1>0, <2>1, <3>1
    <3> QED  BY <3>2, <3>3
  <2>3. CASE ~archived
    <3>1. bound' = bound /\ dismissed' = dismissed /\ obs' = [obs EXCEPT ![q] = "waiting"]
      BY <1>4, <2>3 DEF TurnBooted
    <3> QED  BY SMTT(30), <2>1, <3>1
  <2> QED  BY <2>2, <2>3
<1>5. ASSUME TurnBreaks  PROVE DismissalsFlagged' /\ DismissedIsNoCrash'
  BY SMTT(30), <1>5 DEF TurnBreaks, TurnMoves
<1>6. ASSUME NEW p \in Procs, Ready(p)  PROVE DismissalsFlagged' /\ DismissedIsNoCrash'
  BY SMTT(30), <1>0, <1>6 DEF Ready, RegisterReady, Refused, Evictable, IsRelaunch
<1>7. ASSUME NEW p \in Procs, RunReturns(p)  PROVE DismissalsFlagged' /\ DismissedIsNoCrash'
  BY SMTT(30), <1>7 DEF RunReturns
<1>8. ASSUME NEW p \in Procs, RunCleansUp(p)  PROVE DismissalsFlagged' /\ DismissedIsNoCrash'
  BY SMTT(30), <1>8 DEF RunCleansUp
<1>9. ASSUME NEW p \in Procs, BootSeesReady(p)  PROVE DismissalsFlagged' /\ DismissedIsNoCrash'
  BY SMTT(30), <1>0, <1>9 DEF BootSeesReady, Dismiss
<1>10. ASSUME NEW p \in Procs, BootSeesExit(p)  PROVE DismissalsFlagged' /\ DismissedIsNoCrash'
  BY SMTT(30), <1>10 DEF BootSeesExit, RunDone
<1>11. ASSUME NEW p \in Procs, BootCanceled(p)  PROVE DismissalsFlagged' /\ DismissedIsNoCrash'
  <2>1. DismissalsFlagged'
    BY SMTT(30), <1>0, <1>11 DEF BootCanceled, Dismiss
  <2>2. DismissedIsNoCrash'
    BY <1>0, <1>11 DEF BootCanceled, Dismiss
  <2> QED  BY <2>1, <2>2
<1>12. ASSUME NEW p \in Procs, BootFails(p)  PROVE DismissalsFlagged' /\ DismissedIsNoCrash'
  BY SMTT(30), <1>12 DEF BootFails, RunDone
<1>13. ASSUME NEW p \in Procs, ObserverWakes(p)  PROVE DismissalsFlagged' /\ DismissedIsNoCrash'
  BY SMTT(30), <1>0, <1>13 DEF ObserverWakes
<1>14. ASSUME NEW p \in Procs, ObserverRetires(p)  PROVE DismissalsFlagged' /\ DismissedIsNoCrash'
  BY SMTT(30), <1>14 DEF ObserverRetires, Retire
<1>15. ASSUME NEW p \in Procs, ObserverBegins(p)  PROVE DismissalsFlagged' /\ DismissedIsNoCrash'
  BY SMTT(30), <1>15 DEF ObserverBegins, BeginRecovery, Recoverable
<1>16. ASSUME NEW p \in Procs, ObserverEnds(p)  PROVE DismissalsFlagged' /\ DismissedIsNoCrash'
  BY SMTT(30), <1>16 DEF ObserverEnds, EndRecovery
<1>17. ASSUME NEW p \in Procs, ShutdownReaps(p)  PROVE DismissalsFlagged' /\ DismissedIsNoCrash'
  BY SMTT(30), <1>0, <1>17 DEF ShutdownReaps, Retire
<1>18. ASSUME NEW c \in Calls, OnSessionExit(c)  PROVE DismissalsFlagged' /\ DismissedIsNoCrash'
  BY SMTT(30), <1>18 DEF OnSessionExit
<1>19. ASSUME NEW c \in Calls, Retries(c)  PROVE DismissalsFlagged' /\ DismissedIsNoCrash'
  BY SMTT(30), <1>19 DEF Retries
<1>20. ASSUME NEW c \in Calls, EscalatesPermanent(c)  PROVE DismissalsFlagged' /\ DismissedIsNoCrash'
  BY SMTT(30), <1>20 DEF EscalatesPermanent
<1>21. ASSUME NEW c \in Calls, RetryCanceled(c)  PROVE DismissalsFlagged' /\ DismissedIsNoCrash'
  BY SMTT(30), <1>21 DEF RetryCanceled
<1>22. ASSUME NEW c \in Calls, DispatchRetry(c)  PROVE DismissalsFlagged' /\ DismissedIsNoCrash'
  BY SMTT(30), <1>22 DEF DispatchRetry, Launches, AdmitLaunch, Unused
<1>23. ASSUME NEW c \in Calls, Adopts(c)  PROVE DismissalsFlagged' /\ DismissedIsNoCrash'
  <2> DEFINE q == call[c].proc
  <2>1. q \in Procs /\ Booting(q) /\ q # bound /\ boot' = [boot EXCEPT ![q] = "none"]
    BY SMTT(30), <1>23 DEF Adopts
  <2>2. CASE closed
    <3>1. closed' /\ obs' = obs /\ dismissed' \subseteq dismissed \cup {q}
      BY <1>23, <2>2 DEF Adopts, Dismiss
    <3>2. obs[q] = "none"
      BY SMTT(30), <1>0, <2>1
    <3> QED  BY SMTT(30), <3>1, <3>2
  <2>3. CASE ~closed
    <3>1. /\ bound' = q /\ obs' = [obs EXCEPT ![q] = "waiting"]
          /\ call' = [call EXCEPT ![c] = CallIdle] /\ closed' = closed /\ run' = run
          /\ dismissed' \subseteq dismissed \cup {r \in Procs : r = bound /\ Alive(r)}
      BY <1>23, <2>3 DEF Adopts, Dismiss
    <3>2. q \notin dismissed'
      BY SMTT(30), <2>1, <2>3, <3>1
    <3>3. DismissalsFlagged'
      BY SMTT(30), <1>0, <2>1, <2>3, <3>1, <3>2
    <3>4. ASSUME NEW r \in Procs, obs'[r] = "recovering"  PROVE r \notin dismissed'
      <4>1. r # q /\ obs[r] = "recovering" /\ run[r] = "reaped"
        BY SMTT(30), <1>0, <2>1, <3>1, <3>4
      <4> QED  BY <3>1, <4>1
    <3> QED  BY <3>3, <3>4
  <2> QED  BY <2>2, <2>3
<1>24. ASSUME RebootStops  PROVE DismissalsFlagged' /\ DismissedIsNoCrash'
  BY SMTT(30), <1>0, <1>24 DEF RebootStops, Dismiss, Flagged
<1>25. ASSUME RebootEvicts  PROVE DismissalsFlagged' /\ DismissedIsNoCrash'
  BY SMTT(30), <1>25 DEF RebootEvicts, Retire
<1>26. ASSUME RebootGivesUp  PROVE DismissalsFlagged' /\ DismissedIsNoCrash'
  BY SMTT(30), <1>26 DEF CoreInv, RebootGivesUp
<1>27. ASSUME ArchiveHook  PROVE DismissalsFlagged' /\ DismissedIsNoCrash'
  BY SMTT(30), <1>0, <1>27 DEF ArchiveHook, CloseAgentSession, Dismiss
<1>28. ASSUME CloseAdmission  PROVE DismissalsFlagged' /\ DismissedIsNoCrash'
  BY <1>28 DEF CloseAdmission
<1>29. ASSUME ShutdownStops  PROVE DismissalsFlagged' /\ DismissedIsNoCrash'
  BY SMTT(30), <1>29 DEF CoreInv, ShutdownStops, Dismiss
<1>30. ASSUME UNCHANGED <<bound, closed, run, dismissed, boot, obs, displaced, rebooting, call>>
       PROVE  DismissalsFlagged' /\ DismissedIsNoCrash'
  BY SMTT(30), <1>30
<1> QED  BY <1>1, <1>2, <1>3, <1>4, <1>5, <1>6, <1>7, <1>8, <1>9, <1>10, <1>11, <1>12,
         <1>13, <1>14, <1>15, <1>16, <1>17, <1>18, <1>19, <1>20, <1>21, <1>22, <1>23,
         <1>24, <1>25, <1>26, <1>27, <1>28, <1>29, <1>30 DEF SessionNext,
         TurnStarts, TurnMoves, TurnLooksUp, TurnLoads, TurnChecksEnded,
         TurnBootRefused, TurnEnds, TurnStops, TurnStopped, RebootLoads, Archives, ShutdownReturns,
         ShutdownExpires

(* The invariant holds when the service starts.                            *)
LEMMA InitInv == SessionInit => SessionInv
<1> SUFFICES ASSUME SessionInit  PROVE SessionInv
  OBVIOUS
<1>1. SessionTypeOK
  <2>1. ManagerTypes /\ ProcTypes
    BY DEF SessionInit, ManagerTypes, ProcTypes
  <2>2. ChatTypes
    BY DEF SessionInit, ChatTypes
  <2>3. BrokerTypes
    BY SMTT(30) DEF SessionInit, BrokerTypes
  <2>4. EndTypes
    BY DEF SessionInit, EndTypes
  <2> QED  BY <2>1, <2>2, <2>3, <2>4 DEF SessionTypeOK
<1>2. CoreInv
  BY DEF SessionInit, CoreInv, RecoveryExclusive, NothingLeaks, Alive
<1>3. OneCaller
  BY DEF SessionInit, OneCaller
<1>4. DismissalsFlagged /\ DismissedIsNoCrash
  BY DEF SessionInit, DismissalsFlagged, DismissedIsNoCrash
<1> QED  BY <1>1, <1>2, <1>3, <1>4 DEF SessionInv

(* A step that changes nothing keeps the invariant.                        *)
LEMMA StutterInv == SessionInv /\ UNCHANGED sessionVars => SessionInv'
<1> SUFFICES ASSUME SessionInv, UNCHANGED sessionVars  PROVE SessionInv'
  OBVIOUS
<1> USE DEF sessionVars, SessionInv
<1>1. SessionTypeOK'
  BY SMTT(30) DEF SessionTypeOK, ManagerTypes, ProcTypes, ChatTypes, BrokerTypes, EndTypes
<1>2. CoreInv'
  BY DEF CoreInv, RecoveryExclusive, NothingLeaks, Tracked, Alive
<1>3. OneCaller'
  BY DEF OneCaller
<1>4. DismissalsFlagged' /\ DismissedIsNoCrash'
  BY DEF DismissalsFlagged, DismissedIsNoCrash, Booting
<1> QED  BY <1>1, <1>2, <1>3, <1>4

(* The invariant holds in every state of every behaviour, for any number   *)
(* of processes, any retry cap and any mix of broken streams, turns that   *)
(* stop their process, reboots, archives and shutdown.                     *)
THEOREM SessionInvariant == SessionSpec => []SessionInv
<1>1. SessionInv /\ [SessionNext]_sessionVars => SessionInv'
  BY TypeStep, CoreStep, CallerStep, FlagStep, StutterInv DEF SessionInv
<1> QED  BY InitInv, <1>1, PTL DEF SessionSpec

(* The managers, the bindings and the processes are well typed.           *)
THEOREM SessionTypes == SessionSpec => []SessionTypeOK
<1>1. SessionInv => SessionTypeOK
  BY DEF SessionInv
<1> QED  BY SessionInvariant, <1>1, PTL

(* No process runs that nobody can find, but the ones a cold boot evicts:  *)
(* adoption, refused adoption, reboot, archive and shutdown lose none.     *)
THEOREM ProcessesTracked == SessionSpec => []NothingLeaks
<1>1. SessionInv => NothingLeaks
  BY DEF SessionInv, CoreInv
<1> QED  BY SessionInvariant, <1>1, PTL

(* A recovery's lease excludes every binding, and its observer is there to *)
(* release it.                                                             *)
THEOREM LeaseExcludesBinding == SessionSpec => []RecoveryExclusive
<1>1. SessionInv => RecoveryExclusive
  BY DEF SessionInv, CoreInv
<1> QED  BY SessionInvariant, <1>1, PTL

(* No process dismissed by a replacement, a reboot that has not failed, an *)
(* archive or the shutdown reaches the broker as a crash, whatever turns   *)
(* stop processes without a flag meanwhile.                                *)
THEOREM DismissalsAreNoCrashes == SessionSpec => []DismissedIsNoCrash
<1>1. SessionInv => DismissedIsNoCrash
  BY DEF SessionInv
<1> QED  BY SessionInvariant, <1>1, PTL

(* A Shutdown that returns in time leaves nothing bound, nothing           *)
(* launching, and nothing running that was not dismissed or evicted.       *)
THEOREM ShutdownIsComplete == SessionSpec => []ShutdownLeavesNone
<1>1. SessionInv => ShutdownLeavesNone
  BY SMTT(30) DEF SessionInv, SessionTypeOK, ManagerTypes, CoreInv, NothingLeaks, Tracked, ShutdownLeavesNone
<1> QED  BY SessionInvariant, <1>1, PTL

=============================================================================
