SPECIFICATION SessionSpec
CONSTANTS
  Procs = {p1, p2, p3}
  NoProc = NoProc
  MaxRetries = 1
  Scenarios = {{"break", "stop"}, {"reboot", "archive"}, {"reboot", "shutdown"}}
INVARIANTS
  SessionTypeOK NothingLeaks RecoveryExclusive DismissedIsNoCrash ShutdownLeavesNone SessionInv
SYMMETRY Symmetry
CHECK_DEADLOCK FALSE
