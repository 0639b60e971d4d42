SPECIFICATION FairSpec
CONSTANTS
  N = 2
  CliGens = {}
  StopOps = {"chat"}
  SlowTurns = TRUE
  SlowRuntime = FALSE
  MayFailHistory = FALSE
  MayShutDown = FALSE
PROPERTIES
  SessionFrees
CHECK_DEADLOCK FALSE
