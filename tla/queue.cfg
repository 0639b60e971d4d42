SPECIFICATION MCSpec
CONSTANTS
  N = 3
  CliGens = {}
  StopOps = {"chat"}
  SlowTurns = TRUE
  SlowRuntime = FALSE
  MayFailHistory = FALSE
  MayShutDown = FALSE
INVARIANTS
  MutualExclusion StopReachesAll QueueInv
PROPERTIES
  ImplementsTurnQueue
CHECK_DEADLOCK FALSE
