SPECIFICATION Spec
CONSTANTS
  N = 2
  CliGens = {1, 2}
  StopOps = {"chat"}
  SlowTurns = FALSE
  SlowRuntime = FALSE
  MayFailHistory = FALSE
  MayShutDown = FALSE
INVARIANTS
  NoBystanderHit
CHECK_DEADLOCK FALSE
