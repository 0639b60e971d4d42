SPECIFICATION MCSpec
CONSTANTS
  N = 2
  CliGens = {1, 2}
  StopOps = {"turn"}
  SlowTurns = TRUE
  SlowRuntime = TRUE
  MayFailHistory = FALSE
  MayShutDown = FALSE
INVARIANTS
  TurnInv TurnExclusive IssuedBoundary
PROPERTIES
  TombstoneLifts
CHECK_DEADLOCK FALSE
