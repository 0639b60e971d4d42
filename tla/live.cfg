SPECIFICATION MCSpec
CONSTANTS
  N = 3
  CliGens = {}
  StopOps = {"chat"}
  SlowTurns = FALSE
  SlowRuntime = FALSE
  MayFailHistory = FALSE
  MayShutDown = FALSE
PROPERTIES
  SlotFrees EveryTurnEnds CancelAnswered
CHECK_DEADLOCK FALSE
