SPECIFICATION Spec
CONSTANTS
  Msgs = {a}
  Rejected = {}
  Reactive = {}
  MaxAttempts = 2
  GiveUpAfter = 2
  MayCrash = FALSE
  MaxFaults = 1
INVARIANTS
  OneTurn
CHECK_DEADLOCK FALSE
