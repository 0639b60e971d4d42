SPECIFICATION FairSpec
CONSTANTS
  Engines = {e1, e2}
  Schedules = {s}
  MaxTime = 2
  MaxAttempts = 2
  MaxFaults = 1
  MaxEdits = 1
INVARIANTS
  TypeOK
  OneOutcome
  LeaseExclusive
  ReceiptRespected
  FireInv
PROPERTIES
  PausedNeverFires
  FireSettles
CHECK_DEADLOCK FALSE
