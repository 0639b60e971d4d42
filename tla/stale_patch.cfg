SPECIFICATION FairSpec
CONSTANTS
  Engines = {e1, e2}
  Schedules = {s}
  MaxTime = 1
  MaxAttempts = 1
  MaxFaults = 0
  MaxEdits = 1
PROPERTY DueFires
CHECK_DEADLOCK FALSE
