SPECIFICATION SessionSpec
CONSTANTS
  Procs = {p1, p2, p3}
  NoProc = NoProc
  MaxRetries = 1
  Scenarios = {{}}
INVARIANTS
  NoneUntracked
SYMMETRY Symmetry
CHECK_DEADLOCK FALSE
