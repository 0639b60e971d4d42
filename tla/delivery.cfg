SPECIFICATION MCSpec
CONSTANTS
  Msgs = {a, b}
  Rejected = {}
  Reactive = {2}
  MaxAttempts = 2
  GiveUpAfter = 2
  MayCrash = TRUE
  MaxFaults = 1
  Tabs = {t1, t2}
  MaxConns = 2
  Ring = 2
  Headroom = 1
  ProduceCap = 1
  MaxEvents = 3
  MaxOpens = 2
  MaxDrops = 1
INVARIANTS
  NothingLost ConsumedMeansDelivered OneMailboxRow
  StreamInv NoSilentLoss InOrderOnce TakeoverTold ReplayFits
SYMMETRY Symmetry
CHECK_DEADLOCK FALSE
