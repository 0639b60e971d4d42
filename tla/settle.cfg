SPECIFICATION MCSpec
CONSTANTS
  Msgs = {a, b}
  Rejected = {b}
  Reactive = {2}
  MaxAttempts = 2
  GiveUpAfter = 2
  MayCrash = TRUE
  MaxFaults = 1
  Tabs = {a, b}
  MaxConns = 2
  Ring = 1
  Headroom = 0
  ProduceCap = 1
  MaxEvents = 1
  MaxOpens = 2
  MaxDrops = 1
  MaxMessages = 3
  MaxBroadcasts = 1
  Procs = {p1, p2}
  NoProc = NoProc
INVARIANTS
  BridgeInv RejectedNeverWakes
  IndexInv IndexExact BroadcastReachesTurn
PROPERTIES
  Settled TabsSettle ShutdownEnds
CHECK_DEADLOCK FALSE
