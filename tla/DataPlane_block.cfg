SPECIFICATION Spec
CONSTANTS
  NQ = 1
  RxPolled <- NoPolled
  QueueNum = 2
  IdxMod = 4
  MaxPub = 2
  MaxRx = 0
  MaxReset = 1
  MaxRestart = 1
  MaxUnplug = 1
  MaxBad = 1
INVARIANTS CompletionsInOrder PendingIsSignalled
CHECK_DEADLOCK FALSE
