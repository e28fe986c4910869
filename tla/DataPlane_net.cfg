SPECIFICATION FairSpec
CONSTANTS
  NQ = 2
  RxPolled <- RxQueue
  QueueNum = 2
  IdxMod = 4
  MaxPub = 2
  MaxRx = 1
  MaxReset = 0
  MaxRestart = 0
  MaxUnplug = 0
  MaxBad = 0
INVARIANTS CompletionsInOrder PendingIsSignalled
PROPERTIES RxDelivered ChainsComplete
CHECK_DEADLOCK FALSE
