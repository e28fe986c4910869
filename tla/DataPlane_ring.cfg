SPECIFICATION Spec
CONSTANTS
  NQ = 1
  RxPolled <- NoPolled
  QueueNum = 2
  IdxMod = 4
  MaxPub = 5
  MaxRx = 0
  MaxReset = 0
  MaxRestart = 0
  MaxUnplug = 1
  MaxBad = 0
INVARIANTS TypeOK CompletionsInOrder
CHECK_DEADLOCK FALSE
