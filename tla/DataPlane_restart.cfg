SPECIFICATION Spec
CONSTANTS
  NQ = 1
  RxPolled <- NoPolled
  QueueNum = 2
  IdxMod = 4
  MaxPub = 3
  MaxRx = 0
  MaxReset = 0
  MaxRestart = 1
  MaxUnplug = 0
  MaxBad = 0
INVARIANTS CompletionsValid
CHECK_DEADLOCK FALSE
