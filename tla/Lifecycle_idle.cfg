SPECIFICATION Spec
CONSTANTS
  NCore = 2
  Rpc = {r1}
  Main = main
  NoThread = none
  MaxOps = 2
  MaxReset = 2
  MaxSession = 1
  WarmStart <- NoCores
PROPERTIES IdleOnlyWhenHeld
CHECK_DEADLOCK FALSE
