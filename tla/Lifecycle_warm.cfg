SPECIFICATION FairSpec
CONSTANTS
  NCore = 2
  Rpc = {r1}
  Main = main
  NoThread = none
  MaxOps = 2
  MaxReset = 2
  MaxSession = 2
  WarmStart <- FirstCore
  
PROPERTIES ReleaseIsFinal 
CHECK_DEADLOCK FALSE
