SPECIFICATION Spec
CONSTANTS
  NCore = 2
  Rpc = {r1, r2}
  Main = main
  NoThread = none
  MaxOps = 3
  MaxReset = 2
  MaxSession = 1
  WarmStart <- NoCores
SYMMETRY Symmetry
INVARIANTS TypeOK ColdMappingSafety BootedIsReleased ColdChipOpenInResetX280
PROPERTIES ReleaseIsFinal
CHECK_DEADLOCK FALSE
