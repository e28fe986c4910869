SPECIFICATION Spec
CONSTANTS
  NCore = 2
  Rpc = {r1, r2}
  Main = main
  NoThread = none
  MaxOps = 3
  MaxReset = 2
  MaxSession = 1
  WarmStart <- FirstCore
SYMMETRY Symmetry
INVARIANTS MappingSafety
CHECK_DEADLOCK FALSE
