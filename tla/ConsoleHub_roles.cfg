SPECIFICATION Spec
CONSTANTS
  Session = {s1, s2}
  Scrollback = 1
  TailBytes = 1
  SndBuf = 1
  MaxChip = 1
  MaxChunk = 1
  MaxTyped = 1
  MaxPark = 0
SYMMETRY Symmetry
INVARIANTS TypeOK OneWriter
PROPERTIES RoleMovesByAttachOnly
CHECK_DEADLOCK FALSE
