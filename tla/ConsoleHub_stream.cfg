SPECIFICATION FairSpec
CONSTANTS
  Session = {s1}
  Scrollback = 2
  TailBytes = 2
  SndBuf = 2
  MaxChip = 3
  MaxChunk = 2
  MaxTyped = 0
  MaxPark = 1
INVARIANTS  StreamComplete ScrollbackContiguous
PROPERTIES  ReplayEnds
CHECK_DEADLOCK FALSE
