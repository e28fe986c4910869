SPECIFICATION FairSpec
CONSTANTS
  Session = {s1}
  Scrollback = 2
  TailBytes = 1
  SndBuf = 1
  MaxChip = 2
  MaxChunk = 2
  MaxTyped = 0
  MaxPark = 0
PROPERTIES DroppedClientSeesEof
CHECK_DEADLOCK FALSE
