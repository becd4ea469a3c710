CONSTANTS
  MaxSeq = 2
  MaxLines = 5
  MaxStarts = 2
SPECIFICATION RecorderSpec
INVARIANT Recoverable
CHECK_DEADLOCK FALSE
