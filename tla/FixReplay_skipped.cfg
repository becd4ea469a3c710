CONSTANTS
  MaxSent = 4
  MaxReplays = 1
SPECIFICATION Spec
INVARIANT NoReportSkipped
CHECK_DEADLOCK FALSE
