CONSTANTS
  Timers = {t1, t2}
  Clients = {c1}
  Intervals = {1}
  OneBehind = FALSE
  MaxTime = 1
  MaxRuns = 2
  Ends = TRUE
SPECIFICATION FairTimerSpec
INVARIANTS LineMatchesKeys NeverSleepsOverATimer StoppedIsQuiet
PROPERTIES DisposedForGood TimerPromises
CHECK_DEADLOCK FALSE
