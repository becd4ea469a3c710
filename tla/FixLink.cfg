CONSTANTS
  NoReplaySides = {}
  ForeignSides = {"A"}
  MaxLogonTestCount = 2
  HbTestRequestCount = 1
  AppSides = {"A", "I"}
  AppKinds = {"Report", "Order"}
  AppStates = {3, 4, 5}
  MaxSeq = 8
  MaxApp = 2
  MaxLinks = 2
  MaxTicks = 1
  MaxCommands = 0
  ResetTo = {}
SPECIFICATION Spec
INVARIANTS ReportsOnceInOrder NeverAhead
PROPERTY ReadyAfterRecovery
CHECK_DEADLOCK FALSE
