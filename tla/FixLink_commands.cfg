CONSTANTS
  NoReplaySides = {"I"}
  ForeignSides = {}
  MaxLogonTestCount = 2
  HbTestRequestCount = 1
  AppSides = {"I"}
  AppKinds = {"Report"}
  AppStates = {5}
  MaxSeq = 7
  MaxApp = 1
  MaxLinks = 2
  MaxTicks = 1
  MaxCommands = 1
  ResetTo = {1}
SPECIFICATION FairSpec 
INVARIANT QuietAgree 
PROPERTY RecoveringEnds
CHECK_DEADLOCK FALSE
