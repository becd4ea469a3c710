SPECIFICATION FairSpec
CONSTANTS
  Callers = {c1, c2, c3}
  Pool = {p1, p2}
  Kinds = {"Get", "Set", "Send", "Recv"}
  MaxTasks = 4
  MaxDirect = 1
INVARIANTS OpSafe NoLostWakeup OneCallInFlight RunInOrder
PROPERTIES ImplementsSerialOps CallersAreServed
CHECK_DEADLOCK FALSE
