SPECIFICATION Spec
CONSTANTS
  Senders = {s1}
  Fdr = fdr
  Configs = {"bad", "names"}
  Reopens = {"LinkError"}
  MaxAddrs = 1
  MaxLinks = 2
  MaxSends = 2
  MaxOps = 1
INVARIANTS
  SentOnItsSocket
  SomeoneGoesOn
PROPERTIES
  DisposedForGood
CHECK_DEADLOCK FALSE
