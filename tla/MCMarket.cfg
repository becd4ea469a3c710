SPECIFICATION Spec
INVARIANTS FeedInOrder RecoverGoesOn SnapshotThenRealTime TmpNumbersGoOn
CHECK_DEADLOCK FALSE
