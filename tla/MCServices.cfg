SPECIFICATION Spec
INVARIANTS TradingOnceInOrder FilesWritten ReplayLeavesNoGap PoolTakesAll SchTellsRight RcPlacesKept ServerKeepsItsClients SubscriptionsAgree
PROPERTIES TradingHelpsOne
CHECK_DEADLOCK FALSE
