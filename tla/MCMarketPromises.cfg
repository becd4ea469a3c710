SPECIFICATION FairSpec
PROPERTIES PendingsAreRecovered OrdersAndReportsDone
CHECK_DEADLOCK FALSE
