SPECIFICATION FairSpec
PROPERTIES PendingsAreGiven LogWrittenAndWoken AskedIsDone LogonsAndLinksEnd SubscribersAreTold
CHECK_DEADLOCK FALSE
