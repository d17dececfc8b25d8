SPECIFICATION RetrySpec
CONSTANTS
    MaxReschedule = 2
    AutoRun = TRUE
    MaxRoots = 2
PROPERTY RetriedToTheEnd
CHECK_DEADLOCK FALSE
