CONSTANTS
    LastPort = 1
    ConfigPort = 1
    Faults <- LaunchFaults
    Programs <- NoPrograms
    MaxRequests = 1
    CHANNEL_CAPACITY = 4
    Subscriber = {"gui", "poller"}
    MaxPolled = 0
SPECIFICATION FairFullModeSpec
PROPERTIES
    LaunchFailureIsShown
CHECK_DEADLOCK FALSE
