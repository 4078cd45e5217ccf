CONSTANTS
    LastPort = 1
    ConfigPort = 1
    Faults <- SlowLaunch
    Programs <- UserPrograms
    MaxRequests = 1
    CHANNEL_CAPACITY = 4
    Subscriber = {"gui", "poller"}
    MaxPolled = 0
SPECIFICATION FairFullModeSpec
INVARIANTS
    TiersSettle
PROPERTY
    ChildDeathIsSeen
CHECK_DEADLOCK FALSE
