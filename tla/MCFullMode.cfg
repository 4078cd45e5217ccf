CONSTANTS
    LastPort = 1
    ConfigPort = 1
    Faults <- SlowLaunch
    Programs <- NoPrograms
    MaxRequests = 1
    CHANNEL_CAPACITY = 2
    Subscriber = {"gui", "poller"}
    MaxPolled = 1
SPECIFICATION FullModeSpec
INVARIANT
    StoppedMeansBasic
    ShutdownIsUnderWay
PROPERTY
    SupervisorSpec
CHECK_DEADLOCK FALSE
