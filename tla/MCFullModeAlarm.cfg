CONSTANTS
    LastPort = 1
    ConfigPort = 1
    Faults <- NoFaults
    Programs <- NoPrograms
    MaxRequests = 1
    CHANNEL_CAPACITY = 4
    Subscriber = {"gui", "poller"}
    MaxPolled = 0
SPECIFICATION FullModeSpec
INVARIANTS
    NoFalseAlarm
CHECK_DEADLOCK FALSE
