CONSTANTS
    LastPort = 2
    ConfigPort = 1
    Faults <- AllFaults
    Programs <- AllPrograms
    MaxRequests = 2
SPECIFICATION FairSupervisorSpec
INVARIANTS
    ChildIsOwned
    OneChild
    ChildIsWatched
PROPERTY
    ChildIsTornDown
CHECK_DEADLOCK FALSE
