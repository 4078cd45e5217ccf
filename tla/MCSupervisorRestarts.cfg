CONSTANTS
    LastPort = 2
    ConfigPort = 1
    Faults <- NoFaults
    Programs <- NoPrograms
    MaxRequests = 1
SPECIFICATION SupervisorSpec
PROPERTIES
    RestartsOnRequest
CHECK_DEADLOCK FALSE
