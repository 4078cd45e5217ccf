CONSTANT
    MaxNow = 62
SPECIFICATION FairShutdownSpec
INVARIANT
    FlushHasItsTime
PROPERTIES
    ExitsInTime
    RequestIsCarriedOut
    ProcessEnds
CHECK_DEADLOCK FALSE
