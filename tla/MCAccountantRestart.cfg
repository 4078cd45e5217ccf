CONSTANTS
    Luid = {a1}
    Dir = {rx}
    Dates <- FourDates
    Rules <- FirstOrMiddle
    HistoryKeep = 1
    ChannelCap = 1
    Faults <- NoFaults
    ViewAttached = FALSE
    ClockMayGoBack = FALSE
    Nil = Nil
    MaxMoved = 1
    MaxStarts = 3
SPECIFICATION Spec
PROPERTIES
    RestartResumesCycle
CHECK_DEADLOCK FALSE
