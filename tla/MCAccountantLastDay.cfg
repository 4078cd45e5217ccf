CONSTANTS
    Luid = {a1}
    Dir = {rx}
    Dates <- ThreeDates
    Rules <- FirstOfMonth
    HistoryKeep = 1
    ChannelCap = 1
    Faults <- NoFaults
    ViewAttached = FALSE
    ClockMayGoBack = FALSE
    Nil = Nil
    MaxMoved = 1
    MaxStarts = 1
SPECIFICATION Spec
PROPERTIES
    LastDayBelongsToCycle
CHECK_DEADLOCK FALSE
