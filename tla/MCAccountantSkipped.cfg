CONSTANTS
    Luid = {a1}
    Dir = {rx}
    Dates <- CycleAndNextButOne
    Rules <- FirstOfMonth
    HistoryKeep = 1
    ChannelCap = 1
    Faults <- NoFaults
    ViewAttached = FALSE
    ClockMayGoBack = FALSE
    Nil = Nil
    MaxMoved = 1
    MaxStarts = 2
SPECIFICATION Spec
PROPERTIES
    SkippedRowsAreArchived
CHECK_DEADLOCK FALSE
