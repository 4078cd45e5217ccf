CONSTANTS
    Luid = {a1}
    Dir = {rx}
    Dates <- CycleAndNextButOne
    Rules <- FirstOfMonth
    HistoryKeep = 1
    ChannelCap = 1
    Faults <- ReadAndArchiveFaults
    ViewAttached = TRUE
    ClockMayGoBack = FALSE
    Nil = Nil
    MaxMoved = 1
    MaxStarts = 1
SPECIFICATION FairSpec
PROPERTIES
    ArchivesTheTail
    TurnsOverOrTells
    CatchesUp
CHECK_DEADLOCK FALSE
