CONSTANTS
    Luid = {a1, a2}
    Dir = {rx}
    Dates <- ThreeDates
    Rules <- FirstOfMonth
    HistoryKeep = 1
    ChannelCap = 1
    Faults <- ReadAndArchiveFaults
    ViewAttached = FALSE
    ClockMayGoBack = FALSE
    Nil = Nil
    MaxMoved = 1
    MaxStarts = 1
SPECIFICATION Spec
SYMMETRY Symmetry
INVARIANT
    TypeOK
PROPERTIES
    ArchivesTheTail
CHECK_DEADLOCK FALSE
