CONSTANTS
    Luid = {a1}
    Dir = {rx}
    Dates <- ThreeDates
    Rules <- FirstOrMiddle
    HistoryKeep = 1
    ChannelCap = 1
    Faults <- WriteFaults
    ViewAttached = FALSE
    ClockMayGoBack = FALSE
    Nil = Nil
    MaxMoved = 3
    MaxStarts = 2
SPECIFICATION Spec
INVARIANTS
    NoPhantomBytes
    NoAdvanceOverRows
PROPERTY
    PersistedNeverFalls
CHECK_DEADLOCK FALSE
