CONSTANTS
    Process = {"wizard", "child", "other"}
    Waiting = {"child"}
    Client = {"child", "other"}
    MAX_POLLS = 5
    MaxClose = 1
    MaxLaunches = 2
SPECIFICATION LaunchSpec
INVARIANTS
    OneInstance
    GivesUpLast
    VersionTellsSchema
PROPERTY
    RowsAreKept
CHECK_DEADLOCK FALSE
