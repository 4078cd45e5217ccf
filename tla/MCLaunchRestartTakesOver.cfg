CONSTANTS
    Process = {"wizard", "child", "other"}
    Waiting = {"child"}
    Client = {"child", "other"}
    MAX_POLLS = 5
    MaxClose = 1
    MaxLaunches = 1
SPECIFICATION FairLaunchSpec
PROPERTY
    RestartTakesOver
CHECK_DEADLOCK FALSE
