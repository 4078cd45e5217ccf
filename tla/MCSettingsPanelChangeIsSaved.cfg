SPECIFICATION SettingsSpec
CONSTANTS
    Displays <- TwoDisplays
    Panel = {1}
    Typed = {0}
    MaxChanges = 3
    MaxFaults = 1
    MaxLaunches = 2
PROPERTY
    PanelChangeIsSaved
CHECK_DEADLOCK FALSE
