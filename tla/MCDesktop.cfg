SPECIFICATION DesktopSpec
CONSTANTS
    MaxReads = 2
    Displays <- TwoDisplays
    Panel = {1}
    Typed = {0}
    MaxChanges = 3
    MaxFaults = 1
    MaxLaunches = 2
    Metric = {"cpu", "gpu", "ram"}
    MaxRows = 3
    MaxDrops = 2
    Temperatures = {74, 75, 80, 95}
    Rates = {124999, 125000, 125001}
    Mbps = {0, 1}
    Marks = {80, 85, 95}
    MaxNow = 450
    MaxSaveFaults = 1
    MaxStarts = 1
    Source = {"wifi", "usb", "cpu"}
    MetricOf <- KindOfSource
    Plugged <- PluggedSources
    ReadingsCapacity = 2
    WindowSize = 3
    Pixels = {1, 2}
    MaxTicks = 4
    Bindable = {"click_through", "show", "close"}
    Spellings <- SomeSpellings
    MaxPresses = 2
    MaxRefusals = 1
    Ports = {17127, 17128}
    MaxPatches = 2
    MaxFailures = 2
INVARIANTS
    DesktopTypeOK
    RatesHaveABase
    MemoryReachesDisk
    WindowsFollowReadings
    PressesKeepTheirOrder
    LaunchedServes
PROPERTIES
    SetupIsKept
    OthersKeepTheirOrder
    AlarmsAreShown
    QuietIsKept
    ExitReturns
CHECK_DEADLOCK FALSE
