CONSTANTS
    Rules <- MCRules
    FirstDay <- MCFirstDay
    LastYear = 2027
SPECIFICATION Spec
INVARIANTS
    StartIsMostRecent
    InferRecoversRule
PROPERTY
    CyclesTile
CHECK_DEADLOCK FALSE
