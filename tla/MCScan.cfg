SPECIFICATION Spec
CONSTANTS
    Chans <- MCChans
    HomePri = 1
    HomeWide = TRUE
    MaxQueue = 2
    MaxSwitch = 1
    Scenarios <- MCScenarios
INVARIANTS
    ScanSound
    ConnectionKept
    WakeupPending
CHECK_DEADLOCK FALSE
