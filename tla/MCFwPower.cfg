SPECIFICATION FairSpec
CONSTANTS
    VifNbr = 2
    Budgets <- MCBudgets
    PushFails = {"DOZE", "PARAM"}
PROPERTIES
    RequestsKept
    QuietWhileSuspended
    FramesLeave
CHECK_DEADLOCK FALSE
