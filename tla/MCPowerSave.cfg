SPECIFICATION FairSpec
CONSTANTS
    UserModes = {"NONE", "NORMAL"}
    Budgets <- MCBudgets
    MaxNulls = 2
PROPERTIES FramesLeave BufferedFetched SleepsWhenIdle
