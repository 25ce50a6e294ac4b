SPECIFICATION MCSpec
CONSTANTS
    Threads = {t1, t2}
    MaxCalls = 4
    a = a
    b = b
    s1 = s1
    s2 = s2
    Senders = {s1, s2}
    SubMaxes = {1, 2}
    TmpMax = 2
INVARIANTS
    CancelledIsQuiet
    ActiveIsArmed
    AmsduSound
PROPERTIES
    ArmedRuns
    MsdusLeave
CHECK_DEADLOCK FALSE
