SPECIFICATION BawFairSpec
CONSTANTS
    SeqMax = 16
    FirstSeq = 13
    BufNbr = 8
    Baw = 4
    Subframes = 2
    HalSize = 5
    Queue = 0
    MaxFrames = 4
PROPERTY BurstsLeave
INVARIANT WindowSound
CHECK_DEADLOCK FALSE
