SPECIFICATION MCSpec
CONSTANTS
    EltNbr = 5
    BlockNbr = 3
    MaxBatch = 2
    WorkEltNbr = 3
    Producers = {p1, p2}
    MaxItems = 2
    FDN = 9
    Sram = 6
    Block = 3
    Once = 3
    Bufferable = 0
    Lengths = {2, 4}
    MaxFrames = 3
    MaxSuspends = 1
    MaxNoMemory = 1
INVARIANTS
    Exclusive
    TestStaysValid
    QueueSound
    RxFifoSound
PROPERTIES
    Pipeline
    WorkEnds
    CommittedGoesUp
CHECK_DEADLOCK FALSE
