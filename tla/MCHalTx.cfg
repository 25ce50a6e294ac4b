SPECIFICATION FairSpec
CONSTANTS
    EltNbr = 4
    BlockNbr = 3
    QueueNbr = 1
    MaxFrames = 4
    MaxAgg = 2
    Vids = {"v0"}
    IdNbr = 2
    Nodes = 4
    PageNbr = 3
    FramePages = 1
    SgMax = 4
    SgPages = 2
    SkipOver = 0
    NoQosOver = 0
    UpAt = 1
    Loads <- MCOneQueue
INVARIANTS
    ResourcesConserved
    OnceAndInOrder
PROPERTIES
    EveryFrameHandedBack
CHECK_DEADLOCK FALSE
