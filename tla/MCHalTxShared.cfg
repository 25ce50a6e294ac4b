SPECIFICATION Spec
CONSTANTS
    EltNbr = 4
    BlockNbr = 3
    QueueNbr = 2
    MaxFrames = 3
    MaxAgg = 1
    Vids = {"v0", "v1"}
    IdNbr = 3
    Nodes = 4
    PageNbr = 1
    FramePages = 1
    SgMax = 4
    SgPages = 2
    SkipOver = 0
    NoQosOver = 0
    UpAt = 1
    Loads <- MCTwoLoads
INVARIANTS
    AccountsHonest
    KeptInOrder
CHECK_DEADLOCK FALSE
