SPECIFICATION FairSpec
CONSTANTS
    Senders = {s1, s2}
    Scenarios <- MCScenarios
    MaxSp = 2
    AgeInit = 2
    MaxQueue = 2
INVARIANT PeerSound
PROPERTY FramesReachPeer
CHECK_DEADLOCK FALSE
