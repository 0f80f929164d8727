CONSTANTS
    v1 = v1
    v2 = v2
    Viewer = {v1, v2}
    MaxQueue = 3
    MaxFaults = 2
SPECIFICATION FairSpec
INVARIANTS
    AnswerMatchesPeer
    HelloNotLost
    OfferNotHidden
PROPERTY Connects
CONSTRAINT QuietSecond
CHECK_DEADLOCK FALSE
