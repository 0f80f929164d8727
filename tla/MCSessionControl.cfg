CONSTANTS
    c1 = c1
    c2 = c2
    c3 = c3
    v1 = v1
    v2 = v2
    Call = {c1, c2, c3}
    Viewer = {c1, c2, c3}
    Sender = {c1, c2}
    ViewerOf <- OwnViewer
    MaxQueueDepth = 1
    PolicyReject = FALSE
    IdleKick = TRUE
    HeartbeatKick = TRUE
    NoEntry = NoEntry
SYMMETRY SharedSymmetry
CONSTRAINT OneLateCall
SPECIFICATION Spec
INVARIANT TypeOK
INVARIANT NoSendOnClosedEvents
INVARIANT IdleTimerOfControllerOnly
INVARIANT EventsTellTheTruth
PROPERTY EndedOnItsOwnAccount
CHECK_DEADLOCK FALSE
