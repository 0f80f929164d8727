CONSTANTS
    c1 = c1
    c2 = c2
    c3 = c3
    v1 = v1
    v2 = v2
    Call = {c1, c2}
    Viewer = {c1, c2}
    Sender = {c1, c2}
    ViewerOf <- OwnViewer
    MaxQueueDepth = 0
    PolicyReject = FALSE
    IdleKick = FALSE
    HeartbeatKick = FALSE
    NoEntry = NoEntry
SPECIFICATION Spec
INVARIANT ReleaseFreesSlot
CONSTRAINT Running
CHECK_DEADLOCK FALSE
