CONSTANTS
    c1 = c1
    c2 = c2
    c3 = c3
    v1 = v1
    v2 = v2
    Call = {c1, c2, c3}
    Viewer = {v1, v2}
    Sender = {c1, c2}
    ViewerOf <- SharedViewer
    MaxQueueDepth = 0
    PolicyReject = FALSE
    IdleKick = FALSE
    HeartbeatKick = FALSE
    NoEntry = NoEntry
SYMMETRY SharedSymmetry
CONSTRAINT RunningBetweenTicks
SPECIFICATION Spec
INVARIANT FifoAuthority
INVARIANT ForwardOnlyWhileController
INVARIANT NoOrphanGate
INVARIANT ReleaseDropsItsEntry
PROPERTY ImplementsAuthority
CHECK_DEADLOCK FALSE
