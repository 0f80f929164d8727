CONSTANTS
    p1 = p1
    p2 = p2
    FrameCap = 1
    PacketCap = 1
    MaxSeq = 2
    MaxAuth = 2
    CommandBuffer = 1
    StateBuffer = 4
    LateStates = 1
    Player = {p1, p2}
    NoPlayer = NoPlayer
    EventBuffer = 2
    PairPIN = TRUE
    KickRetries = 2
    HttpAttempts = 2
    MaxRefused = 1
    MaxErrors = 1
    Lo = 2
    Hi = 9
    Start = 4
    Step = 2
    Base = 10
    Factor = 8
    Least = 0
    Cooldown = 3
    CleanWindow = 2
    MaxPictures = 3
    Segments = 5
    PageSize = 3
    AudioRuns = 2
    AudioCap = 2
    FrameBuffers = 2
    t1 = t1
    t2 = t2
    r1 = r1
    r2 = r2
    r3 = r3
    v1 = v1
    b1 = b1
    b2 = b2
    k1 = k1
    k2 = k2
    Code = {t1, t2}
    Redeem = {r1, r2, r3}
    Revoke = {v1}
    Beat = {b1, b2}
    Kick = {k1, k2}
    CodeOf <- CodeOfMC
    NoViewer = NoViewer
    DbFaults = TRUE
    MaxRestarts = 1
SPECIFICATION HostSpec
INVARIANTS
    HostTypeOK
    OneSubprocess
    RequestApplied
    DisconnectNoticed
    ChunkingInvisible
    PacketsWhole
    BuffersAccounted
    TypeOK
    RowsConsistent
    KickNotLost
PROPERTIES
    QueuedKeyframeKept
    NoSendAfterClose
    InputInOrder
    EndedIsKicked
    IncreaseAfterCleanWindow
    ShutdownCompletes
    ViewerLeavesNothing
    RedeemedForGood
CONSTRAINT FewLate
CHECK_DEADLOCK FALSE
