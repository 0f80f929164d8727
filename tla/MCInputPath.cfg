CONSTANTS
    c1 = c1
    c2 = c2
    Call = {c1, c2}
    Neutral = Neutral
    Nil = Nil
    Nobody = Nobody
    MaxCmds = 2
    BufCap = 1
    WireCap = 1
    RateLimited = TRUE
    LinkFaults = 1
    HostStops = TRUE
SPECIFICATION FairSpec
INVARIANTS
    NeutralAfterDrains
    NoLostWakeup
PROPERTY ConsoleReleased
CONSTRAINT OneFailure
CHECK_DEADLOCK FALSE
