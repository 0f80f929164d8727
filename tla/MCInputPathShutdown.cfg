CONSTANTS
    c1 = c1
    c2 = c2
    Call = {c1, c2}
    Neutral = Neutral
    Nil = Nil
    Nobody = Nobody
    MaxCmds = 1
    BufCap = 1
    WireCap = 1
    RateLimited = TRUE
    LinkFaults = 0
    HostStops = TRUE
SPECIFICATION Spec
INVARIANT ButtonsDoNotStick
CHECK_DEADLOCK FALSE
