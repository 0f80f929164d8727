CONSTANTS
    t1 = t1
    t2 = t2
    r1 = r1
    r2 = r2
    r3 = r3
    v1 = v1
    b1 = b1
    b2 = b2
    k1 = k1
    k2 = k2
    Code = {t1}
    Redeem = {r1, r2}
    Revoke = {v1}
    Beat = {}
    Kick = {}
    CodeOf <- CodeOfMC
    NoViewer = NoViewer
    DbFaults = TRUE
    MaxRestarts = 0
SPECIFICATION Spec
INVARIANT RedeemedOnce
CHECK_DEADLOCK FALSE
