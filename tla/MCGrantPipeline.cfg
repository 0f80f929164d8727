CONSTANTS
    r1 = r1
    r2 = r2
    r3 = r3
    u1 = u1
    u2 = u2
    nobody = nobody
    Request = {r1, r2, r3}
    User = {u1, u2}
    UserOf <- MCUserOf
    Setups <- MCSetups
    Policies <- MCPolicies
    BatchSize = 1
    LowWatermark = 0
    MaxEvents = 1
    MaxCodes = 3
    MaxRare = 1
SPECIFICATION FairSpec
INVARIANTS
    DeliveredToOne
    SavedOrScheduled
PROPERTY RequestsEnd
CHECK_DEADLOCK FALSE
