SPECIFICATION FairSpec
CONSTANTS
    f1 = f1
    f2 = f2
    f3 = f3
    e1 = e1
    e2 = e2
    Routers = {r1, r2}
    Admins = {a1, a2}
    Failures = {f1, f2, f3}
    Events = {e1, e2}
    EventOf <- MCEventOf
    MaxEntries = 2
    InspectLimit = 2
    MaxThrows = 1
    RedisThrows = TRUE
    Clears = TRUE
INVARIANTS
    TypeOK
    LossBounded
    PoisonNeverOvercounts
    RepublishedOnceEach
PROPERTIES
    CallsEnd
CHECK_DEADLOCK FALSE
