SPECIFICATION Spec
CONSTANTS
    f1 = f1
    f2 = f2
    f3 = f3
    e1 = e1
    e2 = e2
    Routers = {r1, r2}
    Admins = {a1}
    Failures = {f1}
    Events = {e1, e2}
    EventOf <- MCEventOf
    MaxEntries = 2
    InspectLimit = 2
    MaxThrows = 1
    RedisThrows = FALSE
    Clears = FALSE
INVARIANTS
    NothingLost
CHECK_DEADLOCK FALSE
