SPECIFICATION FairSpec
CONSTANTS
    j1 = j1
    j2 = j2
    j3 = j3
    e1 = e1
    e2 = e2
    Jobs = {j1, j3}
    Slots = {s1, s2}
    Events = {e1, e2}
    EventOf <- MCEventOf
    Handled = {e1}
    MaxAttempts = 2
    QueueAttempts = 2
    MaxStalled = 1
    LiveStalls = TRUE
    MaxMishaps = 1
INVARIANTS
    MetricsBalance
PROPERTIES
    JobsSettle
CHECK_DEADLOCK FALSE
