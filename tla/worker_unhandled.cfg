SPECIFICATION Spec
CONSTANTS
    j1 = j1
    j2 = j2
    j3 = j3
    e1 = e1
    e2 = e2
    Jobs = {j3}
    Slots = {s1}
    Events = {e1, e2}
    EventOf <- MCEventOf
    Handled = {e1}
    MaxAttempts = 2
    QueueAttempts = 2
    MaxStalled = 1
    LiveStalls = FALSE
    MaxMishaps = 0
INVARIANTS
    UnhandledReachesDlq
VIEW NoCounters
CHECK_DEADLOCK FALSE
