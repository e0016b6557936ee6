SPECIFICATION Spec
CONSTANTS
    j1 = j1
    j2 = j2
    j3 = j3
    e1 = e1
    e2 = e2
    Jobs = {j1, j2}
    Slots = {s1, s2}
    Events = {e1}
    EventOf <- MCEventOf
    Handled = {e1}
    MaxAttempts = 2
    QueueAttempts = 2
    MaxStalled = 1
    LiveStalls = TRUE
    MaxMishaps = 2
INVARIANTS
    TypeOK
    DuplicationBounded
    DlqMeansFailed
    OneDlqEntry
    FailedMeansRouted
PROPERTIES
    ImplementsIdempotency
VIEW NoCounters
SYMMETRY AnySlotOrJob
CHECK_DEADLOCK FALSE
