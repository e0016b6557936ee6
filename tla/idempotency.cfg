SPECIFICATION Spec
CONSTANTS
    Executors = {w1, w2, w3}
    Events = {e1, e2}
    LocksOutliveRuns = TRUE
INVARIANTS
    IInv
    OneRunner
    NoRunOnceRecorded
PROPERTIES
    RecordIsFinal
    ImplementsOnceExecution
