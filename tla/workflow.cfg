SPECIFICATION FairSpec
CONSTANTS
    probe = probe
    retry = retry
    fix = fix
    check = check
    review = review
    choose = choose
    each = each
    split = split
    cut = cut
    build = build
    sign = sign
    Steps <- MCSteps
    Id <- MCId
    Kind <- MCKind
    Top <- MCTop
    Bodies <- MCBodies
    ContinueOnError = {probe, sign}
    OnReject <- MCOnReject
    Loose = {check}
    MaxIterations = 2
    MaxItems = 2
    MaxStops = 4
INVARIANTS
    TypeOK
    CompletedMeansAllDone
    NothingRunsOnceStopped
    ItemIsCurrent
PROPERTIES
    OneStepAtATime
    RejectionAborts
    FinalIsFinal
    RunsEnd
CHECK_DEADLOCK FALSE
