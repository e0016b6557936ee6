SPECIFICATION Spec
CONSTANTS
    probe = probe
    retry = retry
    fix = fix
    check = check
    review = review
    choose = choose
    each = each
    split = split
    cut = cut
    build = build
    sign = sign
    Steps = {retry, fix, check}
    Id <- MCId
    Kind <- MCKind
    Top <- LoopTop
    Bodies <- MCBodies
    ContinueOnError = {}
    OnReject <- MCOnReject
    Loose = {}
    MaxIterations = 2
    MaxItems = 0
    MaxStops = 1
INVARIANTS
    GatesAnswered
CHECK_DEADLOCK FALSE
