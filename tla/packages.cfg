SPECIFICATION Spec
CONSTANTS
    wrapper = wrapper
    plain = plain
    w = w
    s = s
    team = team
    solo = solo
    Presets = {wrapper, plain}
    Rank <- MCRank
    Names = {"plan", "sync"}
    CoreNames = {"plan"}
    ExtNames = {"sync"}
    Strategy <- MCStrategy
    Priorities = {1, 2}
    Priority = 2
    Workflows = {w}
    StepTypes = {s}
    Bundles = {team, solo}
    Plans <- MCPlans
    MaxActs = 4
    MaxFaults = 1
INVARIANTS
    FilesFollowStack
    RecordedInstalled
    FailureLeavesNothing
PROPERTIES
    NoCollateral
CHECK_DEADLOCK FALSE
