SPECIFICATION Spec
CONSTANTS
    d = d
    c = c
    m = m
    x = x
    None = None
    Urls = {d, c, m}
    Default = d
    Community = c
    Rank <- MCRank
    Items = {x}
    Lists <- MCLists
    UserFiles <- MCUserFiles
    Duration = 1
    Priorities = {1, 2}
    Written <- MCWritten
    MaxTime = 2
    MaxActs = 3
    MaxFaults = 1
INVARIANTS
    CacheAge
PROPERTIES
    AllowedOnly
    ConfigAsListed
CHECK_DEADLOCK FALSE
