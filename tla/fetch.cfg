SPECIFICATION FairSpec
CONSTANTS
    q = q
    u = u
    d = d
    s = s
    A = A
    B = B
    C = C
    Null = Null
    Keys = {q, u, d, s}
    Single = {u, d}
    Required = {u, d}
    Scripts = {s}
    NoResult <- OldD
    Modifying = {u, s}
    TypeOf <- TypesBySchema
    Unfit <- NewD
    Broken = {C}
    Attempts <- TwoAttempts
    Modes <- FourModes
    CacheSize = 2
    MaxSchema = 1
    MaxCalls = 3
    MaxRows = 2
CHECK_DEADLOCK FALSE
INVARIANTS
    TypeOK
    ModifiesOnce
    OwnRows
    NothingLeft
PROPERTIES
    IsRecency
    EveryFetchEnds
