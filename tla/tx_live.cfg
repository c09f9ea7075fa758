SPECIFICATION FairSpec
CONSTANTS
    Calls = {t1, t2}
    Attempts <- TwoAttempts
    MaxQueries = 1
    Overlap = TRUE
    Null = Null
PROPERTY
    EveryCallEnds
