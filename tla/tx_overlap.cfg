SPECIFICATION Spec
CONSTANTS
    Calls = {t1, t2}
    Attempts <- OneAttempt
    MaxQueries = 1
    Overlap = TRUE
    Null = Null
INVARIANT
    ResolvedIsCommitted
