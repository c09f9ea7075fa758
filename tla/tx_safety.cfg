SPECIFICATION Spec
CONSTANTS
    Calls = {t1, t2}
    Attempts <- TwoAndThree
    MaxQueries = 2
    Overlap = FALSE
    Null = Null
SYMMETRY CallSymmetry
INVARIANTS
    TypeOK
    AnswerIsOwn
    CommittedOnce
    ResolvedIsCommitted
    RejectedIsRolledBack
    NothingStray
    CleanWhenFree
PROPERTY
    CommitsWhatWasDone
