SPECIFICATION Spec
CONSTANTS
    q1 = q1
    q2 = q2
    q3 = q3
    x1 = x1
    e1 = e1
    c1 = c1
    c2 = c2
    Null = Null
    Queries = {q1, q2}
    Transactions = {}
    Ensures = {}
    Closers = {c1}
    Parent <- NoParent
    UserConcurrency = 1
    Suggestions = {}
    MaxHolders = 1
    Attempts = 1
    AllowTerminate = FALSE
INVARIANTS
    CloseAwaitsCalls
