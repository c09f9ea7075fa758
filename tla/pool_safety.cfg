SPECIFICATION Spec
CONSTANTS
    q1 = q1
    q2 = q2
    q3 = q3
    x1 = x1
    e1 = e1
    c1 = c1
    c2 = c2
    Null = Null
    Queries = {q1, q2}
    Transactions = {x1}
    Ensures = {e1}
    Closers = {c1, c2}
    Parent <- NoParent
    UserConcurrency = Null
    Suggestions = {2}
    MaxHolders = 2
    Attempts = 2
    AllowTerminate = TRUE
SYMMETRY QuerySymmetry
INVARIANTS
    TypeOK
    HolderInOnePlace
    NoLostWakeup
    OnlyRacedStayOpen
PROPERTIES
    CloseIsGraceful
    ServedInOrder
