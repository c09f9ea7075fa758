SPECIFICATION Spec
CONSTANTS
    NoDate = NoDate
    NoBytes = NoBytes
    Null = Null
    Base = 4
    SafeHi = 16
    BufferInc = 6
    Radix = 2
    Group = 3
    NumericNeg = 4
    NoType = NoType
    Amounts = {0, 1, 2, 3}
    NoFilter = NoFilter
    KnownScalars = {"b1", "b2"}
    EmptyTuple = "empty"
    NullType = "null"
    NoCodec = NoCodec
    TypeLists <- Lists
    Customs = {{}, {"b1"}}
    MaxLookups = 3
    None = None
    Failed = Failed
CHECK_DEADLOCK FALSE
INVARIANTS
    RegistrySound
    FirstSourceWins
    SecurityKept
    CalendarSound
    RoundTrips
    CallsResolved
    InferenceSound
    QueryResolves
