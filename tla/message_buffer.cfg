SPECIFICATION FairSpec
CONSTANTS
    Capacity = 6
    Undefined = Undefined
    Stream <- FiveMessages
    ChunkSizes = {1, 2, 6, 9}
INVARIANTS
    TypeOK
    MessagesIntact
    ToldBeforeCrash
PROPERTY
    AllAreRead
