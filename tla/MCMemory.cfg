SPECIFICATION Spec
CONSTANTS
    Base = 2
    MaxSize = 8
    Null = 7
    Sizes <- MCSizes
    Builds <- MCBuilds
    Junk = Junk
INVARIANTS
    TypeOK
    FreeListExact
    FreeListInv
    UsedCount
