SPECIFICATION FairSpec
CONSTANTS
    Proc = {c0, c1, c2}
    PageSize = 4
    HighestUsable = 23
    LastPage = 6
    BootFree <- MCBootFree
    BootUsed = 3
    NoPage <- MCNoPage
INVARIANTS
    TypeOK
    MutualExclusion
    NoDoubleAllocation
    BitmapExact
    Accounting
    AbandonedOnlyWhenExhausted
PROPERTIES
    RefinesAllocator
    LockReturned
CHECK_DEADLOCK FALSE
