SPECIFICATION FairSpec
CONSTANTS
    MaxProcesses = 2
    MaxThreads = 3
    TickPeriod = 3
    MayFail <- Sites
INVARIANTS
    TypeOK
    FaultsExplained
    OneRunning
    LockOwned
    TablesExact
PROPERTIES
    EveryThreadRuns
    LockComesBack
CHECK_DEADLOCK FALSE
