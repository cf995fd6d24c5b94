SPECIFICATION FairSpec
CONSTANTS
    Rsdps <- MCRsdps
    IRQ_BASE = 48
    ApicIds = {0, 1, 2, 3, 4}
    Timeout = 3
INVARIANTS
    TablesFound
    LinesRouted
    TrampolineSafe
    AllRunning
PROPERTY BootEnds
CHECK_DEADLOCK FALSE
