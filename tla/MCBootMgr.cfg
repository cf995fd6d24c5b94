SPECIFICATION FairSpec
CONSTANTS
    PageSize = 2
    BitsPerByte = 2
    LowPages = 1
    MinPages = 4
    MaxPage = 8
    Firmwares <- MCFirmwares
    RsdpSlots = 3
INVARIANTS
    FreePagesAreRam
    AllRamManaged
    BootsIntoPmm
    HandoverKept
PROPERTY
    CapableBoots
CHECK_DEADLOCK FALSE
