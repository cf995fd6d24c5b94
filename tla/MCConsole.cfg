SPECIFICATION FairSpec
CONSTANTS
    Threads = {1, 2}
    Cpus = {0, 1}
    Messages <- MCMessages
    Reports <- MCReports
    Rows = 6
    Columns = 6
    IntBits = 4
    LongBits = 7
    StampDigits = 2
    SecondsWidth = 2
    StartTicks = 99
    MaxTicks = 100
    MaxMessages = 4
INVARIANTS
    ScreenShows
    StampSound
    NumbersReadBack
PROPERTY
    PrintReturns
CHECK_DEADLOCK FALSE
