SPECIFICATION Spec
CONSTANTS
    MaxProcesses = 2
    MaxThreads = 3
    TickPeriod = 3
    MayFail <- MCMayFailStack
INVARIANT NoFault
