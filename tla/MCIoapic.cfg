SPECIFICATION Spec
CONSTANTS
    Rsdps <- MCTwoIoapics
    IRQ_BASE = 48
    ApicIds = {0, 1, 2, 3, 4}
    Timeout = 3
INVARIANT LinesRouted
CHECK_DEADLOCK FALSE
