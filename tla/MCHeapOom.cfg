SPECIFICATION FairSpec
CONSTANTS
    Proc = {t0, t1}
    Phys = {1, 2, 3, 4, 5, 6}
    VMax = 7
    Spans <- MCSpans
    PageUnits = 2
    Sizes = {1, 2}
    Slack = 1
    AllowShrink = FALSE
    MaxCalls = 4
PROPERTY CleanupReturns
CHECK_DEADLOCK FALSE
