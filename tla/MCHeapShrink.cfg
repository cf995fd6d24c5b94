SPECIFICATION Spec
CONSTANTS
    Proc = {t0}
    Phys = {1, 2, 3, 4, 5, 6, 7, 8}
    VMax = 7
    Spans <- MCSpans
    PageUnits = 2
    Sizes = {1, 2}
    Slack = 1
    AllowShrink = TRUE
    MaxCalls = 5
INVARIANT HeadersKept
CHECK_DEADLOCK FALSE
