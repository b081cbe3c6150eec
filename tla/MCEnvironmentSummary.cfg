SPECIFICATION Spec
CONSTANTS
    Boot = {b1, b2}
    Sequence = {0, 1, 2}
    Now = 6
    Freshness = 2
    Jitter = 1
    MaxDelay = 2
    MaxRows = 4
    None = None
INVARIANTS OneHistory ReportIsTrue
CHECK_DEADLOCK FALSE
