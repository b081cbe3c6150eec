SPECIFICATION FairSpec
CONSTANTS
    MaxSession = 3
    MaxProfile = 1
    MaxRecord = 2
    Button = {"baseline", "temp_up"}
    Mode = {0}
    Temp = {0, 1}
    None = None
INVARIANTS VerifiedTrue ClosedForGood
PROPERTIES SavedStays WindowsEnd
CHECK_DEADLOCK FALSE
CONSTRAINT FewInTransit
