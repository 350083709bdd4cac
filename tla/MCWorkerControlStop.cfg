CONSTANTS
    Caller = {c1, c2}
    Nobody = Nobody
    Interval = {short}
    MaxStarts = 2
SPECIFICATION FairSpec
PROPERTIES
    StopReturns
CHECK_DEADLOCK FALSE
