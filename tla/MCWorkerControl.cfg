CONSTANTS
    Caller = {c1, c2, c3}
    Nobody = Nobody
    Interval = {short, long}
    MaxStarts = 4
SPECIFICATION Spec
INVARIANTS
    TypeOK
    OneOfEachKind
    NoPanic
    FlagAndIntervalRight
\* StopWorkers and UpdateConfig may block for ever: see StopReturns.
CHECK_DEADLOCK FALSE
