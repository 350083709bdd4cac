\* One client, two callers, one check, the cleanup worker.
CONSTANTS
    ID = {x}
    Nobody = Nobody
    Caller = {c1, c2}
    Check = {k1}
    Cleanup = Cleanup
    MaxAge = 1
    MinAge = 1
    MaxDelay = 1
SPECIFICATION FairHistorySpec
INVARIANTS
    StableRegistered
    GoneForgotten
PROPERTIES
    ImplementsRegistry
    DeadUnregistered
    ExpiredEvicted
    GhostVanishes
    AliveListed
