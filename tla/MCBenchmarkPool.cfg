CONSTANTS
    Starter = {s1, s2}
    Stopper = {t1}
    WorkerCount = 1
    MaxWork = 2
SPECIFICATION FairSpec
INVARIANTS
    TypeOK
    WorkConserved
    NothingLeft
PROPERTIES
    WorkGoesOn
    LoadEnds
