CONSTANTS
    MaxRetries = 2
    MaxState = 3
    MaxVersion = 3
SPECIFICATION FairSpec
INVARIANTS
    FileWhole
    CloseKeepsAll
PROPERTIES
    NeverOlder
    EventuallyPersisted
