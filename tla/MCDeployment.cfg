CONSTANTS
    Container = {c1, c2}
    Name = {n1, n2}
    Nothing = Nothing
    ComposeID = c1
    ComposeName = n1
    Request = {r1, r2}
    MaxCount = 2
    AutoConnect = {c1}
    MaxRetries = 1
    MaxEvents = 3
SPECIFICATION FairSpec
INVARIANTS
    TypeOK
    AnswersTrue
    ConnectedIsRegistered
PROPERTIES
    ServerIsRegistry
    Rejoins
    GoneUnregistered
CHECK_DEADLOCK FALSE
