CONSTANTS
    Calls = {1, 2}
    HasFallback = {2}
    MaxAttempts = 2
    Apis = {"run", "arun", "stream"}
    MaxIterations = 1
    MaxMessages = 2
SPECIFICATION FairSpec
CHECK_DEADLOCK FALSE
INVARIANTS
    TypeOK
    MessageFlow
    InOrder
    RequestsWellFormed
    SequentialRunsAlone
PROPERTIES
    NothingStartsAfterCancel
    CancelEndsTurn
