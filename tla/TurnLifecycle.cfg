CONSTANTS
    Actors = {a1, a2}
    NoActor = NoActor
    Sessions = {s1, s2}
    MaxGeneration = 3
    MaxDepth = 2
SPECIFICATION FairSpec
CHECK_DEADLOCK FALSE
INVARIANTS
    OneHolder
    TurnStaysInSession
    OnlyAskedAreCancelled
PROPERTIES
    WaitersSeeTheEnd
    WaitersReturn
