CONSTANTS
    e = e
    Events <- MCEvents
    Tasks = {d1, d2, d3}
    NoTask = NoTask
    EventOf <- MCEventOf
    MaxPending = 2
    MaxRounds = 2
    MaxLetters = 1
SPECIFICATION FairSpec
CHECK_DEADLOCK FALSE
INVARIANTS
    OneAtATime
PROPERTIES
    OnlyOwnerReleases
    AnsweredAtMostOnce
    TasksEnd
