CONSTANTS
    e = e
    Events <- MCEvents
    Tasks = {d1, d2}
    NoTask = NoTask
    EventOf <- MCEventOf
    MaxPending = 2
    MaxRounds = 2
    MaxLetters = 1
SPECIFICATION Spec
CHECK_DEADLOCK FALSE
PROPERTIES
    DuplicatesAreDropped
