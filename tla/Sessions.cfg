CONSTANTS
    MaxEntries = 4
    MaxSessions = 2
    Long = 1
    Recent = 1
    Kept = 1
    None = None
SPECIFICATION Spec
CHECK_DEADLOCK FALSE
INVARIANTS
    TreesWhole
    AutoSaved
PROPERTIES
    NothingIsLost
    CompactionKeepsBranch
