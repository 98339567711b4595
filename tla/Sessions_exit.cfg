CONSTANTS
    MaxEntries = 3
    MaxSessions = 2
    Long = 1
    Recent = 1
    Kept = 1
    None = None
SPECIFICATION Spec
CHECK_DEADLOCK FALSE
PROPERTY SavedAsTold
