CONSTANTS
    Callers = {a, b}
    NumProfiles = 4
    Providers = {"openai", "anthropic"}
    Home <- MCHome
    Legacy = {1}
    HostKeys = {1, 4}
    MaxRetries = 1
    None = None
SPECIFICATION FairSpec
INVARIANTS
    TypeOK
    KeysStayHome
PROPERTIES
    BlamesTheKeySent
    ChoosesAvailable
    EveryCallEnds
