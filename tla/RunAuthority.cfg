CONSTANTS
    modelCall = modelCall
    readCall = readCall
    fetchCall = fetchCall
    m1 = m1
    m2 = m2
    t1 = t1
    t2 = t2
    Operations <- MCOperations
    Attempts <- MCAttempts
    OpOf <- MCOpOf
    KindOf <- MCKindOf
    KeyOf <- MCKeyOf
    Keys <- MCKeys
    TurnOf <- MCTurnOf
    Turns <- MCTurns
    NoTurn = NoTurn
    Leases <- MCLeases
    NoLease = NoLease
    Owners <- MCOwners
    Self = Self
    Other = Other
    NoAttempt = NoAttempt
    NoStamp = NoStamp
    Duration = 2
    LastCommand = 2
    MaxTime = 4
SPECIFICATION Spec
CHECK_DEADLOCK FALSE
INVARIANTS
    TypeOK
    EffectsAreAnnounced
    InFlightNotWrittenOff
    TurnCanEnd
    RecoveryNeverRejected
    ResumableRunsAreQuiet
PROPERTIES
    KeepsPromise
