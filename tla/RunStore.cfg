CONSTANTS
    toolCall = toolCall
    modelCall = modelCall
    t1 = t1
    t2 = t2
    m1 = m1
    Operations <- MCOperations
    Attempts <- MCAttempts
    OpOf <- MCOpOf
    KindOf <- MCKindOf
    KeyOf <- MCKeyOf
    Keys <- MCKeys
    TurnOf <- MCTurnOf
    Turns <- MCTurns
    NoTurn = NoTurn
    Leases <- MCLeases
    NoLease = NoLease
    Owners = {p}
    Duration = 1
    MaxTime = 1
SYMMETRY MCSymmetry
SPECIFICATION Spec
CHECK_DEADLOCK FALSE
INVARIANTS
    LedgerInv
    KnownOutcomeIsConfirmed
    AtMostOneEffect
PROPERTIES
    ClosedStaysClosed
    KeepsPromise
