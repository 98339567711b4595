CONSTANTS
    Connections = {c1, c2, c3, c4}
    NoConnection = NoConnection
    Evidence = {e1, e2, e3, e4, e5}
    NoEvidence = NoEvidence
SYMMETRY MCSymmetry
SPECIFICATION Spec
INVARIANTS
    LogIsChain
    ProjectionIsPrefix
PROPERTIES
    AppendsKeepProjection
