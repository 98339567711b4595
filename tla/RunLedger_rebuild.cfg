CONSTANTS
    Connections = {c1, c2}
    NoConnection = NoConnection
    Evidence = {e1, e2}
    NoEvidence = NoEvidence
SPECIFICATION Spec
PROPERTIES
    RebuildIsCurrent
