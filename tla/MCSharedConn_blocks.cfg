CONSTANTS
    Writers = {w1, w2, w3}
    Nobody = Nobody
    Statements = 2
    Blocks = {w1, w2}
    MaxErrors = 2
    MaxCancels = 2
SPECIFICATION Spec
INVARIANTS
    TypeOK
    NoGhostTransaction
    AckedUnlessFailure
PROPERTIES
    NoLateWrite
    ImplementsDurableWrites
CHECK_DEADLOCK FALSE
