CONSTANTS
    Writers = {w1, w2}
    Nobody = Nobody
    Statements = 1
    Blocks = {w1, w2}
    MaxErrors = 1
    MaxCancels = 0
SPECIFICATION Spec
INVARIANTS
    CommittedOnCleanExit
CHECK_DEADLOCK FALSE
