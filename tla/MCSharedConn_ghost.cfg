CONSTANTS
    Writers = {w1, w2}
    Nobody = Nobody
    Statements = 1
    Blocks = {}
    MaxErrors = 0
    MaxCancels = 1
SPECIFICATION Spec
INVARIANTS
    ClearedBeforeReraise
CHECK_DEADLOCK FALSE
