CONSTANTS
    JobIds = {1}
    MaxAttempts <- MCMaxAttempts
    Priority <- MCPriority
    NoJob = NoJob
    Clients = {c1, c2}
    Quiet = {}
    Unhandled = {}
    Hung = {}
    MaxCrashes = 1
    MaxDbErrors = 2
    MaxResets = 2
    EventCap = 0
SPECIFICATION Spec
INVARIANTS
    FinishedIsClean
    NoPhantomCancel
    CancelNotLost
