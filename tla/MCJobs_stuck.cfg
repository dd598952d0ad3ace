CONSTANTS
    JobIds = {1}
    MaxAttempts <- MCMaxAttempts
    Priority <- MCPriority
    NoJob = NoJob
    Clients = {c1}
    Quiet = {}
    Unhandled = {}
    Hung = {}
    MaxCrashes = 1
    MaxDbErrors = 0
    MaxResets = 0
    EventCap = 0
SPECIFICATION FairSpec
PROPERTIES
    PendingResolves
