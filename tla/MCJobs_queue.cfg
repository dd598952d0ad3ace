CONSTANTS
    JobIds <- MCJobIds
    MaxAttempts <- MCMaxAttempts
    Priority <- MCPriority
    NoJob = NoJob
    Clients = {c1}
    Quiet = {2}
    Unhandled = {2}
    Hung = {1}
    MaxCrashes = 1
    MaxDbErrors = 1
    MaxResets = 1
    EventCap = 0
SPECIFICATION FairSpec
INVARIANTS
    TypeOK
    AttemptsBounded
    RunningIsHeld
    NoLostWakeup
PROPERTIES
    RunningResolves
    ClaimableServed
    ImplementsLifecycle
CHECK_DEADLOCK FALSE
