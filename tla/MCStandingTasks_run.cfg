CONSTANTS
    briefing = briefing
    stuck = stuck
    deadline = deadline
    owner = owner
    guest = guest
    Tasks <- MCTasks
    Users = {owner, guest}
    UserOf <- MCUserOf
    Owner = owner
    Companion = TRUE
    OneShot = {briefing}
    Loose = {deadline}
    Outcomes <- MCOutcomes
    NoTask = NoTask
    MaxErrors = 2
    MaxTimeouts = 1
    MaxJitters = 1
    MaxEdits = 1
    MaxFaults = 1
SPECIFICATION FairSpec
INVARIANTS
    TypeOK
    NotTwice
    BrokenIsPaused
    FiredOnce
PROPERTIES
    ImplementsTaskRows
    DueServed
    StuckPauses
CHECK_DEADLOCK FALSE
