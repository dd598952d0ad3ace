CONSTANTS
    Chats = {c1}
    Loads = {l1}
    Unloads = {u1}
    MaxMonitors = 3
    Models = {qwen, phi}
    None = None
    MaxFaults = 1
    MaxCancels = 1
SPECIFICATION FairSpec
INVARIANTS
    TypeOK
    MonitorCovers
    StoppingIsOwned
    AwaitsOwnModel
PROPERTIES
    Rests
CHECK_DEADLOCK FALSE
