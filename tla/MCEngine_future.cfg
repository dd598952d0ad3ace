CONSTANTS
    Chats = {c1}
    Loads = {l1, l2}
    Unloads = {}
    MaxMonitors = 2
    Models = {qwen, phi}
    None = None
    MaxFaults = 0
    MaxCancels = 0
SPECIFICATION Spec
INVARIANTS
    FutureCleared
CHECK_DEADLOCK FALSE
