SPECIFICATION Spec
CONSTANTS
    MaxEvents = 2
    MaxOpen = 1
    MaxExpired = 0
    CatchUpLimit = 1
    ClientBuffer = 2
    MaxFaults = 0
    None = None
    Resync = Resync
    Resources = {"position", "state"}
    Touches <- MCTouches
    MaxMounts = 1
    MaxRefreshes = 0
INVARIANTS GapFree
CHECK_DEADLOCK FALSE
