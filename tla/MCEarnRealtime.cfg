SPECIFICATION FairSpec
CONSTANTS
    MaxEvents = 3
    MaxOpen = 1
    MaxExpired = 2
    CatchUpLimit = 1
    ClientBuffer = 2
    MaxFaults = 1
    None = None
    Resync = Resync
    Resources = {"position"}
    Touches <- MCTouches
    MaxMounts = 2
    MaxRefreshes = 1
CONSTRAINT FewDisturbances
INVARIANTS SentOnce HandedIsKept
PROPERTIES OwnBatchMovesCursor PageIsAdmitted
CHECK_DEADLOCK FALSE
