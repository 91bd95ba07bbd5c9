SPECIFICATION FairSpec
CONSTANTS
    Callers = {c1, c2}
    Requests <- MCLoads
    Loads <- MCLoads
    MaxRequests = 1
    Window = 2
    Ttl = 1
    MaxAttempts = 2
    MaxRecent = 1
    Delays = {1}
    NoTimer = NoTimer
    NoLeader = NoLeader
    MaxChain = 1
    CompletedTtl = 1
    CooldownTime = 1
    LoadAttempts = 2
    Missing = {0}
    MaxLoads = 2
INVARIANTS
    RateIsKept
    OneRecoveryProbe
    ReadsNeverGoBack
PROPERTIES
    PublishedInOrder
    EveryReadSettles
