SPECIFICATION FairSpec
CONSTANTS
    Messages <- MCMessages
    Unparsed = {"b"}
    Handlers = {h1, h2}
    Sweeps = {s1, s2}
    Configs <- MCConfigs
    Day = 2
    Cooldown = 1
    IdempotencyTtl = 2
    MaxCacheEntries = 1
    Multiplier = 2
    MaxFlushAttempts = 2
    NoWindow = NoWindow
    NoRecap = NoRecap
    NoState = NoState
    MaxNow = 2
    MaxReceived = 2
    MaxFaults = 2
INVARIANTS
    SuppressedWasDelivered
    EventsAreCounted
    PeriodReportedOnce
PROPERTIES
    OneAlertPerWindow
    DeferredIsReleased
    EveryRequestIsAnswered
