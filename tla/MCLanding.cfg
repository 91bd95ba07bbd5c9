SPECIFICATION FairSpec
CONSTANTS
    n1 = n1
    n2 = n2
    l1 = l1
    l2 = l2
    Nodes <- MCNodes
    Landers <- MCLanders
    MaxHeight = 3
    MaxSlot = 4
    MaxForks = 1
    LastValidBlockHeight = 2
    Required = 2
    MaxCrashes = 1
INVARIANTS
    ExpiredNeverLands
    OutcomeIsOnChain
PROPERTIES
    ImplementsWireFate
    EventuallyDecided
CHECK_DEADLOCK FALSE
