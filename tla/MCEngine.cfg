SPECIFICATION FairSpec
CONSTANTS
    Procs = {p1, p2}
    Lanes = {l1, l2}
    NoProc = NoProc
    MaxFaults = 2
INVARIANTS
    NeverNil
PROPERTIES
    LostPartEnds
CHECK_DEADLOCK FALSE
