SPECIFICATION FairSpec
CONSTANTS
    Procs = {p1}
    NoProc = NoProc
    MaxOps = 1
    MaxFaults = 2
PROPERTIES
    EventuallyTerminal
    ReservationCloses
