SPECIFICATION Spec
CONSTANTS
    Procs = {p1, p2}
    NoProc = NoProc
    MaxOps = 2
    MaxFaults = 2
SYMMETRY ProcSymmetry
INVARIANTS
    FailedWireIsDead
    ReleasedNeverSpends
    ReconciledIsBooked
    SentIsJournaled
    LatchedIsQuiet
