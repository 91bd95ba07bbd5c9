SPECIFICATION Spec
CONSTANTS
    InIds = {i1, i2}
    OutIds = {}
    DepositIds = {d1}
    Trackers = {t1, t2}
    NoId = NoId
    MaxFaults = 2
CONSTRAINT Transfers
SYMMETRY Symmetry
INVARIANTS
    OneConfirmed
    SentIsKept
    OutcomeIsRelays
    OneWarning
PROPERTIES
    StateOnlyAdvances
