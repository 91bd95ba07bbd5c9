SPECIFICATION FairSpec
CONSTANTS
    InIds = {i1}
    OutIds = {o1}
    DepositIds = {d1}
    Trackers = {t1}
    NoId = NoId
    MaxFaults = 1
CONSTRAINT Transfers
PROPERTIES
    OutcomeIsRecorded
    UnsettledIsReported
