SPECIFICATION Spec
CONSTANTS
    Admitters = {a1}
    Operators = {s1, s2}
    Owners = {o1, o2}
    Amounts = {1, 2}
    TakesOwners = TRUE
    TakesLimit = TRUE
    Null = Null
    NoOperator = NoOperator
    MaxVersion = 3
SYMMETRY Symmetry
INVARIANTS
    AdmittedIsAllowed
PROPERTIES
    HoldIsBarrier
    ChangeIsInformed
CHECK_DEADLOCK FALSE
