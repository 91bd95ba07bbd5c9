SPECIFICATION Spec
CONSTANTS
    N = 3
    LPs = {1, 2, 3}
    Rests = {0, 1, 4}
    MaxPrepared = 5
    MaxActual = 7
INVARIANTS
    ShareIsProportional
    EveryCostSettles
CHECK_DEADLOCK FALSE
