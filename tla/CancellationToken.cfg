SPECIFICATION Spec
CONSTANTS
    Waiters = {w1, w2, w3}
    Cancellers = {k1, k2}
PROPERTY ImplementsSignal
CHECK_DEADLOCK FALSE
