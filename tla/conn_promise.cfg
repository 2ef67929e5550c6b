SPECIFICATION Spec
CONSTANTS
    Write = {w1, w2, w3}
    MaxHandles = 3
    MaxMarks = 5
    Faults = {"begin"}
    ClientDrains = TRUE
INVARIANT SavepointsHoldWork
PROPERTY KeepsPromise
CHECK_DEADLOCK FALSE
