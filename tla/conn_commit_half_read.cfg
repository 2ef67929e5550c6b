SPECIFICATION Spec
CONSTANTS
    Write = {w1}
    MaxHandles = 2
    MaxMarks = 3
    Faults = {}
    ClientDrains = FALSE
INVARIANT DrainedBeforeSend
CHECK_DEADLOCK FALSE
