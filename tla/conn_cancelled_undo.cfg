SPECIFICATION Spec
CONSTANTS
    Write = {w1}
    MaxHandles = 2
    MaxMarks = 3
    Faults = {"cancel"}
    ClientDrains = TRUE
INVARIANT FlagRemembersDropped
CHECK_DEADLOCK FALSE
