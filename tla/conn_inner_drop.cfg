SPECIFICATION Spec
CONSTANTS
    Write = {w1, w2}
    MaxHandles = 2
    MaxMarks = 3
    Faults = {"drop_inner"}
    ClientDrains = TRUE
PROPERTY OuterWorkSurvives
CHECK_DEADLOCK FALSE
